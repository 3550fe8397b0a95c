--------------------------- MODULE UciPackageProofs ---------------------------
(***************************************************************************)
(* Proofs about UciPackage, in this order: what the lookup and the changes *)
(* to a list return; that every change, the import and the export keep the *)
(* types of trees and files; that replay is compositional (ReplayJoin),    *)
(* and that a line replayed on the tree of its call does what the call did *)
(* (SameEffect); that every action keeps IInv; and that the import of a    *)
(* file without clashing names has its sections again, by induction over   *)
(* items, options and sections (ListedNew, ParsedNew, ImportNew).          *)
(*                                                                         *)
(* The recursive functions of UciPackage are unfolded with Iterates of     *)
(* SeqInduction.                                                           *)
(***************************************************************************)
EXTENDS UciPackage, SeqInduction

USE ZenonT(5), SMTT(20), ZenonT(60)

(* uci_lookup_list returns the place of a thing that has the name, or 0 if *)
(* none has it.                                                            *)
LEMMA Lookup ==
  ASSUME NEW S, NEW list \in Seq(S), NEW name, NEW k, k = uci_lookup_list(list, name)
  PROVE  \/ k = 0 /\ \A i \in 1..Len(list) : list[i].name # name
         \/ k \in 1..Len(list) /\ list[k].name = name
<1>. DEFINE I == {i \in 1..Len(list) : list[i].name = name}
<1>. DEFINE first == CHOOSE i \in I : \A j \in I : i <= j
<1>1. k = IF I = {} THEN 0 ELSE first
  BY DEF uci_lookup_list
<1>2. I \subseteq Nat
  OBVIOUS
<1>3. CASE I = {}
  BY <1>1, <1>3
<1>4. CASE I # {}
  <2>1. first \in I
    <3>. HIDE DEF I
    <3>1. \E x \in I : \A y \in I : x <= y
      BY <1>2, <1>4, Least
    <3>. QED
      BY <3>1
  <2>. QED
    BY <1>1, <1>4, <2>1
<1>. QED
  BY <1>3, <1>4

(* Where no two have one name, it finds the one that was meant.            *)
LEMMA LookupOnly ==
  ASSUME NEW S, NEW list \in Seq(S), NoTwo(list), NEW i \in 1..Len(list)
  PROVE  uci_lookup_list(list, list[i].name) = i
<1>. DEFINE k == uci_lookup_list(list, list[i].name)
<1>1. \/ k = 0 /\ \A j \in 1..Len(list) : list[j].name # list[i].name
      \/ k \in 1..Len(list) /\ list[k].name = list[i].name
  <2>. HIDE DEF k
  <2>1. k = uci_lookup_list(list, list[i].name)
    BY DEF k
  <2>. QED
    BY <2>1, Lookup
<1>. HIDE DEF k
<1>2. k = i
  BY <1>1 DEF NoTwo
<1>. QED
  BY <1>2 DEF k

(* A sequence without one of its items.                                    *)
LEMMA RemoveAtType ==
  ASSUME NEW S, NEW q \in Seq(S), NEW i \in 1..Len(q)
  PROVE  RemoveAt(q, i) \in Seq(S) /\ Len(RemoveAt(q, i)) = Len(q) - 1
<1>1. SubSeq(q, 1, i - 1) \in Seq(S) /\ Len(SubSeq(q, 1, i - 1)) = i - 1
  OBVIOUS
<1>2. SubSeq(q, i + 1, Len(q)) \in Seq(S) /\ Len(SubSeq(q, i + 1, Len(q))) = Len(q) - i
  OBVIOUS
<1>. DEFINE a == SubSeq(q, 1, i - 1)
            b == SubSeq(q, i + 1, Len(q))
<1>3. RemoveAt(q, i) = a \o b /\ Len(q) \in Nat
  BY DEF RemoveAt
<1>. HIDE DEF a, b
<1>4. a \in Seq(S) /\ b \in Seq(S) /\ Len(a) = i - 1 /\ Len(b) = Len(q) - i
  BY <1>1, <1>2 DEF a, b
<1>5. a \o b \in Seq(S) /\ Len(a \o b) = Len(a) + Len(b)
  BY <1>4
<1>. QED
  BY <1>3, <1>4, <1>5

(* A sequence with one more item.                                          *)
LEMMA InsertAtType ==
  ASSUME NEW S, NEW q \in Seq(S), NEW i \in 1..(Len(q) + 1), NEW e \in S
  PROVE  InsertAt(q, i, e) \in Seq(S)
<1>1. SubSeq(q, 1, i - 1) \in Seq(S) /\ SubSeq(q, i, Len(q)) \in Seq(S)
  OBVIOUS
<1>. QED
  BY <1>1 DEF InsertAt

-----------------------------------------------------------------------------
(* What options are.                                                       *)
LEMMA OptionIs ==
  ASSUME NEW o \in Option
  PROVE  /\ o.name \in Name /\ o.list \in BOOLEAN /\ o.val \in Seq(Val)
         /\ ~o.list => \E v \in Val : o.val = <<v>>
         /\ o = [name |-> o.name, list |-> o.list, val |-> o.val]
<1>1. CASE o \in [name : Name, list : {FALSE}, val : {<<v>> : v \in Val}]
  <2>1. PICK v \in Val : o.val = <<v>>
    BY <1>1
  <2>2. <<v>> \in Seq(Val)
    OBVIOUS
  <2>. QED
    BY <1>1, <2>1, <2>2
<1>2. CASE o \in [name : Name, list : {TRUE}, val : Seq(Val)]
  BY <1>2
<1>. QED
  BY <1>1, <1>2 DEF Option

(* A string is an option.                                                  *)
LEMMA StringIs ==
  ASSUME NEW name \in Name, NEW v \in Val
  PROVE  [name |-> name, list |-> FALSE, val |-> <<v>>] \in Option
BY DEF Option

(* A list is an option.                                                    *)
LEMMA ListIs ==
  ASSUME NEW name \in Name, NEW q \in Seq(Val)
  PROVE  [name |-> name, list |-> TRUE, val |-> q] \in Option
BY DEF Option

(* So are options with another name, and lists with other items.           *)
LEMMA OptionWith ==
  ASSUME NEW o \in Option
  PROVE  /\ \A name \in Name : [o EXCEPT !.name = name] \in Option
         /\ o.list => \A q \in Seq(Val) : [o EXCEPT !.val = q] \in Option
<1>1. /\ o.list \in BOOLEAN /\ o.val \in Seq(Val) /\ o.name \in Name
      /\ ~o.list => \E v \in Val : o.val = <<v>>
      /\ o = [name |-> o.name, list |-> o.list, val |-> o.val]
  BY OptionIs
<1>2. ASSUME NEW name \in Name
      PROVE  [o EXCEPT !.name = name] \in Option
  <2>1. [o EXCEPT !.name = name] = [name |-> name, list |-> o.list, val |-> o.val]
    BY <1>1
  <2>2. CASE o.list
    BY <1>1, <2>1, <2>2, ListIs
  <2>3. CASE ~o.list
    <3>1. PICK v \in Val : o.val = <<v>>
      BY <1>1, <2>3
    <3>. QED
      BY <1>1, <2>1, <2>3, <3>1, StringIs
  <2>. QED
    BY <2>2, <2>3
<1>3. ASSUME o.list, NEW q \in Seq(Val)
      PROVE  [o EXCEPT !.val = q] \in Option
  <2>. DEFINE V == Seq(Val)
  <2>1. o \in [name : Name, list : {TRUE}, val : V]
    BY <1>3 DEF Option
  <2>. HIDE DEF V
  <2>2. q \in V
    BY DEF V
  <2>3. [o EXCEPT !.val = q] \in [name : Name, list : {TRUE}, val : V]
    BY <2>1, <2>2
  <2>. QED
    BY <2>3 DEF V, Option
<1>. QED
  BY <1>2, <1>3

(* A sequence with another item in a place.                                *)
LEMMA ReplaceType ==
  ASSUME NEW S, NEW q \in Seq(S), NEW k \in 1..Len(q), NEW e \in S
  PROVE  [q EXCEPT ![k] = e] \in Seq(S) /\ Len([q EXCEPT ![k] = e]) = Len(q)
OBVIOUS

(* The operations on options give options.                                 *)
LEMMA SetOptionType ==
  ASSUME NEW opt \in Seq(Option), NEW name \in Name, NEW value \in Val
  PROVE  set_option(opt, name, value) \in Seq(Option)
<1>. DEFINE k == uci_lookup_list(opt, name)
            o == [name |-> name, list |-> FALSE, val |-> <<value>>]
<1>1. o \in Option
  BY StringIs
<1>2. k = 0 \/ k \in 1..Len(opt)
  <2>. HIDE DEF k
  <2>1. k = uci_lookup_list(opt, name)
    BY DEF k
  <2>. QED
    BY <2>1, Lookup, Zenon
<1>3. k \in 1..Len(opt) => RemoveAt(opt, k) \in Seq(Option)
  <2>. HIDE DEF k
  <2>. QED
    BY RemoveAtType
<1>4. set_option(opt, name, value) \in {opt, Append(opt, o)} \/
      (k \in 1..Len(opt) /\ set_option(opt, name, value) = Append(RemoveAt(opt, k), o))
  <2>1. set_option(opt, name, value) =
          IF k = 0 THEN Append(opt, o)
          ELSE IF opt[k] = o THEN opt ELSE Append(RemoveAt(opt, k), o)
    BY DEF set_option
  <2>. HIDE DEF k, o
  <2>. QED
    BY <1>2, <2>1, Zenon
<1>. HIDE DEF k, o
<1>5. \A q \in Seq(Option) : Append(q, o) \in Seq(Option)
  BY <1>1
<1>. QED
  BY <1>3, <1>4, <1>5, Zenon

(* add_list gives options, whether the list is new, grows or was a string. *)
LEMMA AddListType ==
  ASSUME NEW opt \in Seq(Option), NEW name \in Name, NEW value \in Val
  PROVE  add_list(opt, name, value) \in Seq(Option)
<1>. DEFINE k == uci_lookup_list(opt, name)
            new(before) == [name |-> name, list |-> TRUE, val |-> Append(before, value)]
<1>1. \A q \in Seq(Val) : new(q) \in Option
  <2>1. \A q \in Seq(Val) : Append(q, value) \in Seq(Val)
    OBVIOUS
  <2>. QED
    BY <2>1, ListIs
<1>2. k = 0 \/ k \in 1..Len(opt)
  <2>. HIDE DEF k
  <2>1. k = uci_lookup_list(opt, name)
    BY DEF k
  <2>. QED
    BY <2>1, Lookup, Zenon
<1>3. add_list(opt, name, value) =
        IF k = 0 THEN Append(opt, new(<<>>))
        ELSE IF opt[k].list THEN [opt EXCEPT ![k] = new(opt[k].val)]
        ELSE Append(RemoveAt(opt, k), new(opt[k].val))
  BY DEF add_list
<1>. HIDE DEF k, new
<1>4. CASE k = 0
  <2>1. new(<<>>) \in Option
    <3>1. <<>> \in Seq(Val)
      OBVIOUS
    <3>. QED
      BY <1>1, <3>1
  <2>. QED
    BY <1>3, <1>4, <2>1
<1>5. CASE k \in 1..Len(opt)
  <2>1. k # 0 /\ opt[k] \in Option /\ RemoveAt(opt, k) \in Seq(Option)
    BY <1>5, RemoveAtType
  <2>2. new(opt[k].val) \in Option
    BY <1>1, <2>1, OptionIs
  <2>3. [opt EXCEPT ![k] = new(opt[k].val)] \in Seq(Option)
    BY <1>5, <2>2, ReplaceType
  <2>4. Append(RemoveAt(opt, k), new(opt[k].val)) \in Seq(Option)
    BY <2>1, <2>2
  <2>. QED
    BY <1>3, <2>1, <2>3, <2>4
<1>. QED
  BY <1>2, <1>4, <1>5

(* So does the removal of an item, at an index the list has or not.        *)
LEMMA DeleteItemType ==
  ASSUME NEW opt \in Seq(Option), NEW k \in 1..Len(opt), opt[k].list, NEW n \in Nat
  PROVE  delete_item(opt, k, n) \in Seq(Option)
<1>1. opt[k] \in Option /\ opt[k].val \in Seq(Val)
  BY OptionIs
<1>2. CASE n < Len(opt[k].val)
  <2>1. n + 1 \in 1..Len(opt[k].val)
    BY <1>1, <1>2
  <2>2. RemoveAt(opt[k].val, n + 1) \in Seq(Val)
    BY <1>1, <2>1, RemoveAtType
  <2>3. [opt[k] EXCEPT !.val = RemoveAt(opt[k].val, n + 1)] \in Option
    BY <1>1, <2>2, OptionWith
  <2>4. [opt EXCEPT ![k] = [opt[k] EXCEPT !.val = RemoveAt(opt[k].val, n + 1)]]
          \in Seq(Option)
    BY <2>3, ReplaceType
  <2>. QED
    BY <1>2, <2>4 DEF delete_item
<1>3. CASE ~(n < Len(opt[k].val))
  BY <1>3 DEF delete_item
<1>. QED
  BY <1>2, <1>3

-----------------------------------------------------------------------------
(* Trees with other sections, and with another section in a place.         *)
LEMMA TreeWith ==
  ASSUME NEW t \in Tree
  PROVE  /\ t.sec \in Seq(Section(Named)) /\ t.n \in Nat /\ t # Gone
         /\ \A q \in Seq(Section(Named)) : [t EXCEPT !.sec = q] \in Tree
         /\ \A s \in 1..Len(t.sec), x \in Section(Named) :
              [t EXCEPT !.sec = [t.sec EXCEPT ![s] = x]] \in Tree
<1>1. t.sec \in Seq(Section(Named)) /\ t.n \in Nat
  BY DEF Tree
<1>2. t # Gone
  BY <1>1 DEF Gone
<1>3. ASSUME NEW q \in Seq(Section(Named))
      PROVE  [t EXCEPT !.sec = q] \in Tree
  BY DEF Tree
<1>4. ASSUME NEW s \in 1..Len(t.sec), NEW x \in Section(Named)
      PROVE  [t EXCEPT !.sec = [t.sec EXCEPT ![s] = x]] \in Tree
  <2>1. [t.sec EXCEPT ![s] = x] \in Seq(Section(Named))
    BY <1>1, ReplaceType
  <2>. QED
    BY <1>3, <2>1
<1>. QED
  BY <1>1, <1>2, <1>3, <1>4

(* A section with another type, name or other options.                     *)
LEMMA SectionWith ==
  ASSUME NEW x \in Section(Named)
  PROVE  /\ \A type \in Type : [x EXCEPT !.type = type] \in Section(Named)
         /\ \A b \in BOOLEAN : [x EXCEPT !.anon = b] \in Section(Named)
         /\ \A opt \in Seq(Option) : [x EXCEPT !.opt = opt] \in Section(Named)
         /\ \A name \in Name :
              [x EXCEPT !.name = name, !.anon = FALSE] \in Section(Named)
<1>. DEFINE O == Seq(Option)
<1>. HIDE DEF O
<1>1. Section(Named) = [id : Int, type : Type, name : Named, anon : BOOLEAN, opt : O]
  BY DEF Section, O
<1>2. Name \subseteq Named
  BY DEF Named
<1>3. /\ \A type \in Type : [x EXCEPT !.type = type] \in Section(Named)
      /\ \A b \in BOOLEAN : [x EXCEPT !.anon = b] \in Section(Named)
      /\ \A opt \in O : [x EXCEPT !.opt = opt] \in Section(Named)
  BY <1>1
<1>5. \A y \in Section(Named) : \A b \in BOOLEAN : [y EXCEPT !.anon = b] \in Section(Named)
  BY <1>1
<1>4. ASSUME NEW name \in Name
      PROVE  [x EXCEPT !.name = name, !.anon = FALSE] \in Section(Named)
  <2>. DEFINE y == [x EXCEPT !.name = name]
  <2>1. y \in Section(Named)
    BY <1>1, <1>2
  <2>2. [x EXCEPT !.name = name, !.anon = FALSE] = [y EXCEPT !.anon = FALSE]
    OBVIOUS
  <2>. HIDE DEF y
  <2>3. [y EXCEPT !.anon = FALSE] \in Section(Named)
    BY <1>5, <2>1, Zenon
  <2>. QED
    BY <2>2, <2>3
<1>. QED
  BY <1>3, <1>4 DEF O

(* A tree with another section in a place is one.                          *)
LEMMA TreePut ==
  ASSUME NEW t \in Tree, NEW s \in 1..Len(t.sec), NEW x \in Section(Named)
  PROVE  /\ [t EXCEPT !.sec = [t.sec EXCEPT ![s] = x]] \in Tree
         /\ [t EXCEPT !.sec = [t.sec EXCEPT ![s] = x]].sec = [t.sec EXCEPT ![s] = x]
         /\ Len([t.sec EXCEPT ![s] = x]) = Len(t.sec)
<1>. DEFINE q == [t.sec EXCEPT ![s] = x]
            u == [t EXCEPT !.sec = q]
<1>1. t.sec \in Seq(Section(Named))
  BY TreeWith
<1>2. q \in Seq(Section(Named)) /\ Len(q) = Len(t.sec)
  BY <1>1, ReplaceType
<1>3. u = [t EXCEPT !.sec = q]
  OBVIOUS
<1>. HIDE DEF q, u
<1>4. u \in Tree
  BY <1>2, <1>3, TreeWith
<1>5. u.sec = q
  BY <1>3 DEF Tree
<1>. QED
  BY <1>2, <1>4, <1>5 DEF q, u

(* So is one with other options in a section.                              *)
LEMMA WithOptionsType ==
  ASSUME NEW t \in Tree, NEW s \in 1..Len(t.sec), NEW opt \in Seq(Option)
  PROVE  WithOptions(t, s, opt) \in Tree
<1>1. t.sec[s] \in Section(Named)
  BY TreeWith
<1>. DEFINE x == [t.sec[s] EXCEPT !.opt = opt]
<1>2. x \in Section(Named)
  BY <1>1, SectionWith
<1>3. WithOptions(t, s, opt) = [t EXCEPT !.sec = [t.sec EXCEPT ![s] = x]]
  BY DEF WithOptions
<1>. HIDE DEF x
<1>4. [t EXCEPT !.sec = [t.sec EXCEPT ![s] = x]] \in Tree
  BY <1>2, TreePut, Zenon
<1>. QED
  BY <1>3, <1>4, Zenon

(* uci_alloc_section adds a section without options.                       *)
LEMMA AllocType ==
  ASSUME NEW t \in Tree, NEW type \in Type, NEW name \in Named \union {None}, NEW id \in Int
  PROVE  \E x \in Section(Named) :
           /\ uci_alloc_section(t, type, name, id) \in Tree
           /\ uci_alloc_section(t, type, name, id) = [sec |-> Append(t.sec, x), n |-> t.n + 1]
           /\ x = [id |-> id, type |-> type, anon |-> name = None, opt |-> <<>>,
                   name |-> IF name = None THEN <<t.n + 1, type>> ELSE name]
<1>. DEFINE x == [id |-> id, type |-> type, anon |-> name = None, opt |-> <<>>,
                  name |-> IF name = None THEN <<t.n + 1, type>> ELSE name]
            N == IF name = None THEN <<t.n + 1, type>> ELSE name
            O == Seq(Option)
<1>1. t.sec \in Seq(Section(Named)) /\ t.n \in Nat
  BY TreeWith
<1>2. N \in Named
  BY <1>1 DEF Named
<1>3. <<>> \in O
  OBVIOUS
<1>4. uci_alloc_section(t, type, name, id) = [sec |-> Append(t.sec, x), n |-> t.n + 1]
  BY DEF uci_alloc_section, uci_fixup_section
<1>5. x \in Section(Named)
  <2>1. x = [id |-> id, type |-> type, anon |-> name = None, opt |-> <<>>, name |-> N]
    OBVIOUS
  <2>2. (name = None) \in BOOLEAN
    OBVIOUS
  <2>3. Section(Named) = [id : Int, type : Type, name : Named, anon : BOOLEAN, opt : O]
    BY DEF Section
  <2>. HIDE DEF N, O
  <2>. QED
    BY <1>2, <1>3, <2>1, <2>2, <2>3
<1>8. x = [id |-> id, type |-> type, anon |-> name = None, opt |-> <<>>,
           name |-> IF name = None THEN <<t.n + 1, type>> ELSE name]
  OBVIOUS
<1>. HIDE DEF x
<1>6. Append(t.sec, x) \in Seq(Section(Named)) /\ t.n + 1 \in Nat
  BY <1>1, <1>5
<1>7. [sec |-> Append(t.sec, x), n |-> t.n + 1] \in Tree
  BY <1>6 DEF Tree
<1>. QED
  BY <1>4, <1>5, <1>7, <1>8, Zenon

(* The arguments of a change.                                              *)
LEMMA ChangeIs ==
  ASSUME NEW c \in Change
  PROVE  /\ c.cmd \in {"set", "add", "remove", "rename", "reorder", "list_add", "list_del"}
         /\ c.section \in Named /\ c.id \in Int
         /\ c.cmd = "set" => \/ c.option = None /\ c.value \in Type
                             \/ c.option # None /\ c.option \in Name /\ c.value \in Val
         /\ c.cmd = "add" => c.option = None /\ c.value \in Type
         /\ c.cmd \in {"list_add", "list_del"} =>
              c.option # None /\ c.option \in Name /\ c.value \in Val
         /\ c.cmd = "rename" => /\ c.option = None \/ (c.option # None /\ c.option \in Name)
                                /\ c.value \in Name
         /\ c.cmd = "reorder" => c.option = None /\ c.value \in Nat
         /\ c.cmd = "remove" => /\ c.option = None \/ (c.option # None /\ c.option \in Name)
                                /\ c.value \in Nat \union {None}
<1>1. None \notin Name
  BY PackageAssumption DEF Named
<1>. QED
  BY <1>1 DEF Change, Line

(* What is looked up among the options of a section.                       *)
LEMMA LookupOption ==
  ASSUME NEW t \in Tree, NEW s \in 1..Len(t.sec), NEW name
  PROVE  /\ t.sec[s].opt \in Seq(Option)
         /\ \/ uci_lookup_list(t.sec[s].opt, name) = 0
            \/ uci_lookup_list(t.sec[s].opt, name) \in 1..Len(t.sec[s].opt)
<1>1. t.sec[s] \in Section(Named)
  BY TreeWith
<1>2. t.sec[s].opt \in Seq(Option)
  BY <1>1 DEF Section
<1>. QED
  BY <1>2, Lookup

(* A call that finds what it needs gives a tree.                           *)
LEMMA EffectType ==
  ASSUME NEW t \in Tree, NEW s \in 0..Len(t.sec), NEW c \in Change, Found(t, s, c)
  PROVE  Effect(t, s, c) \in Tree
<1>. DEFINE opt == t.sec[s].opt
            k == uci_lookup_list(opt, c.option)
<1>1. t.sec \in Seq(Section(Named)) /\ Len(t.sec) \in Nat
  BY TreeWith
<1>2. s = 0 => c.cmd \in {"set", "add"} /\ c.option = None
  BY DEF Found
<1>3. ASSUME s # 0
      PROVE  /\ s \in 1..Len(t.sec) /\ t.sec[s] \in Section(Named)
             /\ opt \in Seq(Option) /\ k \in {0} \union 1..Len(opt)
  <2>1. s \in 1..Len(t.sec)
    BY <1>1, <1>3
  <2>2. opt \in Seq(Option) /\ (k = 0 \/ k \in 1..Len(opt))
    BY <2>1, LookupOption
  <2>. QED
    BY <1>1, <2>1, <2>2
<1>4. c.cmd \in {"remove", "rename"} /\ c.option # None => k # 0
  BY DEF Found
<1>5. IsList(opt, c.option) => k # 0 /\ opt[k].list
  BY DEF IsList
<1>6. c.section \in Named /\ c.id \in Int
  BY ChangeIs
<1>7. \A o : WithOptions(t, s, o) \in Tree \/ s = 0 \/ o \notin Seq(Option)
  BY <1>3, WithOptionsType
<1>. HIDE DEF k
<1>8. ASSUME c.cmd \in {"set", "add"}
      PROVE  /\ uci_set(t, s, c) \in Tree
             /\ c.cmd = "add" => (IF s = 0 THEN Len(uci_set(t, s, c).sec) ELSE s)
                                   \in 1..Len(uci_set(t, s, c).sec)
  <2>1. CASE c.option # None
    <3>1. c.cmd = "set" /\ c.option \in Name /\ c.value \in Val /\ s # 0
      BY <1>2, <1>8, <2>1, ChangeIs
    <3>2. set_option(opt, c.option, c.value) \in Seq(Option)
      BY <1>3, <3>1, SetOptionType
    <3>. QED
      BY <1>7, <2>1, <3>1, <3>2 DEF uci_set
  <2>2. CASE c.option = None /\ s = 0
    <3>1. c.value \in Type
      BY <1>8, <2>2, ChangeIs
    <3>2. uci_set(t, s, c) = uci_alloc_section(t, c.value, c.section, c.id)
      BY <2>2 DEF uci_set
    <3>6. c.section \in Named \union {None}
      BY <1>6
    <3>3. PICK x \in Section(Named) :
            /\ uci_alloc_section(t, c.value, c.section, c.id) \in Tree
            /\ uci_alloc_section(t, c.value, c.section, c.id) =
                 [sec |-> Append(t.sec, x), n |-> t.n + 1]
      BY <1>6, <3>1, <3>6, AllocType
    <3>4. uci_set(t, s, c).sec = Append(t.sec, x)
      BY <3>2, <3>3
    <3>5. Len(uci_set(t, s, c).sec) = Len(t.sec) + 1
      BY <1>1, <3>4
    <3>7. uci_set(t, s, c) \in Tree
      BY <3>2, <3>3, Zenon
    <3>8. Len(t.sec) + 1 \in 1..(Len(t.sec) + 1)
      BY <1>1
    <3>. QED
      BY <2>2, <3>5, <3>7, <3>8, Zenon
  <2>3. CASE c.option = None /\ s # 0
    <3>1. c.value \in Type
      BY <1>8, <2>3, ChangeIs
    <3>. DEFINE x == [t.sec[s] EXCEPT !.type = c.value]
    <3>2. x \in Section(Named)
      BY <1>3, <2>3, <3>1, SectionWith
    <3>3. uci_set(t, s, c) = [t EXCEPT !.sec = [t.sec EXCEPT ![s] = x]]
      BY <2>3 DEF uci_set
    <3>5. s \in 1..Len(t.sec)
      BY <1>3, <2>3
    <3>. HIDE DEF x
    <3>6. /\ [t EXCEPT !.sec = [t.sec EXCEPT ![s] = x]] \in Tree
          /\ [t EXCEPT !.sec = [t.sec EXCEPT ![s] = x]].sec = [t.sec EXCEPT ![s] = x]
          /\ Len([t.sec EXCEPT ![s] = x]) = Len(t.sec)
      BY <3>2, <3>5, TreePut, Zenon
    <3>4. uci_set(t, s, c) \in Tree /\ Len(uci_set(t, s, c).sec) = Len(t.sec)
      BY <3>3, <3>6, Zenon
    <3>. QED
      BY <1>3, <2>3, <3>4
  <2>. QED
    BY <2>1, <2>2, <2>3
<1>9. CASE c.cmd = "set"
  BY <1>8, <1>9 DEF Effect
<1>10. CASE c.cmd = "add"
  <2>. DEFINE u == uci_set(t, s, c)
              i == IF s = 0 THEN Len(u.sec) ELSE s
  <2>1. u \in Tree /\ i \in 1..Len(u.sec)
    BY <1>8, <1>10
  <2>2. Effect(t, s, c) = [u EXCEPT !.sec[i].anon = TRUE]
    BY <1>10 DEF Effect
  <2>. HIDE DEF u, i
  <2>3. u.sec[i] \in Section(Named)
    BY <2>1, TreeWith
  <2>. DEFINE x == [u.sec[i] EXCEPT !.anon = TRUE]
  <2>4. x \in Section(Named)
    BY <2>3, SectionWith
  <2>5. [u EXCEPT !.sec[i].anon = TRUE] = [u EXCEPT !.sec = [u.sec EXCEPT ![i] = x]]
    OBVIOUS
  <2>. HIDE DEF x
  <2>6. [u EXCEPT !.sec = [u.sec EXCEPT ![i] = x]] \in Tree
    BY <2>1, <2>4, TreePut, Zenon
  <2>. QED
    BY <2>2, <2>5, <2>6, Zenon
<1>11. CASE c.cmd = "remove"
  <2>1. s # 0
    BY <1>2, <1>11
  <2>2. Effect(t, s, c) = uci_delete(t, s, c)
    BY <1>11 DEF Effect
  <2>3. CASE c.option = None
    <3>1. RemoveAt(t.sec, s) \in Seq(Section(Named))
      BY <1>1, <1>3, <2>1, RemoveAtType
    <3>. QED
      BY <2>2, <2>3, <3>1, TreeWith DEF uci_delete
  <2>4. CASE c.option # None
    <3>1. k \in 1..Len(opt)
      BY <1>3, <1>4, <1>11, <2>1, <2>4
    <3>2. ASSUME OfItem(t, s, c)
          PROVE  delete_item(opt, k, c.value) \in Seq(Option)
      <4>1. c.value \in Nat /\ opt[k].list
        BY <1>5, <1>11, <3>2, ChangeIs DEF OfItem
      <4>. QED
        BY <1>3, <2>1, <3>1, <4>1, DeleteItemType
    <3>3. RemoveAt(opt, k) \in Seq(Option)
      BY <1>3, <2>1, <3>1, RemoveAtType
    <3>4. uci_delete(t, s, c) =
            WithOptions(t, s, IF OfItem(t, s, c) THEN delete_item(opt, k, c.value)
                                                 ELSE RemoveAt(opt, k))
      BY <2>4 DEF uci_delete, k
    <3>. QED
      BY <1>7, <2>1, <2>2, <3>2, <3>3, <3>4
  <2>. QED
    BY <2>3, <2>4
<1>12. CASE c.cmd = "rename"
  <2>1. s # 0 /\ c.value \in Name
    BY <1>2, <1>12, ChangeIs
  <2>2. Effect(t, s, c) = uci_rename(t, s, c)
    BY <1>12 DEF Effect
  <2>3. CASE c.option = None
    <3>. DEFINE x == [t.sec[s] EXCEPT !.name = c.value, !.anon = FALSE]
    <3>1. x \in Section(Named)
      BY <1>3, <2>1, SectionWith
    <3>2. uci_rename(t, s, c) = [t EXCEPT !.sec = [t.sec EXCEPT ![s] = x]]
      <4>1. t.sec[s] \in Section(Named) /\ s \in DOMAIN t.sec
        BY <1>1, <1>3, <2>1
      <4>2. uci_rename(t, s, c) = [t EXCEPT !.sec[s].name = c.value, !.sec[s].anon = FALSE]
        BY <2>3 DEF uci_rename
      <4>. QED
        BY <4>1, <4>2 DEF Tree, Section
    <3>. HIDE DEF x
    <3>. QED
      <4>1. s \in 1..Len(t.sec)
        BY <1>3, <2>1
      <4>2. [t EXCEPT !.sec = [t.sec EXCEPT ![s] = x]] \in Tree
        BY <3>1, <4>1, TreePut, Zenon
      <4>. QED
        BY <2>2, <3>2, <4>2, Zenon
  <2>4. CASE c.option # None
    <3>1. k \in 1..Len(opt) /\ opt \in Seq(Option)
      BY <1>3, <1>4, <1>12, <2>1, <2>4
    <3>2. [opt[k] EXCEPT !.name = c.value] \in Option
      BY <2>1, <3>1, OptionWith
    <3>3. [opt EXCEPT ![k] = [opt[k] EXCEPT !.name = c.value]] \in Seq(Option)
      BY <3>1, <3>2, ReplaceType
    <3>4. uci_rename(t, s, c) =
            WithOptions(t, s, [opt EXCEPT ![k] = [opt[k] EXCEPT !.name = c.value]])
      BY <2>4 DEF uci_rename, k
    <3>. QED
      BY <1>7, <2>1, <2>2, <3>3, <3>4
  <2>. QED
    BY <2>3, <2>4
<1>13. CASE c.cmd = "reorder"
  <2>. DEFINE rest == RemoveAt(t.sec, s)
              pos == IF c.value < Len(rest) THEN c.value ELSE Len(rest)
  <2>1. s # 0 /\ c.value \in Nat
    BY <1>2, <1>13, ChangeIs
  <2>2. rest \in Seq(Section(Named))
    BY <1>1, <1>3, <2>1, RemoveAtType
  <2>3. Effect(t, s, c) = [t EXCEPT !.sec = InsertAt(rest, pos + 1, t.sec[s])]
    BY <1>13 DEF Effect, uci_list_set_pos
  <2>. HIDE DEF rest
  <2>4. pos + 1 \in 1..(Len(rest) + 1)
    BY <2>1, <2>2
  <2>. HIDE DEF pos
  <2>5. InsertAt(rest, pos + 1, t.sec[s]) \in Seq(Section(Named))
    BY <1>3, <2>1, <2>2, <2>4, InsertAtType
  <2>. QED
    BY <2>3, <2>5, TreeWith
<1>14. CASE c.cmd = "list_add"
  <2>1. s # 0 /\ c.option \in Name /\ c.value \in Val
    BY <1>2, <1>14, ChangeIs
  <2>2. add_list(opt, c.option, c.value) \in Seq(Option)
    BY <1>3, <2>1, AddListType
  <2>3. Effect(t, s, c) = WithOptions(t, s, add_list(opt, c.option, c.value))
    BY <1>14 DEF Effect, uci_add_list
  <2>. QED
    BY <1>7, <2>1, <2>2, <2>3
<1>15. CASE c.cmd = "list_del"
  <2>1. s # 0
    BY <1>2, <1>15
  <2>2. Effect(t, s, c) = uci_del_list(t, s, c)
    BY <1>15 DEF Effect
  <2>3. CASE IsList(opt, c.option)
    <3>. DEFINE q == Filter(opt[k].val, Val \ {c.value})
    <3>1. k \in 1..Len(opt) /\ opt \in Seq(Option) /\ opt[k].list /\ opt[k] \in Option
      BY <1>3, <1>5, <2>1, <2>3
    <3>2. q \in Seq(Val)
      BY <3>1, OptionIs, FilterItems
    <3>3. uci_del_list(t, s, c) = WithOptions(t, s, [opt EXCEPT ![k] = [opt[k] EXCEPT !.val = q]])
      BY <2>3 DEF uci_del_list, k
    <3>. HIDE DEF q
    <3>4. [opt[k] EXCEPT !.val = q] \in Option
      BY <3>1, <3>2, OptionWith
    <3>5. [opt EXCEPT ![k] = [opt[k] EXCEPT !.val = q]] \in Seq(Option)
      BY <3>1, <3>4, ReplaceType
    <3>. QED
      BY <1>7, <2>1, <2>2, <3>3, <3>5
  <2>4. CASE ~IsList(opt, c.option)
    BY <2>2, <2>4 DEF uci_del_list
  <2>. QED
    BY <2>3, <2>4
<1>. QED
  BY <1>9, <1>10, <1>11, <1>12, <1>13, <1>14, <1>15, ChangeIs

-----------------------------------------------------------------------------
(* Listed, step by step.                                                   *)
LEMMA ListedIs ==
  ASSUME NEW opt \in Seq(Option), NEW o, o.name \in Name, o.val \in Seq(Val)
  PROVE  /\ Listed(opt, o)[0] = opt
         /\ \A n \in 1..Len(o.val) : Listed(opt, o)[n] = add_list(Listed(opt, o)[n - 1], o.name, o.val[n])
         /\ \A n \in 0..Len(o.val) : Listed(opt, o)[n] \in Seq(Option)
<1>. DEFINE N == Len(o.val)
            X == Seq(Option)
            a == opt
            Step(n, x) == add_list(x, o.name, o.val[n])
            G == [n \in 1..N |-> [x \in X |-> Step(n, x)]]
            F == Listed(opt, o)
            Good == {n \in 0..N : F[n] \in X}
<1>1. N \in Nat /\ a \in X
  OBVIOUS
<1>2. \A n \in 1..N, x \in X : Step(n, x) \in X
  <2>1. \A n \in 1..N : o.val[n] \in Val
    OBVIOUS
  <2>. QED
    BY <2>1, AddListType
<1>. HIDE DEF Step, N, X, a
<1>3. \A n \in 1..N : \A x \in X : G[n][x] = Step(n, x)
  OBVIOUS
<1>. HIDE DEF G
<1>4. PICK g : /\ g[0] = a /\ \A n \in 0..N : g[n] \in X
               /\ \A n \in 1..N : g[n] = G[n][g[n - 1]]
  <2>1. Steps(G, N, X)
    BY <1>2, <1>3 DEF Steps
  <2>2. \E g : Takes(g, a, G, N, X)
    BY <1>1, <2>1, Iterates
  <2>. QED
    BY <2>2 DEF Takes
<1>5. \A n \in 1..N : g[n] = Step(n, g[n - 1])
  <2>1. \A n \in 1..N : n - 1 \in 0..N
    BY <1>1
  <2>. QED
    BY <1>3, <1>4, <2>1
<1>. DEFINE h == [n \in 0..N |-> g[n]]
<1>6. h = [n \in 0..N |-> IF n = 0 THEN a ELSE Step(n, h[n - 1])]
  <2>1. \A n \in 0..N : n # 0 => n \in 1..N /\ n - 1 \in 0..N
    BY <1>1
  <2>. QED
    BY <1>4, <1>5, <2>1
<1>. HIDE DEF h
<1>7. F = [n \in 0..N |-> IF n = 0 THEN a ELSE Step(n, F[n - 1])]
  BY <1>6, Zenon DEF Listed, N, a, Step
<1>. HIDE DEF F
<1>8. \A n \in 0..N : F[n] = IF n = 0 THEN a ELSE Step(n, F[n - 1])
  BY <1>7, Zenon
<1>9. F[0] = a /\ \A n \in 1..N : F[n] = Step(n, F[n - 1])
  BY <1>1, <1>8
<1>10. 0 \in Good
  BY <1>1, <1>9
<1>11. \A n \in 1..N : n - 1 \in Good => n \in Good
  BY <1>1, <1>2, <1>9
<1>. HIDE DEF Good
<1>12. \A n \in 0..N : n \in Good
  BY <1>1, <1>10, <1>11, InductionUpTo, Zenon
<1>13. \A n \in 0..N : F[n] \in X
  BY <1>12 DEF Good
<1>. QED
  BY <1>9, <1>13 DEF F, N, X, a, Step

(* An option of a file is read as an option.                               *)
LEMMA ParseOptionType ==
  ASSUME NEW opt \in Seq(Option), NEW o \in Option
  PROVE  uci_parse_option(opt, o) \in Seq(Option)
<1>1. /\ o.name \in Name /\ o.list \in BOOLEAN /\ o.val \in Seq(Val)
      /\ ~o.list => \E v \in Val : o.val = <<v>>
  BY OptionIs
<1>2. CASE o.list
  <2>1. Len(o.val) \in 0..Len(o.val)
    BY <1>1
  <2>2. Listed(opt, o)[Len(o.val)] \in Seq(Option)
    BY <1>1, <2>1, ListedIs
  <2>. QED
    BY <1>2, <2>2 DEF uci_parse_option
<1>3. CASE ~o.list
  <2>1. PICK v \in Val : o.val = <<v>>
    BY <1>1, <1>3
  <2>2. o.val[1] = v
    BY <2>1
  <2>3. set_option(opt, o.name, v) \in Seq(Option)
    BY <1>1, SetOptionType
  <2>. QED
    BY <1>3, <2>2, <2>3 DEF uci_parse_option
<1>. QED
  BY <1>1, <1>2, <1>3

(* Parsed, step by step.                                                   *)
LEMMA ParsedIs ==
  ASSUME NEW opt \in Seq(Option), NEW new \in Seq(Option)
  PROVE  /\ Parsed(opt, new)[0] = opt
         /\ \A n \in 1..Len(new) : Parsed(opt, new)[n] = uci_parse_option(Parsed(opt, new)[n - 1], new[n])
         /\ \A n \in 0..Len(new) : Parsed(opt, new)[n] \in Seq(Option)
<1>. DEFINE N == Len(new)
            X == Seq(Option)
            a == opt
            Step(n, x) == uci_parse_option(x, new[n])
            G == [n \in 1..N |-> [x \in X |-> Step(n, x)]]
            F == Parsed(opt, new)
            Good == {n \in 0..N : F[n] \in X}
<1>1. N \in Nat /\ a \in X
  OBVIOUS
<1>2. \A n \in 1..N, x \in X : Step(n, x) \in X
  <2>1. \A n \in 1..N : new[n] \in Option
    OBVIOUS
  <2>. QED
    BY <2>1, ParseOptionType
<1>. HIDE DEF Step, N, X, a
<1>3. \A n \in 1..N : \A x \in X : G[n][x] = Step(n, x)
  OBVIOUS
<1>. HIDE DEF G
<1>4. PICK g : /\ g[0] = a /\ \A n \in 0..N : g[n] \in X
               /\ \A n \in 1..N : g[n] = G[n][g[n - 1]]
  <2>1. Steps(G, N, X)
    BY <1>2, <1>3 DEF Steps
  <2>2. \E g : Takes(g, a, G, N, X)
    BY <1>1, <2>1, Iterates
  <2>. QED
    BY <2>2 DEF Takes
<1>5. \A n \in 1..N : g[n] = Step(n, g[n - 1])
  <2>1. \A n \in 1..N : n - 1 \in 0..N
    BY <1>1
  <2>. QED
    BY <1>3, <1>4, <2>1
<1>. DEFINE h == [n \in 0..N |-> g[n]]
<1>6. h = [n \in 0..N |-> IF n = 0 THEN a ELSE Step(n, h[n - 1])]
  <2>1. \A n \in 0..N : n # 0 => n \in 1..N /\ n - 1 \in 0..N
    BY <1>1
  <2>. QED
    BY <1>4, <1>5, <2>1
<1>. HIDE DEF h
<1>7. F = [n \in 0..N |-> IF n = 0 THEN a ELSE Step(n, F[n - 1])]
  BY <1>6, Zenon DEF Parsed, N, a, Step
<1>. HIDE DEF F
<1>8. \A n \in 0..N : F[n] = IF n = 0 THEN a ELSE Step(n, F[n - 1])
  BY <1>7, Zenon
<1>9. F[0] = a /\ \A n \in 1..N : F[n] = Step(n, F[n - 1])
  BY <1>1, <1>8
<1>10. 0 \in Good
  BY <1>1, <1>9
<1>11. \A n \in 1..N : n - 1 \in Good => n \in Good
  BY <1>1, <1>2, <1>9
<1>. HIDE DEF Good
<1>12. \A n \in 0..N : n \in Good
  BY <1>1, <1>10, <1>11, InductionUpTo, Zenon
<1>13. \A n \in 0..N : F[n] \in X
  BY <1>12 DEF Good
<1>. QED
  BY <1>9, <1>13 DEF F, N, X, a, Step

(* A section of a file is read into a tree, or the import fails.           *)
LEMMA ParseConfigType ==
  ASSUME NEW t \in Tree \union {Gone}, NEW x \in Section(Named \union {None})
  PROVE  uci_parse_config(t, x) \in Tree \union {Gone}
<1>. DEFINE s == IF x.name = None THEN 0 ELSE uci_lookup_list(t.sec, x.name)
            u == IF s = 0 THEN uci_alloc_section(t, x.type, x.name, x.id) ELSE t
            k == IF s = 0 THEN Len(u.sec) ELSE s
<1>1. uci_parse_config(t, x) =
        IF t = Gone \/ u.sec[k].type # x.type THEN Gone
        ELSE WithOptions(u, k, Parsed(u.sec[k].opt, x.opt)[Len(x.opt)])
  BY DEF uci_parse_config
<1>2. SUFFICES ASSUME t \in Tree
               PROVE  WithOptions(u, k, Parsed(u.sec[k].opt, x.opt)[Len(x.opt)]) \in Tree
  <2>. HIDE DEF u, k
  <2>. QED
    BY <1>1
<1>3. /\ x.name \in Named \union {None} /\ x.type \in Type /\ x.id \in Int
      /\ x.opt \in Seq(Option)
  BY DEF Section
<1>4. t.sec \in Seq(Section(Named)) /\ Len(t.sec) \in Nat
  BY <1>2, TreeWith
<1>5. s = 0 \/ s \in 1..Len(t.sec)
  BY <1>4, Lookup
<1>6. u \in Tree /\ k \in 1..Len(u.sec)
  <2>. HIDE DEF s
  <2>1. CASE s = 0
    <3>1. PICK y \in Section(Named) :
            /\ uci_alloc_section(t, x.type, x.name, x.id) \in Tree
            /\ uci_alloc_section(t, x.type, x.name, x.id) =
                 [sec |-> Append(t.sec, y), n |-> t.n + 1]
      BY <1>2, <1>3, AllocType
    <3>2. u \in Tree /\ u.sec = Append(t.sec, y) /\ k = Len(u.sec)
      BY <2>1, <3>1
    <3>. HIDE DEF u, k
    <3>3. Len(u.sec) = Len(t.sec) + 1
      BY <1>4, <3>2
    <3>. QED
      BY <1>4, <3>2, <3>3
  <2>2. CASE s \in 1..Len(t.sec)
    <3>1. s # 0
      BY <1>4, <2>2
    <3>. QED
      BY <1>2, <2>2, <3>1
  <2>. QED
    BY <1>5, <2>1, <2>2
<1>. HIDE DEF s, u, k
<1>7. u.sec[k].opt \in Seq(Option)
  BY <1>6, LookupOption
<1>8. Len(x.opt) \in 0..Len(x.opt)
  BY <1>3
<1>9. Parsed(u.sec[k].opt, x.opt)[Len(x.opt)] \in Seq(Option)
  BY <1>3, <1>7, <1>8, ParsedIs
<1>. QED
  BY <1>6, <1>9, WithOptionsType

(* Imported, step by step.                                                 *)
LEMMA ImportedIs ==
  ASSUME NEW f \in Seq(Section(Named \union {None}))
  PROVE  /\ Imported(f)[0] = [sec |-> <<>>, n |-> 0]
         /\ \A n \in 1..Len(f) : Imported(f)[n] = uci_parse_config(Imported(f)[n - 1], f[n])
         /\ \A n \in 0..Len(f) : Imported(f)[n] \in Tree \union {Gone}
<1>. DEFINE N == Len(f)
            X == Tree \union {Gone}
            a == [sec |-> <<>>, n |-> 0]
            Step(n, x) == uci_parse_config(x, f[n])
            G == [n \in 1..N |-> [x \in X |-> Step(n, x)]]
            F == Imported(f)
            Good == {n \in 0..N : F[n] \in X}
<1>1. N \in Nat /\ a \in X
  BY DEF Tree
<1>2. \A n \in 1..N, x \in X : Step(n, x) \in X
  <2>1. \A n \in 1..N : f[n] \in Section(Named \union {None})
    OBVIOUS
  <2>. QED
    BY <2>1, ParseConfigType
<1>. HIDE DEF Step, N, X, a
<1>3. \A n \in 1..N : \A x \in X : G[n][x] = Step(n, x)
  OBVIOUS
<1>. HIDE DEF G
<1>4. PICK g : /\ g[0] = a /\ \A n \in 0..N : g[n] \in X
               /\ \A n \in 1..N : g[n] = G[n][g[n - 1]]
  <2>1. Steps(G, N, X)
    BY <1>2, <1>3 DEF Steps
  <2>2. \E g : Takes(g, a, G, N, X)
    BY <1>1, <2>1, Iterates
  <2>. QED
    BY <2>2 DEF Takes
<1>5. \A n \in 1..N : g[n] = Step(n, g[n - 1])
  <2>1. \A n \in 1..N : n - 1 \in 0..N
    BY <1>1
  <2>. QED
    BY <1>3, <1>4, <2>1
<1>. DEFINE h == [n \in 0..N |-> g[n]]
<1>6. h = [n \in 0..N |-> IF n = 0 THEN a ELSE Step(n, h[n - 1])]
  <2>1. \A n \in 0..N : n # 0 => n \in 1..N /\ n - 1 \in 0..N
    BY <1>1
  <2>. QED
    BY <1>4, <1>5, <2>1
<1>. HIDE DEF h
<1>7. F = [n \in 0..N |-> IF n = 0 THEN a ELSE Step(n, F[n - 1])]
  BY <1>6, Zenon DEF Imported, N, a, Step
<1>. HIDE DEF F
<1>8. \A n \in 0..N : F[n] = IF n = 0 THEN a ELSE Step(n, F[n - 1])
  BY <1>7, Zenon
<1>9. F[0] = a /\ \A n \in 1..N : F[n] = Step(n, F[n - 1])
  BY <1>1, <1>8
<1>10. 0 \in Good
  BY <1>1, <1>9
<1>11. \A n \in 1..N : n - 1 \in Good => n \in Good
  BY <1>1, <1>2, <1>9
<1>. HIDE DEF Good
<1>12. \A n \in 0..N : n \in Good
  BY <1>1, <1>10, <1>11, InductionUpTo, Zenon
<1>13. \A n \in 0..N : F[n] \in X
  BY <1>12 DEF Good
<1>. QED
  BY <1>9, <1>13 DEF F, N, X, a, Step

(* A file whose sections have their types is imported to a package, or to  *)
(* none.                                                                   *)
LEMMA ImportType ==
  ASSUME NEW f \in Seq(Section(Named \union {None}))
  PROVE  uci_import(f) \in Tree \union {Gone}
<1>1. Len(f) \in 0..Len(f)
  OBVIOUS
<1>. QED
  BY <1>1, ImportedIs DEF uci_import

(* A line of the delta file is replayed on a tree and gives a tree.        *)
LEMMA ParseDeltaLineType ==
  ASSUME NEW t \in Tree, NEW c \in Change
  PROVE  uci_parse_delta_line(t, c) \in Tree
<1>. DEFINE s == uci_lookup_list(t.sec, c.section)
<1>1. t.sec \in Seq(Section(Named)) /\ Len(t.sec) \in Nat
  BY TreeWith
<1>2. s \in 0..Len(t.sec)
  BY <1>1, Lookup
<1>3. uci_parse_delta_line(t, c) = IF Accepted(t, c) THEN Effect(t, s, c) ELSE t
  BY DEF uci_parse_delta_line
<1>4. Accepted(t, c) => Found(t, s, c)
  BY DEF Accepted
<1>. HIDE DEF s
<1>. QED
  BY <1>2, <1>3, <1>4, EffectType

(* Replayed, step by step.                                                 *)
LEMMA ReplayedIs ==
  ASSUME NEW t \in Tree, NEW lines \in Seq(Change)
  PROVE  /\ Replayed(t, lines)[0] = t
         /\ \A n \in 1..Len(lines) : Replayed(t, lines)[n] = uci_parse_delta_line(Replayed(t, lines)[n - 1], lines[n])
         /\ \A n \in 0..Len(lines) : Replayed(t, lines)[n] \in Tree
<1>. DEFINE N == Len(lines)
            X == Tree
            a == t
            Step(n, x) == uci_parse_delta_line(x, lines[n])
            G == [n \in 1..N |-> [x \in X |-> Step(n, x)]]
            F == Replayed(t, lines)
            Good == {n \in 0..N : F[n] \in X}
<1>1. N \in Nat /\ a \in X
  OBVIOUS
<1>2. \A n \in 1..N, x \in X : Step(n, x) \in X
  <2>1. \A n \in 1..N : lines[n] \in Change
    OBVIOUS
  <2>. QED
    BY <2>1, ParseDeltaLineType
<1>. HIDE DEF Step, N, X, a
<1>3. \A n \in 1..N : \A x \in X : G[n][x] = Step(n, x)
  OBVIOUS
<1>. HIDE DEF G
<1>4. PICK g : /\ g[0] = a /\ \A n \in 0..N : g[n] \in X
               /\ \A n \in 1..N : g[n] = G[n][g[n - 1]]
  <2>1. Steps(G, N, X)
    BY <1>2, <1>3 DEF Steps
  <2>2. \E g : Takes(g, a, G, N, X)
    BY <1>1, <2>1, Iterates
  <2>. QED
    BY <2>2 DEF Takes
<1>5. \A n \in 1..N : g[n] = Step(n, g[n - 1])
  <2>1. \A n \in 1..N : n - 1 \in 0..N
    BY <1>1
  <2>. QED
    BY <1>3, <1>4, <2>1
<1>. DEFINE h == [n \in 0..N |-> g[n]]
<1>6. h = [n \in 0..N |-> IF n = 0 THEN a ELSE Step(n, h[n - 1])]
  <2>1. \A n \in 0..N : n # 0 => n \in 1..N /\ n - 1 \in 0..N
    BY <1>1
  <2>. QED
    BY <1>4, <1>5, <2>1
<1>. HIDE DEF h
<1>7. F = [n \in 0..N |-> IF n = 0 THEN a ELSE Step(n, F[n - 1])]
  BY <1>6, Zenon DEF Replayed, N, a, Step
<1>. HIDE DEF F
<1>8. \A n \in 0..N : F[n] = IF n = 0 THEN a ELSE Step(n, F[n - 1])
  BY <1>7, Zenon
<1>9. F[0] = a /\ \A n \in 1..N : F[n] = Step(n, F[n - 1])
  BY <1>1, <1>8
<1>10. 0 \in Good
  BY <1>1, <1>9
<1>11. \A n \in 1..N : n - 1 \in Good => n \in Good
  BY <1>1, <1>2, <1>9
<1>. HIDE DEF Good
<1>12. \A n \in 0..N : n \in Good
  BY <1>1, <1>10, <1>11, InductionUpTo, Zenon
<1>13. \A n \in 0..N : F[n] \in X
  BY <1>12 DEF Good
<1>. QED
  BY <1>9, <1>13 DEF F, N, X, a, Step

-----------------------------------------------------------------------------
(* The first lines are replayed in the same way whatever comes after them, *)
(* and the others on what they made.                                       *)
LEMMA ReplayedJoin ==
  ASSUME NEW t \in Tree, NEW a \in Seq(Change), NEW b \in Seq(Change)
  PROVE  /\ \A n \in 0..Len(a) : Replayed(t, a \o b)[n] = Replayed(t, a)[n]
         /\ \A n \in 0..Len(b) :
              Replayed(t, a \o b)[Len(a) + n] = Replayed(Replayed(t, a)[Len(a)], b)[n]
<1>. DEFINE F == Replayed(t, a)
            u == F[Len(a)]
            H == Replayed(u, b)
            J == Replayed(t, a \o b)
            First == {n \in 0..Len(a) : J[n] = F[n]}
            Rest == {n \in 0..Len(b) : J[Len(a) + n] = H[n]}
<1>1. /\ a \o b \in Seq(Change) /\ Len(a) \in Nat /\ Len(b) \in Nat
      /\ Len(a \o b) = Len(a) + Len(b)
      /\ \A n \in 1..Len(a) : (a \o b)[n] = a[n]
      /\ \A n \in 1..Len(b) : (a \o b)[Len(a) + n] = b[n]
  OBVIOUS
<1>2. F[0] = t /\ \A n \in 1..Len(a) : F[n] = uci_parse_delta_line(F[n - 1], a[n])
  BY ReplayedIs
<1>3. u \in Tree
  <2>1. Len(a) \in 0..Len(a)
    BY <1>1
  <2>. QED
    BY <2>1, ReplayedIs
<1>. HIDE DEF F, u
<1>4. H[0] = u /\ \A n \in 1..Len(b) : H[n] = uci_parse_delta_line(H[n - 1], b[n])
  BY <1>3, ReplayedIs
<1>5. /\ J[0] = t
      /\ \A n \in 1..Len(a \o b) : J[n] = uci_parse_delta_line(J[n - 1], (a \o b)[n])
  BY <1>1, ReplayedIs
<1>. HIDE DEF H, J
<1>6. \A n \in 1..(Len(a) + Len(b)) : J[n] = uci_parse_delta_line(J[n - 1], (a \o b)[n])
  BY <1>1, <1>5
<1>7. \A n \in 0..Len(a) : n \in First
  <2>1. 0 \in First
    BY <1>1, <1>2, <1>5
  <2>2. \A n \in 1..Len(a) : n - 1 \in First => n \in First
    <3>1. SUFFICES ASSUME NEW n \in 1..Len(a), J[n - 1] = F[n - 1]
                   PROVE  J[n] = F[n]
      BY <1>1
    <3>2. J[n] = uci_parse_delta_line(J[n - 1], a[n])
      BY <1>1, <1>6
    <3>. QED
      BY <1>2, <3>1, <3>2
  <2>. HIDE DEF First
  <2>. QED
    BY <1>1, <2>1, <2>2, InductionUpTo, Zenon
<1>8. J[Len(a)] = u
  <2>1. Len(a) \in First
    BY <1>1, <1>7
  <2>. QED
    BY <2>1 DEF u
<1>9. \A n \in 0..Len(b) : n \in Rest
  <2>1. 0 \in Rest
    <3>1. Len(a) + 0 = Len(a)
      BY <1>1
    <3>. QED
      BY <1>1, <1>4, <1>8, <3>1
  <2>2. \A n \in 1..Len(b) : n - 1 \in Rest => n \in Rest
    <3>1. SUFFICES ASSUME NEW n \in 1..Len(b), J[Len(a) + (n - 1)] = H[n - 1]
                   PROVE  J[Len(a) + n] = H[n]
      BY <1>1
    <3>2. /\ Len(a) + n \in 1..(Len(a) + Len(b)) /\ (Len(a) + n) - 1 = Len(a) + (n - 1)
          /\ (a \o b)[Len(a) + n] = b[n]
      BY <1>1
    <3>3. J[Len(a) + n] = uci_parse_delta_line(J[(Len(a) + n) - 1], (a \o b)[Len(a) + n])
      BY <1>6, <3>2, Zenon
    <3>4. J[Len(a) + n] = uci_parse_delta_line(H[n - 1], b[n])
      BY <3>1, <3>2, <3>3, Zenon
    <3>. QED
      BY <1>4, <3>4
  <2>. HIDE DEF Rest
  <2>. QED
    BY <1>1, <2>1, <2>2, InductionUpTo, Zenon
<1>. QED
  BY <1>7, <1>9 DEF F, u, H, J

(* What replay gives, and where it has no lines.                           *)
LEMMA ReplayType ==
  ASSUME NEW t \in Tree \union {Gone}, NEW lines \in Seq(Change)
  PROVE  /\ uci_parse_delta(t, lines) \in Tree \union {Gone}
         /\ uci_parse_delta(t, lines) = Gone <=> t = Gone
         /\ uci_parse_delta(t, <<>>) = t
         /\ Lands(t, <<>>)
         /\ \A k \in 1..Len(lines) : t \in Tree => Before(t, lines, k) \in Tree
<1>0. <<>> \in Seq(Change) /\ Len(<<>>) = 0 /\ Len(lines) \in Nat
  OBVIOUS
<1>1. Lands(t, <<>>)
  BY <1>0 DEF Lands
<1>2. CASE t = Gone
  <2>1. t \notin Tree
    BY <1>2, TreeWith
  <2>. QED
    BY <1>1, <1>2, <2>1 DEF uci_parse_delta
<1>3. CASE t \in Tree
  <2>1. t # Gone
    BY <1>3, TreeWith
  <2>2. Replayed(t, <<>>)[0] = t
    BY <1>0, <1>3, ReplayedIs
  <2>3. \A n \in 0..Len(lines) : Replayed(t, lines)[n] \in Tree
    BY <1>3, ReplayedIs
  <2>4. /\ uci_parse_delta(t, lines) = Replayed(t, lines)[Len(lines)]
        /\ uci_parse_delta(t, <<>>) = Replayed(t, <<>>)[0]
        /\ \A k : Before(t, lines, k) = Replayed(t, lines)[k - 1]
    BY <1>0, <2>1 DEF uci_parse_delta, Before
  <2>5. Len(lines) \in 0..Len(lines) /\ \A k \in 1..Len(lines) : k - 1 \in 0..Len(lines)
    BY <1>0
  <2>6. uci_parse_delta(t, lines) \in Tree /\ \A k \in 1..Len(lines) : Before(t, lines, k) \in Tree
    BY <2>3, <2>4, <2>5
  <2>7. uci_parse_delta(t, lines) # Gone
    BY <2>6, TreeWith
  <2>. QED
    BY <1>1, <2>1, <2>2, <2>4, <2>6, <2>7
<1>. QED
  BY <1>2, <1>3

(* Lines and more lines.                                                   *)
LEMMA ReplayJoin ==
  ASSUME NEW t \in Tree, NEW a \in Seq(Change), NEW b \in Seq(Change)
  PROVE  /\ uci_parse_delta(t, a \o b) = uci_parse_delta(uci_parse_delta(t, a), b)
         /\ Lands(t, a) /\ Lands(uci_parse_delta(t, a), b) => Lands(t, a \o b)
<1>. DEFINE u == uci_parse_delta(t, a)
            At(v, lines, k) ==
              LET w == Before(v, lines, k)
                  s == uci_lookup_list(w.sec, lines[k].section)
              IN Accepted(w, lines[k]) /\ (s # 0 => w.sec[s].id = lines[k].id)
<1>1. /\ a \o b \in Seq(Change) /\ Len(a) \in Nat /\ Len(b) \in Nat
      /\ Len(a \o b) = Len(a) + Len(b)
      /\ \A n \in 1..Len(a) : (a \o b)[n] = a[n]
      /\ \A n \in 1..Len(b) : (a \o b)[Len(a) + n] = b[n]
  OBVIOUS
<1>2. t # Gone /\ u = Replayed(t, a)[Len(a)]
  BY TreeWith DEF uci_parse_delta
<1>3. u \in Tree /\ u # Gone
  <2>1. u \in Tree \union {Gone} /\ (u = Gone <=> t = Gone)
    BY ReplayType
  <2>. QED
    BY <1>2, <2>1
<1>. HIDE DEF u
<1>4. \A n \in 0..Len(a) : Replayed(t, a \o b)[n] = Replayed(t, a)[n]
  BY ReplayedJoin
<1>5. \A n \in 0..Len(b) : Replayed(t, a \o b)[Len(a) + n] = Replayed(u, b)[n]
  BY <1>2, ReplayedJoin
<1>6. uci_parse_delta(t, a \o b) = uci_parse_delta(u, b)
  <2>1. Len(b) \in 0..Len(b)
    BY <1>1
  <2>2. Replayed(t, a \o b)[Len(a) + Len(b)] = Replayed(u, b)[Len(b)]
    BY <1>5, <2>1
  <2>. QED
    BY <1>1, <1>2, <1>3, <2>2 DEF uci_parse_delta
<1>7. \A v, lines : Lands(v, lines) <=> \A k \in 1..Len(lines) : At(v, lines, k)
  BY DEF Lands
<1>8. ASSUME NEW k \in 1..Len(a)
      PROVE  At(t, a, k) => At(t, a \o b, k)
  <2>1. k - 1 \in 0..Len(a)
    BY <1>1
  <2>2. Before(t, a \o b, k) = Before(t, a, k)
    BY <1>2, <1>4, <2>1 DEF Before
  <2>. QED
    BY <1>1, <2>2
<1>9. ASSUME NEW k \in 1..Len(b)
      PROVE  At(u, b, k) => At(t, a \o b, Len(a) + k)
  <2>1. k - 1 \in 0..Len(b) /\ (Len(a) + k) - 1 = Len(a) + (k - 1)
    BY <1>1
  <2>2. Before(t, a \o b, Len(a) + k) = Replayed(t, a \o b)[Len(a) + (k - 1)]
    BY <1>2, <2>1 DEF Before
  <2>3. Before(t, a \o b, Len(a) + k) = Before(u, b, k)
    BY <1>3, <1>5, <2>1, <2>2 DEF Before
  <2>. QED
    BY <1>1, <2>3
<1>10. ASSUME NEW k \in 1..Len(a \o b), k \notin 1..Len(a)
       PROVE  \E j \in 1..Len(b) : k = Len(a) + j
  <2>1. k - Len(a) \in 1..Len(b) /\ k = Len(a) + (k - Len(a))
    BY <1>1, <1>10
  <2>. QED
    BY <2>1
<1>. HIDE DEF At
<1>11. ASSUME Lands(t, a), Lands(u, b)
       PROVE  Lands(t, a \o b)
  <2>1. SUFFICES ASSUME NEW k \in 1..Len(a \o b)
                 PROVE  At(t, a \o b, k)
    BY <1>7
  <2>2. CASE k \in 1..Len(a)
    BY <1>7, <1>8, <1>11, <2>2
  <2>3. CASE k \notin 1..Len(a)
    BY <1>7, <1>9, <1>10, <1>11, <2>3
  <2>. QED
    BY <2>2, <2>3
<1>. QED
  BY <1>6, <1>11 DEF u

(* One line.                                                               *)
LEMMA ReplayOne ==
  ASSUME NEW t \in Tree, NEW c \in Change, Accepted(t, c),
         NEW s, s = uci_lookup_list(t.sec, c.section), s # 0 => t.sec[s].id = c.id
  PROVE  uci_parse_delta(t, <<c>>) = Effect(t, s, c) /\ Lands(t, <<c>>)
<1>1. <<c>> \in Seq(Change) /\ Len(<<c>>) = 1 /\ <<c>>[1] = c
  OBVIOUS
<1>2. t # Gone
  BY TreeWith
<1>3. /\ Replayed(t, <<c>>)[0] = t
      /\ Replayed(t, <<c>>)[1] = uci_parse_delta_line(Replayed(t, <<c>>)[0], c)
  <2>1. /\ Replayed(t, <<c>>)[0] = t
        /\ \A n \in 1..Len(<<c>>) :
             Replayed(t, <<c>>)[n] = uci_parse_delta_line(Replayed(t, <<c>>)[n - 1], <<c>>[n])
    BY <1>1, ReplayedIs
  <2>2. 1 \in 1..Len(<<c>>) /\ 1 - 1 = 0
    BY <1>1
  <2>. QED
    BY <1>1, <2>1, <2>2
<1>4. uci_parse_delta(t, <<c>>) = Effect(t, s, c)
  BY <1>1, <1>2, <1>3 DEF uci_parse_delta, uci_parse_delta_line
<1>5. Before(t, <<c>>, 1) = t
  BY <1>2, <1>3 DEF Before
<1>6. Lands(t, <<c>>)
  <2>1. \A k \in 1..Len(<<c>>) : k = 1
    BY <1>1
  <2>. QED
    BY <1>1, <1>5, <2>1 DEF Lands
<1>. QED
  BY <1>4, <1>6

(* What is recorded does what the call did.                                *)
LEMMA SameEffect ==
  ASSUME NEW t \in Tree, NEW s \in 0..Len(t.sec), NEW c \in Change, Found(t, s, c),
         NEW d, d = uci_add_delta(t, s, c)
  PROVE  /\ d \in Change /\ d.section = c.section /\ d.id = c.id
         /\ Found(t, s, d) /\ Effect(t, s, d) = Effect(t, s, c)
         /\ uci_parse_delta_tuple(d) <=> uci_parse_delta_tuple(c)
<1>1. CASE c.cmd = "remove" /\ ~OfItem(t, s, c)
  <2>1. d = [c EXCEPT !.value = None]
    BY <1>1 DEF uci_add_delta
  <2>2. /\ d.cmd = c.cmd /\ d.section = c.section /\ d.id = c.id /\ d.option = c.option
        /\ d.value = None /\ d \in Change
    BY <1>1, <2>1 DEF Change, Line
  <2>3. Found(t, s, d) /\ (uci_parse_delta_tuple(d) <=> uci_parse_delta_tuple(c))
    BY <1>1, <2>2 DEF Found, uci_parse_delta_tuple
  <2>4. Effect(t, s, d) = uci_delete(t, s, d) /\ Effect(t, s, c) = uci_delete(t, s, c)
    BY <1>1, <2>2 DEF Effect
  <2>5. ~OfItem(t, s, d)
    BY <2>2 DEF OfItem
  <2>6. uci_delete(t, s, d) = uci_delete(t, s, c)
    BY <1>1, <2>2, <2>5 DEF uci_delete
  <2>. QED
    BY <2>2, <2>3, <2>4, <2>6
<1>2. CASE ~(c.cmd = "remove" /\ ~OfItem(t, s, c))
  BY <1>2 DEF uci_add_delta
<1>. QED
  BY <1>1, <1>2

(* What is not recorded changed nothing.                                   *)
LEMMA NotRecorded ==
  ASSUME NEW t, NEW s, NEW c, ~Recorded(t, s, c)
  PROVE  Effect(t, s, c) = t
<1>1. CASE c.cmd = "list_del" /\ ~IsList(t.sec[s].opt, c.option)
  BY <1>1 DEF Effect, uci_del_list
<1>2. CASE ~(c.cmd = "list_del" /\ ~IsList(t.sec[s].opt, c.option))
  BY <1>2 DEF Recorded
<1>. QED
  BY <1>1, <1>2

-----------------------------------------------------------------------------
(* What is written of a section can be read.                               *)
LEMMA WrittenType ==
  ASSUME NEW x \in Section(Named)
  PROVE  /\ Written(x) \in Section(Named \union {None})
         /\ Written(x).anon <=> Written(x).name = None
         /\ \A k \in 1..Len(Written(x).opt) : Written(x).opt[k].val # <<>>
<1>. DEFINE T == {o \in Range(x.opt) : o.val # <<>>}
            q == Filter(x.opt, T)
            name == IF x.anon THEN None ELSE x.name
            O == Seq(Option)
            M == Named \union {None}
<1>1. x.opt \in O /\ x.name \in Named /\ x.anon \in BOOLEAN
  BY DEF Section
<1>2. q \in O /\ \A k \in 1..Len(q) : q[k] \in T
  <2>. HIDE DEF T
  <2>. QED
    BY <1>1, FilterItems
<1>3. \A k \in 1..Len(q) : q[k].val # <<>>
  BY <1>2
<1>4. name \in M /\ (x.anon <=> name = None)
  BY <1>1, PackageAssumption
<1>5. Written(x) = [id |-> x.id, type |-> x.type, name |-> name, anon |-> x.anon, opt |-> q]
  BY DEF Written
<1>6. Section(M) = [id : Int, type : Type, name : M, anon : BOOLEAN, opt : O]
  BY DEF Section
<1>8. x.id \in Int /\ x.type \in Type
  BY DEF Section
<1>. HIDE DEF q, name, O, M
<1>7. /\ Written(x) \in Section(M) /\ Written(x).anon = x.anon
      /\ Written(x).name = name /\ Written(x).opt = q
  BY <1>1, <1>2, <1>4, <1>5, <1>6, <1>8
<1>. QED
  BY <1>3, <1>4, <1>7 DEF M

(* So can what is exported.                                                *)
LEMMA ExportType ==
  ASSUME NEW t \in Tree
  PROVE  uci_export(t) \in Seq(Section(Named \union {None})) /\ Text(uci_export(t))
<1>1. Len(t.sec) \in Nat /\ \A s \in 1..Len(t.sec) : t.sec[s] \in Section(Named)
  BY TreeWith
<1>2. uci_export(t) = [s \in 1..Len(t.sec) |-> Written(t.sec[s])]
  BY DEF uci_export
<1>3. \A s \in 1..Len(t.sec) : Written(t.sec[s]) \in Section(Named \union {None})
  BY <1>1, WrittenType
<1>4. /\ uci_export(t) \in Seq(Section(Named \union {None}))
      /\ Len(uci_export(t)) = Len(t.sec)
  <2>1. uci_export(t) \in [1..Len(t.sec) -> Section(Named \union {None})]
    BY <1>2, <1>3
  <2>. QED
    BY <1>1, <2>1, SeqOver
<1>5. Text(uci_export(t))
  <2>1. SUFFICES ASSUME NEW s \in 1..Len(t.sec), NEW x, x = Written(t.sec[s])
                 PROVE  /\ x.anon <=> x.name = None
                        /\ \A k \in 1..Len(x.opt) : x.opt[k].val # <<>>
    BY <1>2, <1>4 DEF Text
  <2>. QED
    BY <1>1, <2>1, WrittenType
<1>. QED
  BY <1>4, <1>5

-----------------------------------------------------------------------------
(* The package of a process that loads or commits.                         *)
LEMMA GetsStep ==
  ASSUME IInv, NEW p \in Proc, NEW t \in Tree \union {Gone}, Gets(p, t)
  PROVE  /\ pkg' \in [Proc -> Tree \union {Gone}] /\ base' \in [Proc -> Tree \union {Gone}]
         /\ own' \in [Proc -> Seq(Change)] /\ odd' \subseteq Proc
         /\ pkg'[p] = t
         /\ \A q \in Proc : Agrees(q)'
<1>1. /\ pkg \in [Proc -> Tree \union {Gone}] /\ base \in [Proc -> Tree \union {Gone}]
      /\ own \in [Proc -> Seq(Change)] /\ odd \subseteq Proc
  BY DEF IInv, TypeOK
<1>2. <<>> \in Seq(Change)
  OBVIOUS
<1>3. /\ pkg' = [pkg EXCEPT ![p] = t] /\ base' = [base EXCEPT ![p] = t]
      /\ own' = [own EXCEPT ![p] = <<>>]
      /\ odd' = IF NoTwo(t.sec) THEN odd \ {p} ELSE (odd \ {p}) \union {p}
  BY DEF Gets, OddWith
<1>4. /\ pkg' \in [Proc -> Tree \union {Gone}] /\ base' \in [Proc -> Tree \union {Gone}]
      /\ own' \in [Proc -> Seq(Change)] /\ odd' \subseteq Proc
      /\ pkg'[p] = t /\ base'[p] = t /\ own'[p] = <<>>
  BY <1>1, <1>2, <1>3
<1>5. Agrees(p)'
  <2>1. p \notin odd' => NoTwo(t.sec)
    BY <1>3
  <2>2. Lands(t, <<>>) /\ uci_parse_delta(t, <<>>) = t
    BY <1>2, ReplayType
  <2>. QED
    BY <1>4, <2>1, <2>2 DEF Agrees
<1>6. ASSUME NEW q \in Proc \ {p}
      PROVE  Agrees(q)'
  <2>1. pkg'[q] = pkg[q] /\ base'[q] = base[q] /\ own'[q] = own[q] /\ (q \in odd' <=> q \in odd)
    BY <1>1, <1>3
  <2>. QED
    BY <2>1 DEF IInv, Agrees
<1>. QED
  BY <1>4, <1>5, <1>6

(* Lines that are saved and did not go astray land.                        *)
LEMMA SavedLand ==
  ASSUME IInv, NEW p \in Proc, ~Saved(p)
  PROVE  /\ Lands(uci_import(file), delta \o own[p])
         /\ uci_import(file) = Gone => delta \o own[p] = <<>>
<1>. DEFINE t == uci_import(file)
<1>1. delta \in Seq(Change) /\ own[p] \in Seq(Change) /\ t \in Tree \union {Gone}
  BY ImportType DEF IInv, TypeOK
<1>2. ~astray /\ Lands(t, delta) /\ (t = Gone => delta = <<>>)
  BY DEF IInv, LinesLand, NoLines, Saved
<1>3. CASE own[p] = <<>>
  <2>1. delta \o <<>> = delta
    BY <1>1
  <2>. QED
    BY <1>2, <1>3, <2>1
<1>4. CASE own[p] # <<>>
  <2>1. p \notin odd /\ base[p] = uci_parse_delta(t, delta)
    BY <1>2, <1>4 DEF Saved, Loaded
  <2>2. base[p] # Gone /\ Lands(base[p], own[p])
    BY <1>4, <2>1 DEF IInv, Agrees
  <2>3. t \in Tree
    BY <1>1, <2>1, <2>2, ReplayType
  <2>4. t # Gone
    BY <2>3, TreeWith
  <2>. HIDE DEF t
  <2>5. Lands(t, delta \o own[p])
    BY <1>1, <1>2, <2>1, <2>2, <2>3, ReplayJoin
  <2>. QED
    BY <2>4, <2>5 DEF t
<1>. QED
  BY <1>3, <1>4

(* A call.  It names its section, or one that is new.                      *)
LEMMA CallStep ==
  ASSUME IInv, NEW p \in Proc, pkg[p] # Gone, NEW s \in 0..Len(pkg[p].sec), NEW c \in Change,
         s # 0 => c.section = pkg[p].sec[s].name /\ c.id = pkg[p].sec[s].id,
         s = 0 /\ NoTwo(Effect(pkg[p], s, c).sec) => uci_lookup_list(pkg[p].sec, c.section) = 0,
         Call(p, s, c)
  PROVE  IInv'
<1>. DEFINE t == pkg[p]
            d == uci_add_delta(t, s, c)
            e == Effect(t, s, c)
<1>1. /\ pkg \in [Proc -> Tree \union {Gone}] /\ base \in [Proc -> Tree \union {Gone}]
      /\ own \in [Proc -> Seq(Change)] /\ odd \subseteq Proc /\ calls \in 0..MaxCalls
  BY DEF IInv, TypeOK
<1>2. t \in Tree /\ Found(t, s, c)
  BY <1>1 DEF Call
<1>3. e \in Tree /\ e # Gone
  BY <1>2, EffectType, TreeWith
<1>4. /\ d \in Change /\ d.section = c.section /\ d.id = c.id
      /\ Found(t, s, d) /\ Effect(t, s, d) = e
      /\ uci_parse_delta_tuple(d) <=> uci_parse_delta_tuple(c)
  BY <1>2, SameEffect
<1>5. ~Recorded(t, s, c) => e = t
  BY NotRecorded
<1>6. /\ pkg' = [pkg EXCEPT ![p] = e]
      /\ own' = [own EXCEPT ![p] = IF Recorded(t, s, c) THEN Append(own[p], d) ELSE own[p]]
      /\ UNCHANGED <<file, delta, base, astray>>
      /\ calls < MaxCalls /\ calls' = IF Recorded(t, s, c) THEN calls + 1 ELSE calls
  BY DEF Call
<1>7. odd' = OddWith(p, e, IF uci_parse_delta_tuple(c) THEN odd ELSE odd \union {p})
  BY <1>1, <1>6 DEF Call
<1>. HIDE DEF e, d
<1>8. /\ odd \subseteq odd' /\ odd' \subseteq odd \union {p}
      /\ p \notin odd' => p \notin odd /\ NoTwo(e.sec) /\ uci_parse_delta_tuple(c)
  BY <1>7 DEF OddWith
<1>9. TypeOK'
  <2>1. Append(own[p], d) \in Seq(Change)
    BY <1>1, <1>4
  <2>2. own' \in [Proc -> Seq(Change)] /\ pkg' \in [Proc -> Tree \union {Gone}]
    BY <1>1, <1>3, <1>6, <2>1
  <2>3. calls' \in 0..MaxCalls
    BY <1>1, <1>6, PackageAssumption
  <2>. QED
    BY <1>1, <1>6, <1>8, <2>2, <2>3 DEF IInv, TypeOK
<1>10. LinesLand' /\ NoLines'
  BY <1>6 DEF IInv, LinesLand, NoLines
<1>11. ASSUME NEW q \in Proc \ {p}
       PROVE  Agrees(q)'
  <2>1. pkg'[q] = pkg[q] /\ base'[q] = base[q] /\ own'[q] = own[q] /\ (q \in odd' <=> q \in odd)
    BY <1>1, <1>6, <1>8
  <2>. QED
    BY <2>1 DEF IInv, Agrees
<1>12. Agrees(p)'
  <2>1. /\ pkg'[p] = e /\ base'[p] = base[p]
        /\ own'[p] = IF Recorded(t, s, c) THEN Append(own[p], d) ELSE own[p]
    BY <1>1, <1>6
  <2>2. base[p] # Gone /\ base[p] \in Tree
    BY <1>1 DEF IInv, Agrees
  <2>3. SUFFICES ASSUME p \notin odd'
                 PROVE  Lands(base[p], own'[p]) /\ uci_parse_delta(base[p], own'[p]) = e
    BY <1>3, <1>8, <2>1, <2>2 DEF Agrees
  <2>4. /\ NoTwo(t.sec) /\ Lands(base[p], own[p]) /\ uci_parse_delta(base[p], own[p]) = t
        /\ NoTwo(e.sec) /\ uci_parse_delta_tuple(c)
    BY <1>8, <2>3 DEF IInv, Agrees
  <2>5. CASE ~Recorded(t, s, c)
    BY <1>5, <2>1, <2>4, <2>5
  <2>6. CASE Recorded(t, s, c)
    <3>1. uci_lookup_list(t.sec, d.section) = s
      <4>1. CASE s = 0
        BY <1>4, <2>4, <4>1 DEF e
      <4>2. CASE s # 0
        <5>1. t.sec \in Seq(Section(Named)) /\ s \in 1..Len(t.sec)
          BY <1>2, <4>2, TreeWith
        <5>2. uci_lookup_list(t.sec, t.sec[s].name) = s
          BY <2>4, <5>1, LookupOnly
        <5>. QED
          BY <1>4, <4>2, <5>2
      <4>. QED
        BY <4>1, <4>2
    <3>2. Accepted(t, d)
      BY <1>4, <2>4, <3>1 DEF Accepted
    <3>3. uci_parse_delta(t, <<d>>) = e /\ Lands(t, <<d>>)
      BY <1>2, <1>4, <3>1, <3>2, ReplayOne
    <3>4. own[p] \in Seq(Change) /\ <<d>> \in Seq(Change)
      BY <1>1, <1>4
    <3>5. own'[p] = own[p] \o <<d>>
      <4>1. own'[p] = Append(own[p], d)
        BY <2>1, <2>6, Zenon
      <4>2. Append(own[p], d) = own[p] \o <<d>>
        BY <1>4, <3>4, AppendIsConcat, Zenon
      <4>. QED
        BY <4>1, <4>2, Zenon
    <3>6. /\ uci_parse_delta(base[p], own[p] \o <<d>>) = uci_parse_delta(t, <<d>>)
          /\ Lands(base[p], own[p] \o <<d>>)
      BY <2>2, <2>4, <3>3, <3>4, ReplayJoin
    <3>. QED
      BY <3>3, <3>5, <3>6
  <2>. QED
    BY <2>5, <2>6
<1>. QED
  BY <1>9, <1>10, <1>11, <1>12 DEF IInv

(* A change of a section that is there.                                    *)
LEMMA OfStep ==
  ASSUME IInv, NEW p \in Proc, NEW s \in 1..Len(pkg[p].sec), NEW cmd, NEW option, NEW value,
         \A section \in Named, id \in Int :
           [cmd |-> cmd, section |-> section, option |-> option, value |-> value, id |-> id]
             \in Change,
         Of(p, s, cmd, option, value)
  PROVE  IInv'
<1>. DEFINE c == [cmd |-> cmd, section |-> pkg[p].sec[s].name, option |-> option,
                  value |-> value, id |-> pkg[p].sec[s].id]
<1>1. pkg[p] # Gone /\ pkg[p] \in Tree
  BY DEF IInv, TypeOK, Of, Call
<1>2. pkg[p].sec[s] \in Section(Named) /\ Len(pkg[p].sec) \in Nat
  BY <1>1, TreeWith
<1>3. pkg[p].sec[s].name \in Named /\ pkg[p].sec[s].id \in Int
  BY <1>2 DEF Section
<1>4. c \in Change
  BY <1>3
<1>5. c.section = pkg[p].sec[s].name /\ c.id = pkg[p].sec[s].id /\ Call(p, s, c)
  BY DEF Of
<1>6. s \in 0..Len(pkg[p].sec) /\ s # 0
  BY <1>2
<1>. HIDE DEF c
<1>. QED
  BY <1>1, <1>4, <1>5, <1>6, CallStep

(* A section that is new.                                                  *)
LEMMA NewStep ==
  ASSUME IInv, NEW p \in Proc, NEW cmd \in {"set", "add"}, NEW name \in Named, NEW type \in Type,
         cmd = "set" => uci_lookup_list(pkg[p].sec, name) = 0,
         New(p, cmd, name, type)
  PROVE  IInv'
<1>. DEFINE c == [cmd |-> cmd, section |-> name, option |-> None, value |-> type,
                  id |-> calls + 1]
            t == pkg[p]
            u == uci_set(t, 0, c)
<1>1. t # Gone /\ t \in Tree /\ calls + 1 \in Int
  BY PackageAssumption DEF IInv, TypeOK, New, Call
<1>2. t.sec \in Seq(Section(Named)) /\ Len(t.sec) \in Nat
  BY <1>1, TreeWith
<1>3. c \in Change
  BY <1>1 DEF Change, Line
<1>4. Call(p, 0, c)
  BY DEF New
<1>5. ASSUME cmd = "add", NoTwo(Effect(t, 0, c).sec)
      PROVE  uci_lookup_list(t.sec, name) = 0
  <2>1. u = uci_alloc_section(t, type, name, calls + 1)
    BY DEF uci_set
  <2>. HIDE DEF u
  <2>3. PICK x \in Section(Named) :
          /\ u \in Tree /\ u = [sec |-> Append(t.sec, x), n |-> t.n + 1]
          /\ x = [id |-> calls + 1, type |-> type, anon |-> name = None, opt |-> <<>>,
                  name |-> IF name = None THEN <<t.n + 1, type>> ELSE name]
    <3>1. name \in Named \union {None} /\ calls + 1 \in Int
      BY <1>1
    <3>2. \E x \in Section(Named) :
            /\ uci_alloc_section(t, type, name, calls + 1) \in Tree
            /\ uci_alloc_section(t, type, name, calls + 1) =
                 [sec |-> Append(t.sec, x), n |-> t.n + 1]
            /\ x = [id |-> calls + 1, type |-> type, anon |-> name = None, opt |-> <<>>,
                    name |-> IF name = None THEN <<t.n + 1, type>> ELSE name]
      <4>. HIDE DEF t, c
      <4>. QED
        BY <1>1, <3>1, AllocType, ZenonT(90)
    <3>. QED
      BY <2>1, <3>2, ZenonT(90)
  <2>2. x.name = name
    BY <2>3, PackageAssumption
  <2>4. u.sec = Append(t.sec, x)
    BY <2>3
  <2>5. /\ Len(u.sec) = Len(t.sec) + 1 /\ u.sec[Len(u.sec)] = x
        /\ \A i \in 1..Len(t.sec) : u.sec[i] = t.sec[i]
    BY <1>2, <2>3, <2>4
  <2>6. Effect(t, 0, c) = [u EXCEPT !.sec[Len(u.sec)].anon = TRUE]
    BY <1>5 DEF Effect, u
  <2>. DEFINE y == [x EXCEPT !.anon = TRUE]
  <2>7. Effect(t, 0, c).sec = [u.sec EXCEPT ![Len(u.sec)] = y]
    <3>1. y \in Section(Named)
      BY <2>3, SectionWith
    <3>2. Effect(t, 0, c) = [u EXCEPT !.sec = [u.sec EXCEPT ![Len(u.sec)] = y]]
      BY <2>5, <2>6
    <3>3. Len(u.sec) \in 1..Len(u.sec)
      BY <1>2, <2>5
    <3>. HIDE DEF y
    <3>. QED
      <4>1. [u EXCEPT !.sec = [u.sec EXCEPT ![Len(u.sec)] = y]].sec =
              [u.sec EXCEPT ![Len(u.sec)] = y]
        BY <2>3, <3>1, <3>3, TreePut, Zenon
      <4>. QED
        BY <3>2, <4>1, Zenon
  <2>8. y.name = name
    BY <2>2, <2>3 DEF Section
  <2>. HIDE DEF y
  <2>. DEFINE E == Effect(t, 0, c).sec
  <2>. HIDE DEF E
  <2>9. /\ Len(E) = Len(t.sec) + 1 /\ E[Len(t.sec) + 1] = y
        /\ \A i \in 1..Len(t.sec) : E[i] = t.sec[i]
    <3>1. u.sec \in Seq(Section(Named))
      BY <2>3, TreeWith
    <3>2. E = [u.sec EXCEPT ![Len(u.sec)] = y]
      BY <2>7 DEF E
    <3>. QED
      BY <1>2, <2>5, <3>1, <3>2
  <2>10. \A i \in 1..Len(t.sec) : t.sec[i].name # name
    <3>1. SUFFICES ASSUME NEW i \in 1..Len(t.sec), E[i].name = E[Len(t.sec) + 1].name
                   PROVE  FALSE
      BY <2>8, <2>9
    <3>2. i \in 1..Len(E) /\ Len(t.sec) + 1 \in 1..Len(E) /\ i # Len(t.sec) + 1
      BY <1>2, <2>9
    <3>. QED
      BY <1>5, <3>1, <3>2 DEF NoTwo, E
  <2>. QED
    BY <1>2, <2>10, Lookup
<1>6. 0 \in 0..Len(t.sec) /\ c.section = name
  BY <1>2
<1>7. 0 = 0 /\ NoTwo(Effect(t, 0, c).sec) => uci_lookup_list(t.sec, c.section) = 0
  BY <1>5, <1>6
<1>. HIDE DEF c
<1>. QED
  BY <1>1, <1>3, <1>4, <1>6, <1>7, CallStep

(* The invariant holds to begin with ...                                   *)
LEMMA InitInv == Init => IInv
<1>1. SUFFICES ASSUME Init
               PROVE  IInv
  OBVIOUS
<1>. DEFINE t == uci_import(file)
<1>2. file \in Seq(Section(Name \union {None})) /\ Text(file)
  BY <1>1, PackageAssumption DEF Init
<1>3. file \in Seq(Section(Named \union {None}))
  <2>1. Section(Name \union {None}) \subseteq Section(Named \union {None})
    BY DEF Section, Named
  <2>2. Len(file) \in Nat /\ file \in [1..Len(file) -> Section(Name \union {None})]
    BY <1>2
  <2>3. file \in [1..Len(file) -> Section(Named \union {None})]
    BY <2>1, <2>2
  <2>. QED
    BY <2>2, <2>3, SeqOver
<1>4. t \in Tree \union {Gone}
  BY <1>3, ImportType
<1>10. <<>> \in Seq(Change)
  OBVIOUS
<1>5. /\ delta = <<>> /\ pkg = [p \in Proc |-> t] /\ own = [p \in Proc |-> <<>>]
      /\ calls = 0 /\ base = pkg /\ odd = (IF NoTwo(t.sec) THEN {} ELSE Proc)
      /\ astray = FALSE
  BY <1>1 DEF Init
<1>. HIDE DEF t
<1>6. TypeOK
  <2>1. delta \in Seq(Change) /\ own \in [Proc -> Seq(Change)]
    BY <1>5, <1>10
  <2>2. pkg \in [Proc -> Tree \union {Gone}] /\ base \in [Proc -> Tree \union {Gone}]
    BY <1>4, <1>5
  <2>4. MaxCalls \in Nat
    BY PackageAssumption
  <2>5. calls \in 0..MaxCalls
    BY <1>5, <2>4
  <2>3. odd \subseteq Proc /\ astray \in BOOLEAN /\ calls \in 0..MaxCalls
    BY <1>5, <2>5
  <2>. QED
    BY <1>2, <1>3, <2>1, <2>2, <2>3 DEF TypeOK
<1>7. Lands(t, <<>>) /\ uci_parse_delta(t, <<>>) = t
  BY <1>4, <1>10, ReplayType
<1>8. ASSUME NEW p \in Proc
      PROVE  Agrees(p)
  <2>1. pkg[p] = t /\ base[p] = t /\ own[p] = <<>> /\ (p \notin odd => NoTwo(t.sec))
    BY <1>5
  <2>. QED
    BY <1>7, <2>1 DEF Agrees
<1>9. LinesLand /\ NoLines
  BY <1>5, <1>7 DEF LinesLand, NoLines, t
<1>. QED
  BY <1>6, <1>8, <1>9 DEF IInv

(* ... and every step keeps it.                                            *)
LEMMA NextInv == IInv /\ [Next]_vars => IInv'
<1>1. SUFFICES ASSUME IInv, [Next]_vars
               PROVE  IInv'
  OBVIOUS
<1>. DEFINE t == uci_import(file)
<1>2. /\ file \in Seq(Section(Named \union {None})) /\ Text(file) /\ delta \in Seq(Change)
      /\ pkg \in [Proc -> Tree \union {Gone}] /\ base \in [Proc -> Tree \union {Gone}]
      /\ own \in [Proc -> Seq(Change)]
      /\ odd \subseteq Proc /\ astray \in BOOLEAN /\ calls \in 0..MaxCalls
  BY <1>1 DEF IInv, TypeOK
<1>3. t \in Tree \union {Gone}
  BY <1>2, ImportType
<1>4. CASE UNCHANGED vars
  <2>1. TypeOK'
    BY <1>1, <1>4 DEF IInv, TypeOK, vars
  <2>2. \A p \in Proc : Agrees(p)'
    BY <1>1, <1>4 DEF IInv, Agrees, vars
  <2>. QED
    BY <1>1, <1>4, <2>1, <2>2 DEF IInv, LinesLand, NoLines, vars
<1>5. ASSUME NEW p \in Proc, uci_save(p)
      PROVE  IInv'
  <2>1. /\ delta' = delta \o own[p] /\ own' = [own EXCEPT ![p] = <<>>]
        /\ base' = [base EXCEPT ![p] = pkg[p]] /\ astray' = Saved(p)
        /\ UNCHANGED <<file, pkg, calls, odd>>
    BY <1>5 DEF uci_save
  <2>2. TypeOK'
    <3>1. delta \o own[p] \in Seq(Change) /\ <<>> \in Seq(Change)
      BY <1>2
    <3>2. own' \in [Proc -> Seq(Change)] /\ base' \in [Proc -> Tree \union {Gone}]
      BY <1>2, <2>1, <3>1
    <3>3. Saved(p) \in BOOLEAN
      BY <1>2 DEF Saved
    <3>. QED
      BY <1>2, <2>1, <3>1, <3>2, <3>3 DEF TypeOK
  <2>3. Agrees(p)'
    <3>1. pkg'[p] = pkg[p] /\ base'[p] = pkg[p] /\ own'[p] = <<>> /\ odd' = odd
      BY <1>2, <2>1
    <3>2. Lands(pkg[p], <<>>) /\ uci_parse_delta(pkg[p], <<>>) = pkg[p]
      BY <1>2, ReplayType
    <3>3. p \notin odd => NoTwo(pkg[p].sec)
      BY <1>1 DEF IInv, Agrees
    <3>. QED
      BY <3>1, <3>2, <3>3 DEF Agrees
  <2>4. ASSUME NEW q \in Proc \ {p}
        PROVE  Agrees(q)'
    <3>1. pkg'[q] = pkg[q] /\ base'[q] = base[q] /\ own'[q] = own[q] /\ odd' = odd
      BY <1>2, <2>1
    <3>. QED
      BY <1>1, <3>1 DEF IInv, Agrees
  <2>5. LinesLand' /\ NoLines'
    <3>1. uci_import(file)' = t
      BY <2>1
    <3>2. ~astray' => Lands(t, delta') /\ (t = Gone => delta' = <<>>)
      BY <1>1, <2>1, SavedLand
    <3>. QED
      BY <2>1, <3>2 DEF LinesLand, NoLines
  <2>. QED
    BY <2>2, <2>3, <2>4, <2>5 DEF IInv
<1>6. ASSUME NEW p \in Proc, uci_load(p)
      PROVE  IInv'
  <2>1. Gets(p, Loaded) /\ UNCHANGED <<file, delta, calls, astray>>
    BY <1>6 DEF uci_load
  <2>2. Loaded \in Tree \union {Gone}
    BY <1>2, <1>3, ReplayType DEF Loaded
  <2>3. /\ pkg' \in [Proc -> Tree \union {Gone}] /\ base' \in [Proc -> Tree \union {Gone}]
        /\ own' \in [Proc -> Seq(Change)] /\ odd' \subseteq Proc
        /\ \A q \in Proc : Agrees(q)'
    <3>. DEFINE u == Loaded
    <3>1. u \in Tree \union {Gone} /\ Gets(p, u)
      BY <2>1, <2>2
    <3>. HIDE DEF u
    <3>. QED
      BY <1>1, <3>1, GetsStep
  <2>4. TypeOK'
    BY <1>2, <2>1, <2>3 DEF TypeOK
  <2>5. LinesLand' /\ NoLines'
    BY <1>1, <2>1 DEF IInv, LinesLand, NoLines
  <2>. QED
    BY <2>3, <2>4, <2>5 DEF IInv
<1>7. ASSUME NEW p \in Proc, uci_commit(p)
      PROVE  IInv'
  <2>. DEFINE lines == delta \o own[p]
              u == uci_parse_delta(t, lines)
              accepted == t # Gone /\ \E k \in 1..Len(lines) :
                                        Accepted(Before(t, lines, k), lines[k])
  <2>1. /\ Gets(p, u)
        /\ file' = IF accepted THEN uci_export(pkg'[p]) ELSE file
        /\ delta' = IF accepted THEN <<>> ELSE lines
        /\ astray' = Saved(p) /\ UNCHANGED calls
    BY <1>7 DEF uci_commit
  <2>2. lines \in Seq(Change) /\ <<>> \in Seq(Change)
    BY <1>2
  <2>3. u \in Tree \union {Gone} /\ (u = Gone <=> t = Gone)
    BY <1>3, <2>2, ReplayType
  <2>4. accepted \in BOOLEAN /\ (accepted => t # Gone)
    OBVIOUS
  <2>. HIDE DEF u, accepted, lines, t
  <2>5. /\ pkg' \in [Proc -> Tree \union {Gone}] /\ base' \in [Proc -> Tree \union {Gone}]
        /\ own' \in [Proc -> Seq(Change)] /\ odd' \subseteq Proc
        /\ pkg'[p] = u /\ \A q \in Proc : Agrees(q)'
    BY <1>1, <2>1, <2>3, GetsStep
  <2>6. TypeOK'
    <3>1. file' \in Seq(Section(Named \union {None})) /\ Text(file')
      <4>1. CASE accepted
        <5>1. u \in Tree
          BY <2>3, <2>4, <4>1
        <5>. QED
          BY <2>1, <2>5, <4>1, <5>1, ExportType
      <4>2. CASE ~accepted
        BY <1>2, <2>1, <4>2
      <4>. QED
        BY <4>1, <4>2
    <3>2. delta' \in Seq(Change)
      BY <2>1, <2>2
    <3>3. Saved(p) \in BOOLEAN
      BY <1>2 DEF Saved
    <3>. QED
      BY <1>2, <2>1, <2>5, <3>1, <3>2, <3>3 DEF TypeOK
  <2>7. LinesLand' /\ NoLines'
    <3>1. CASE accepted
      <4>1. uci_import(file') \in Tree \union {Gone}
        BY <2>6, ImportType DEF TypeOK
      <4>2. Lands(uci_import(file'), <<>>)
        BY <2>2, <4>1, ReplayType
      <4>. QED
        BY <2>1, <3>1, <4>2 DEF LinesLand, NoLines
    <3>2. CASE ~accepted
      <4>1. file' = file /\ delta' = delta \o own[p] /\ astray' = Saved(p)
        BY <2>1, <3>2 DEF lines
      <4>2. ~Saved(p) => /\ Lands(uci_import(file), delta \o own[p])
                         /\ uci_import(file) = Gone => delta \o own[p] = <<>>
        BY <1>1, SavedLand
      <4>. QED
        BY <4>1, <4>2 DEF LinesLand, NoLines
    <3>. QED
      BY <3>1, <3>2
  <2>. QED
    BY <2>5, <2>6, <2>7 DEF IInv
<1>8. ASSUME NEW p \in Proc, NEW type \in Type, uci_add_section(p, type)
      PROVE  IInv'
  <2>. DEFINE name == uci_fixup_section(pkg[p], type)
  <2>1. New(p, "add", name, type)
    BY <1>8 DEF uci_add_section
  <2>2. pkg[p] \in Tree
    BY <1>2, <2>1 DEF New, Call
  <2>3. name \in Named
    <3>1. pkg[p].n + 1 \in Nat
      BY <2>2, TreeWith
    <3>. QED
      BY <3>1 DEF Named, uci_fixup_section
  <2>. HIDE DEF name
  <2>. QED
    BY <1>1, <2>1, <2>3, NewStep
<1>9. ASSUME NEW p \in Proc, NEW type \in Type, NEW name \in Name, new_section(p, name, type)
      PROVE  IInv'
  <2>1. name \in Named
    BY DEF Named
  <2>. QED
    BY <1>1, <1>9, <2>1, NewStep DEF new_section
<1>10. ASSUME NEW p \in Proc, NEW s \in 1..Len(pkg[p].sec), change_section(p, s)
       PROVE  IInv'
  <2>1. \A i \in 0..MaxPos : i \in Nat
    BY PackageAssumption
  <2>2. ASSUME NEW type \in Type, Of(p, s, "set", None, type)
        PROVE  IInv'
    <3>1. \A section \in Named, id \in Int :
            [cmd |-> "set", section |-> section, option |-> None, value |-> type, id |-> id]
              \in Change
      BY DEF Change, Line
    <3>. QED
      BY <1>1, <2>2, <3>1, OfStep
  <2>3. ASSUME NEW name \in Name, Of(p, s, "rename", None, name)
        PROVE  IInv'
    <3>1. \A section \in Named, id \in Int :
            [cmd |-> "rename", section |-> section, option |-> None, value |-> name, id |-> id]
              \in Change
      BY DEF Change, Line
    <3>. QED
      BY <1>1, <2>3, <3>1, OfStep
  <2>4. ASSUME NEW pos \in 0..MaxPos, Of(p, s, "reorder", None, pos)
        PROVE  IInv'
    <3>1. \A section \in Named, id \in Int :
            [cmd |-> "reorder", section |-> section, option |-> None, value |-> pos, id |-> id]
              \in Change
      BY <2>1 DEF Change, Line
    <3>. QED
      BY <1>1, <2>4, <3>1, OfStep
  <2>5. ASSUME Of(p, s, "remove", None, None)
        PROVE  IInv'
    <3>1. \A section \in Named, id \in Int :
            [cmd |-> "remove", section |-> section, option |-> None, value |-> None, id |-> id]
              \in Change
      BY DEF Change, Line
    <3>. QED
      BY <1>1, <2>5, <3>1, OfStep
  <2>. QED
    BY <1>10, <2>2, <2>3, <2>4, <2>5 DEF change_section
<1>11. ASSUME NEW p \in Proc, NEW s \in 1..Len(pkg[p].sec), NEW option \in Name,
              change_option(p, s, option)
       PROVE  IInv'
  <2>1. \A i \in 0..MaxPos : i \in Nat
    BY PackageAssumption
  <2>2. ASSUME NEW v \in Val, NEW cmd \in {"set", "list_add", "list_del"},
               Of(p, s, cmd, option, v)
        PROVE  IInv'
    <3>1. \A section \in Named, id \in Int :
            [cmd |-> cmd, section |-> section, option |-> option, value |-> v, id |-> id]
              \in Change
      BY DEF Change, Line
    <3>. QED
      BY <1>1, <2>2, <3>1, OfStep
  <2>3. ASSUME NEW name \in Name, Of(p, s, "rename", option, name)
        PROVE  IInv'
    <3>1. \A section \in Named, id \in Int :
            [cmd |-> "rename", section |-> section, option |-> option, value |-> name, id |-> id]
              \in Change
      BY DEF Change, Line
    <3>. QED
      BY <1>1, <2>3, <3>1, OfStep
  <2>4. ASSUME NEW i \in (0..MaxPos) \union {None}, Of(p, s, "remove", option, i)
        PROVE  IInv'
    <3>1. \A section \in Named, id \in Int :
            [cmd |-> "remove", section |-> section, option |-> option, value |-> i, id |-> id]
              \in Change
      BY <2>1 DEF Change, Line
    <3>. QED
      BY <1>1, <2>4, <3>1, OfStep
  <2>. QED
    BY <1>11, <2>2, <2>3, <2>4 DEF change_option
<1>. QED
  BY <1>1, <1>4, <1>5, <1>6, <1>7, <1>8, <1>9, <1>10, <1>11 DEF Next

(* IInv is an invariant of the package and its delta.                      *)
THEOREM Invariance == Spec => []IInv
<1>. QED
  BY InitInv, NextInv, PTL DEF Spec

(* The trees, the files and the lines have their types.                    *)
THEOREM TypeCorrect == Spec => []TypeOK
<1>1. IInv => TypeOK
  BY DEF IInv
<1>. QED
  BY <1>1, Invariance, PTL

(* Replay of what a process recorded gives the package it has.             *)
THEOREM ReplayIsFaithful == Spec => []ReplayAgrees
<1>1. IInv => ReplayAgrees
  BY DEF IInv, Agrees, ReplayAgrees
<1>. QED
  BY <1>1, Invariance, PTL

(* The lines of the delta file find the sections they were meant for.      *)
THEOREM EveryLineLands == Spec => []LinesLand
<1>1. IInv => LinesLand
  BY DEF IInv
<1>. QED
  BY <1>1, Invariance, PTL

-----------------------------------------------------------------------------
(***************************************************************************)
(* What is written is read back.  The import adds the sections of a file   *)
(* one by one, their options one by one, and the items of a list one by    *)
(* one: each is an induction, on the names being new.                      *)
(***************************************************************************)

(* A name that is not there, and one that only the last thing has.         *)
LEMMA LookupNew ==
  ASSUME NEW S, NEW list \in Seq(S), NEW name, \A i \in 1..Len(list) : list[i].name # name
  PROVE  /\ uci_lookup_list(list, name) = 0
         /\ \A e \in S : e.name = name =>
              uci_lookup_list(Append(list, e), name) = Len(list) + 1
<1>1. uci_lookup_list(list, name) = 0
  BY Lookup
<1>2. ASSUME NEW e \in S, e.name = name
      PROVE  uci_lookup_list(Append(list, e), name) = Len(list) + 1
  <2>. DEFINE q == Append(list, e)
              k == uci_lookup_list(q, name)
  <2>1. /\ q \in Seq(S) /\ Len(list) \in Nat /\ Len(q) = Len(list) + 1
        /\ q[Len(list) + 1] = e
        /\ \A i \in 1..Len(list) : q[i] = list[i]
    OBVIOUS
  <2>. HIDE DEF q
  <2>2. \/ k = 0 /\ \A i \in 1..Len(q) : q[i].name # name
        \/ k \in 1..Len(q) /\ q[k].name = name
    BY <2>1, Lookup
  <2>. HIDE DEF k
  <2>3. Len(list) + 1 \in 1..Len(q) /\ q[Len(list) + 1].name = name
    BY <1>2, <2>1
  <2>4. k \in 1..Len(q) /\ q[k].name = name
    BY <2>2, <2>3
  <2>5. k \notin 1..Len(list)
    BY <2>1, <2>4
  <2>6. k = Len(list) + 1
    BY <2>1, <2>4, <2>5
  <2>. QED
    BY <2>6 DEF k, q
<1>. QED
  BY <1>1, <1>2

(* The items of a list that is new make one option, at the end.            *)
LEMMA ListedNew ==
  ASSUME NEW opt \in Seq(Option), NEW o \in Option,
         \A i \in 1..Len(opt) : opt[i].name # o.name
  PROVE  \A n \in 1..Len(o.val) :
           Listed(opt, o)[n] =
             Append(opt, [name |-> o.name, list |-> TRUE, val |-> SubSeq(o.val, 1, n)])
<1>. DEFINE y(n) == [name |-> o.name, list |-> TRUE, val |-> SubSeq(o.val, 1, n)]
            F == Listed(opt, o)
            Good == {n \in 0..Len(o.val) : n # 0 => F[n] = Append(opt, y(n))}
<1>1. o.name \in Name /\ o.val \in Seq(Val) /\ Len(o.val) \in Nat
  BY OptionIs
<1>2. F[0] = opt /\ \A n \in 1..Len(o.val) : F[n] = add_list(F[n - 1], o.name, o.val[n])
  BY <1>1, ListedIs
<1>3. ASSUME NEW n \in 1..Len(o.val)
      PROVE  y(n) \in Option /\ y(n).name = o.name /\ y(n).list /\ y(n).val = SubSeq(o.val, 1, n)
  <2>1. SubSeq(o.val, 1, n) \in Seq(Val)
    BY <1>1
  <2>. QED
    BY <1>1, <2>1, ListIs
<1>. HIDE DEF F
<1>4. 0 \in Good
  BY <1>1
<1>5. ASSUME NEW n \in 1..Len(o.val), n - 1 \in Good
      PROVE  n \in Good
  <2>. DEFINE new(before) ==
                [name |-> o.name, list |-> TRUE, val |-> Append(before, o.val[n])]
  <2>1. CASE n = 1
    <3>1. F[1] = add_list(opt, o.name, o.val[1])
      BY <1>2, <2>1
    <3>2. uci_lookup_list(opt, o.name) = 0
      BY LookupNew
    <3>3. add_list(opt, o.name, o.val[1]) = Append(opt, new(<<>>))
      BY <2>1, <3>2 DEF add_list
    <3>4. Append(<<>>, o.val[1]) = SubSeq(o.val, 1, 1)
      BY <1>1, <2>1
    <3>5. new(<<>>) = y(1)
      BY <2>1, <3>4
    <3>6. n \in 0..Len(o.val) /\ F[n] = Append(opt, y(n))
      BY <1>1, <2>1, <3>1, <3>3, <3>5
    <3>. QED
      BY <3>6
  <2>2. CASE n # 1
    <3>. DEFINE x == y(n - 1)
                q == Append(opt, x)
                k == Len(opt) + 1
    <3>1. n - 1 \in 1..Len(o.val)
      BY <1>1, <2>2
    <3>2. F[n - 1] = q
      BY <1>5, <3>1
    <3>3. x \in Option /\ x.name = o.name /\ x.list /\ x.val = SubSeq(o.val, 1, n - 1)
      BY <1>3, <3>1
    <3>4. new(x.val) = y(n) /\ y(n) \in Option
      <4>1. Append(SubSeq(o.val, 1, n - 1), o.val[n]) = SubSeq(o.val, 1, n)
        BY <1>1
      <4>. QED
        BY <1>3, <3>3, <4>1
    <3>. HIDE DEF x, y
    <3>5. uci_lookup_list(q, o.name) = k
      BY <3>3, LookupNew
    <3>6. q[k] = x /\ k # 0 /\ k \in Nat
      BY <3>3
    <3>7. add_list(q, o.name, o.val[n]) = [q EXCEPT ![k] = new(q[k].val)]
      <4>. HIDE DEF q, k
      <4>. QED
        BY <3>3, <3>5, <3>6 DEF add_list
    <3>8. [q EXCEPT ![k] = y(n)] = Append(opt, y(n))
      BY <3>3, <3>4, ReplaceLast
    <3>9. n \in 0..Len(o.val) /\ F[n] = Append(opt, y(n))
      <4>1. n \in 0..Len(o.val) /\ F[n] = add_list(q, o.name, o.val[n])
        <5>1. n \in 0..Len(o.val)
          BY <1>1
        <5>. HIDE DEF q
        <5>. QED
          BY <1>2, <3>2, <5>1, Zenon
      <4>2. new(q[k].val) = y(n)
        BY <3>4, <3>6
      <4>. HIDE DEF new, q, k
      <4>. QED
        BY <3>7, <3>8, <4>1, <4>2
    <3>. QED
      BY <3>9
  <2>. QED
    BY <2>1, <2>2
<1>. HIDE DEF Good
<1>6. \A n \in 1..Len(o.val) : n - 1 \in Good => n \in Good
  BY <1>5
<1>7. \A n \in 0..Len(o.val) : n \in Good
  BY <1>1, <1>4, <1>6, InductionUpTo, Zenon
<1>8. \A n \in 1..Len(o.val) : n \in 0..Len(o.val) /\ n # 0
  BY <1>1
<1>. QED
  BY <1>7, <1>8 DEF Good, F

(* An option that is new is read as it is.                                 *)
LEMMA ParseOptionNew ==
  ASSUME NEW opt \in Seq(Option), NEW o \in Option, o.val # <<>>,
         \A i \in 1..Len(opt) : opt[i].name # o.name
  PROVE  uci_parse_option(opt, o) = Append(opt, o)
<1>1. /\ o.name \in Name /\ o.list \in BOOLEAN /\ o.val \in Seq(Val)
      /\ ~o.list => \E v \in Val : o.val = <<v>>
      /\ o = [name |-> o.name, list |-> o.list, val |-> o.val]
  BY OptionIs
<1>2. CASE o.list
  <2>1. Len(o.val) \in 1..Len(o.val)
    BY <1>1
  <2>2. SubSeq(o.val, 1, Len(o.val)) = o.val
    BY <1>1
  <2>3. Listed(opt, o)[Len(o.val)] =
          Append(opt, [name |-> o.name, list |-> TRUE, val |-> o.val])
    BY <2>1, <2>2, ListedNew
  <2>4. [name |-> o.name, list |-> TRUE, val |-> o.val] = o
    BY <1>1, <1>2
  <2>. QED
    BY <1>2, <2>3, <2>4 DEF uci_parse_option
<1>3. CASE ~o.list
  <2>1. PICK v \in Val : o.val = <<v>>
    BY <1>1, <1>3
  <2>2. o.val[1] = v
    BY <2>1
  <2>3. [name |-> o.name, list |-> FALSE, val |-> <<v>>] = o
    BY <1>1, <1>3, <2>1
  <2>4. uci_lookup_list(opt, o.name) = 0
    BY LookupNew
  <2>5. set_option(opt, o.name, v) = Append(opt, o)
    BY <2>3, <2>4 DEF set_option
  <2>. QED
    BY <1>3, <2>2, <2>5 DEF uci_parse_option
<1>. QED
  BY <1>1, <1>2, <1>3

(* So are the options of a section that is new.                            *)
LEMMA ParsedNew ==
  ASSUME NEW new \in Seq(Option), NoTwo(new), \A k \in 1..Len(new) : new[k].val # <<>>
  PROVE  Parsed(<<>>, new)[Len(new)] = new
<1>. DEFINE F == Parsed(<<>>, new)
            Good == {n \in 0..Len(new) : F[n] = SubSeq(new, 1, n)}
<1>1. Len(new) \in Nat /\ <<>> \in Seq(Option)
  OBVIOUS
<1>2. F[0] = <<>> /\ \A n \in 1..Len(new) : F[n] = uci_parse_option(F[n - 1], new[n])
  BY <1>1, ParsedIs
<1>. HIDE DEF F
<1>3. 0 \in Good
  <2>1. SubSeq(new, 1, 0) = <<>>
    OBVIOUS
  <2>2. 0 \in 0..Len(new)
    BY <1>1
  <2>. QED
    BY <1>2, <2>1, <2>2, Zenon
<1>4. ASSUME NEW n \in 1..Len(new), n - 1 \in Good
      PROVE  n \in Good
  <2>. DEFINE q == SubSeq(new, 1, n - 1)
  <2>1. /\ q \in Seq(Option) /\ Len(q) = n - 1 /\ new[n] \in Option
        /\ \A i \in 1..(n - 1) : q[i] = new[i]
    BY <1>1
  <2>2. F[n] = uci_parse_option(q, new[n])
    BY <1>2, <1>4
  <2>3. Append(q, new[n]) = SubSeq(new, 1, n)
    BY <1>1
  <2>. HIDE DEF q
  <2>4. \A i \in 1..Len(q) : q[i].name # new[n].name
    <3>1. \A i \in 1..(n - 1) : i \in 1..Len(new) /\ i # n
      BY <1>1
    <3>. QED
      BY <2>1, <3>1 DEF NoTwo
  <2>5. F[n] = Append(q, new[n])
    BY <2>1, <2>2, <2>4, ParseOptionNew
  <2>. QED
    BY <1>1, <2>3, <2>5
<1>. HIDE DEF Good
<1>5. \A n \in 1..Len(new) : n - 1 \in Good => n \in Good
  BY <1>4
<1>6. \A n \in 0..Len(new) : n \in Good
  BY <1>1, <1>3, <1>5, InductionUpTo, Zenon
<1>7. Len(new) \in Good
  BY <1>1, <1>6
<1>8. SubSeq(new, 1, Len(new)) = new
  BY <1>1
<1>. QED
  BY <1>7, <1>8 DEF Good, F

(* The sections of a file whose names do not clash are those of the tree,  *)
(* the unnamed ones with their generated names.                            *)
LEMMA ImportNew ==
  ASSUME NEW f \in Seq(Section(Named \union {None})), Text(f), NoClash(f)
  PROVE  uci_import(f) =
           [sec |-> [i \in 1..Len(f) |->
                       [id |-> f[i].id, type |-> f[i].type, anon |-> f[i].anon, opt |-> f[i].opt,
                        name |-> IF f[i].name = None THEN <<i, f[i].type>> ELSE f[i].name]],
            n |-> Len(f)]
<1>. DEFINE Y(i) ==
              [id |-> f[i].id, type |-> f[i].type, anon |-> f[i].anon, opt |-> f[i].opt,
               name |-> IF f[i].name = None THEN <<i, f[i].type>> ELSE f[i].name]
            Q(n) == [i \in 1..n |-> Y(i)]
            T(n) == [sec |-> Q(n), n |-> n]
            F == Imported(f)
            Good == {n \in 0..Len(f) : F[n] = T(n)}
<1>1. Len(f) \in Nat /\ \A i \in 1..Len(f) : f[i] \in Section(Named \union {None})
  OBVIOUS
<1>2. /\ F[0] = [sec |-> <<>>, n |-> 0]
      /\ \A n \in 1..Len(f) : F[n] = uci_parse_config(F[n - 1], f[n])
      /\ \A n \in 0..Len(f) : F[n] \in Tree \union {Gone}
  BY ImportedIs
<1>. HIDE DEF F
<1>3. \A i \in 1..Len(f) :
        Y(i).name = IF f[i].name = None THEN <<i, f[i].type>> ELSE f[i].name
  BY <1>1 DEF Section
<1>4. 0 \in Good
  <2>1. Q(0) = <<>>
    OBVIOUS
  <2>. QED
    BY <1>1, <1>2, <2>1
<1>. HIDE DEF Y
<1>5. ASSUME NEW n \in 1..Len(f), n - 1 \in Good
      PROVE  n \in Good
  <2>. DEFINE x == f[n]
              t == F[n - 1]
              s == IF x.name = None THEN 0 ELSE uci_lookup_list(t.sec, x.name)
              z == [id |-> x.id, type |-> x.type, anon |-> x.name = None, opt |-> <<>>,
                    name |-> IF x.name = None THEN <<t.n + 1, x.type>> ELSE x.name]
              u == [sec |-> Append(t.sec, z), n |-> t.n + 1]
  <2>1. n - 1 \in Nat /\ n - 1 \in 0..Len(f) /\ n \in Nat
    BY <1>1
  <2>2. t = T(n - 1)
    BY <1>5
  <2>3. t.sec = Q(n - 1) /\ t.n = n - 1 /\ t.n + 1 = n
    BY <2>1, <2>2
  <2>4. t \in Tree /\ t # Gone
    BY <1>2, <2>1, <2>3 DEF Gone
  <2>5. /\ x.name \in Named \union {None} /\ x.type \in Type /\ x.id \in Int
        /\ x.opt \in Seq(Option) /\ x.anon \in BOOLEAN
    BY <1>1 DEF Section
  <2>6. t.sec \in Seq(Section(Named))
    BY <2>4, TreeWith
  <2>7. Len(t.sec) = n - 1 /\ \A i \in 1..(n - 1) : t.sec[i] = Y(i)
    BY <2>1, <2>3
  <2>8. s = 0
    <3>1. SUFFICES ASSUME x.name # None
                   PROVE  uci_lookup_list(t.sec, x.name) = 0
      OBVIOUS
    <3>2. ASSUME NEW i \in 1..(n - 1)
          PROVE  Y(i).name # x.name
      <4>1. i \in 1..Len(f) /\ i # n /\ i \in Nat
        BY <1>1
      <4>2. CASE f[i].name = None
        <5>1. Y(i).name = <<i, f[i].type>>
          BY <1>3, <4>1, <4>2
        <5>2. Y(i).name \in Nat \X Type
          BY <1>1, <4>1, <5>1 DEF Section
        <5>. QED
          BY <5>2 DEF NoClash
      <4>3. CASE f[i].name # None
        BY <1>3, <4>1, <4>3 DEF NoClash
      <4>. QED
        BY <4>2, <4>3
    <3>3. \A i \in 1..Len(t.sec) : t.sec[i].name # x.name
      BY <2>7, <3>2
    <3>. HIDE DEF t, x
    <3>. QED
      BY <2>6, <3>3, LookupNew
  <2>9. z \in Section(Named) /\ uci_alloc_section(t, x.type, x.name, x.id) = u
    <3>. HIDE DEF x, t
    <3>1. PICK w \in Section(Named) :
            /\ uci_alloc_section(t, x.type, x.name, x.id) \in Tree
            /\ uci_alloc_section(t, x.type, x.name, x.id) = [sec |-> Append(t.sec, w), n |-> t.n + 1]
            /\ w = [id |-> x.id, type |-> x.type, anon |-> x.name = None, opt |-> <<>>,
                    name |-> IF x.name = None THEN <<t.n + 1, x.type>> ELSE x.name]
      <4>. HIDE DEF s, z, u
      <4>1. x.type \in Type /\ x.name \in Named \union {None} /\ x.id \in Int
        BY <2>5
      <4>. QED
        BY <2>4, <4>1, AllocType, ZenonT(90)
    <3>2. w = z
      BY <3>1, Zenon
    <3>. HIDE DEF z
    <3>3. uci_alloc_section(t, x.type, x.name, x.id) = u
      BY <3>1, <3>2, Zenon
    <3>. QED
      BY <3>1, <3>2, <3>3, Zenon
  <2>10. z.type = x.type /\ z.opt = <<>>
    OBVIOUS
  <2>11. [z EXCEPT !.opt = x.opt] = Y(n)
    <3>1. x.anon = (x.name = None)
      BY <2>5 DEF Text
    <3>3. [z EXCEPT !.opt = x.opt] =
            [id |-> x.id, type |-> x.type, anon |-> x.anon, opt |-> x.opt,
             name |-> IF x.name = None THEN <<n, x.type>> ELSE x.name]
      BY <2>3, <3>1
    <3>. QED
      BY <3>3 DEF Y
  <2>. HIDE DEF z
  <2>12. u.sec = Append(t.sec, z) /\ u.n = n
    BY <2>3
  <2>13. /\ Len(u.sec) = n /\ u.sec[n] = z /\ u.sec \in Seq(Section(Named))
         /\ \A i \in 1..(n - 1) : u.sec[i] = Y(i)
    <3>. HIDE DEF u, t
    <3>. QED
      BY <2>1, <2>6, <2>7, <2>9, <2>12
  <2>14. Parsed(<<>>, x.opt)[Len(x.opt)] = x.opt
    <3>1. NoTwo(x.opt) /\ \A k \in 1..Len(x.opt) : x.opt[k].val # <<>>
      BY DEF NoClash, Text
    <3>. QED
      BY <2>5, <3>1, ParsedNew
  <2>15. F[n] = WithOptions(u, n, x.opt)
    <3>1. F[n] = uci_parse_config(t, x)
      BY <1>2
    <3>. HIDE DEF u, t, x
    <3>. QED
      BY <2>4, <2>8, <2>9, <2>10, <2>13, <2>14, <3>1 DEF uci_parse_config
  <2>16. WithOptions(u, n, x.opt) = [sec |-> [u.sec EXCEPT ![n] = Y(n)], n |-> n]
    <3>1. u = [sec |-> u.sec, n |-> n]
      BY <2>12
    <3>2. [u EXCEPT !.sec[n].opt = x.opt] =
            [sec |-> [u.sec EXCEPT ![n] = [u.sec[n] EXCEPT !.opt = x.opt]], n |-> n]
      <4>. HIDE DEF u, x
      <4>. QED
        BY <3>1
    <3>. HIDE DEF u, x
    <3>. QED
      BY <2>11, <2>13, <3>2 DEF WithOptions
  <2>17. [u.sec EXCEPT ![n] = Y(n)] = Q(n)
    <3>. HIDE DEF u
    <3>1. DOMAIN u.sec = 1..n
      BY <2>13
    <3>. QED
      BY <2>1, <2>13, <3>1
  <2>18. F[n] = T(n) /\ n \in 0..Len(f)
    <3>. HIDE DEF Q, u, x
    <3>. QED
      BY <1>1, <2>15, <2>16, <2>17
  <2>. HIDE DEF T
  <2>. QED
    BY <2>18, Zenon
<1>. HIDE DEF Good
<1>6. \A n \in 1..Len(f) : n - 1 \in Good => n \in Good
  BY <1>5
<1>7. \A n \in 0..Len(f) : n \in Good
  BY <1>1, <1>4, <1>6, InductionUpTo, Zenon
<1>8. Len(f) \in Good
  BY <1>1, <1>7
<1>. QED
  BY <1>8 DEF Good, F, Y, uci_import

(* A file whose names do not clash is exported as it was imported.         *)
LEMMA ReadsBack ==
  ASSUME NEW f \in Seq(Section(Named \union {None})), Text(f), NoClash(f)
  PROVE  uci_export(uci_import(f)) = f
<1>. DEFINE Y(i) ==
              [id |-> f[i].id, type |-> f[i].type, anon |-> f[i].anon, opt |-> f[i].opt,
               name |-> IF f[i].name = None THEN <<i, f[i].type>> ELSE f[i].name]
            t == uci_import(f)
<1>1. Len(f) \in Nat /\ \A i \in 1..Len(f) : f[i] \in Section(Named \union {None})
  OBVIOUS
<1>2. t = [sec |-> [i \in 1..Len(f) |-> Y(i)], n |-> Len(f)]
  BY ImportNew
<1>. HIDE DEF t
<1>3. t.sec = [i \in 1..Len(f) |-> Y(i)]
  BY <1>2
<1>4. Len(t.sec) = Len(f) /\ \A i \in 1..Len(f) : t.sec[i] = Y(i)
  BY <1>1, <1>3
<1>5. ASSUME NEW i \in 1..Len(f)
      PROVE  Written(Y(i)) = f[i]
  <2>. DEFINE x == f[i]
              name == IF x.name = None THEN <<i, x.type>> ELSE x.name
              T == {o \in Range(x.opt) : o.val # <<>>}
  <2>1. x.opt \in Seq(Option) /\ x.anon \in BOOLEAN
    BY <1>1 DEF Section
  <2>2. x = [id |-> x.id, type |-> x.type, anon |-> x.anon, opt |-> x.opt, name |-> x.name]
    BY <1>1 DEF Section
  <2>3. \A k \in 1..Len(x.opt) : x.opt[k] \in T
    BY <2>1 DEF Text, Range
  <2>4. Filter(x.opt, T) = x.opt
    <3>. HIDE DEF T, x
    <3>. QED
      BY <2>1, <2>3, FilterAll
  <2>5. /\ Y(i).id = x.id /\ Y(i).type = x.type /\ Y(i).opt = x.opt
        /\ Y(i).anon = x.anon /\ Y(i).name = name
    OBVIOUS
  <2>6. (IF x.anon THEN None ELSE name) = x.name
    BY <2>1 DEF Text
  <2>. HIDE DEF Y
  <2>7. Written(Y(i)) = [id |-> x.id, type |-> x.type, anon |-> x.anon, opt |-> x.opt,
                         name |-> x.name]
    <3>1. Written(Y(i)) =
            [id |-> Y(i).id, type |-> Y(i).type, anon |-> Y(i).anon,
             opt |-> Filter(Y(i).opt, {o \in Range(Y(i).opt) : o.val # <<>>}),
             name |-> IF Y(i).anon THEN None ELSE Y(i).name]
      BY DEF Written
    <3>. HIDE DEF x, name
    <3>. QED
      BY <2>4, <2>5, <2>6, <3>1
  <2>. QED
    BY <2>2, <2>7
<1>. HIDE DEF Y
<1>6. uci_export(t) = [i \in 1..Len(f) |-> f[i]]
  BY <1>4, <1>5 DEF uci_export
<1>7. [i \in 1..Len(f) |-> f[i]] = f
  BY <1>1
<1>. QED
  BY <1>6, <1>7 DEF t

(* What a commit writes is read back as it was, if its names do not clash. *)
THEOREM CommitReadsBack == Spec => []FileReadsBack
<1>1. IInv => FileReadsBack
  BY ReadsBack DEF IInv, TypeOK, FileReadsBack
<1>. QED
  BY <1>1, Invariance, PTL

===============================================================================
