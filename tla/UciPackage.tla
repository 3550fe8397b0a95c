------------------------------ MODULE UciPackage ------------------------------
(***************************************************************************)
(* The package tree of libuci (list.h), the delta lines that record what a *)
(* call did to it, and their replay on the tree of another process         *)
(* (delta.c).                                                              *)
(*                                                                         *)
(* Load, save and commit are single steps here: UciStore has their steps   *)
(* and the files, and takes a change for an opaque value.  Here a change   *)
(* has an effect, and refers to its section by a name.  An unnamed section *)
(* gets its name whenever it is read or added: the number of sections so   *)
(* far and a hash of its type.                                             *)
(*                                                                         *)
(* A call and the save of what it recorded are two steps, as they are for  *)
(* the users of the library and of its Lua binding; the command line saves *)
(* after each call.                                                        *)
(***************************************************************************)
EXTENDS Integers, Sequences, Functions, SeqFilter

CONSTANTS
  Proc,      \* the processes
  Type,      \* the types of sections
  Name,      \* names that users give to sections and options
  Odd,       \* those among them that uci_validate_name rejects
  Val,       \* the values of options
  None,      \* NULL
  Files,     \* the config files to begin with
  MaxPos,    \* bound: the positions and list indices that users give
  MaxCalls   \* bound: how many changes users make

VARIABLES
  file,     \* the config file: a sequence of sections
  delta,    \* the delta file: a sequence of changes
  pkg,      \* the package of each process
  own,      \* p->delta: its changes that are not saved
  calls,    \* bound: how many changes were recorded
  base,     \* history: pkg before the changes in own
  odd,      \* history: the processes that had two sections of one name, or
            \* used a name that does not validate, since they loaded
  astray    \* history: changes were saved by one of those, or by a process
            \* whose package was not what a load would have given it

vars == <<file, delta, pkg, own, calls, base, odd, astray>>

(* A string has one value.                                                 *)
Option == [name : Name, list : {FALSE}, val : {<<v>> : v \in Val}]
          \union [name : Name, list : {TRUE}, val : Seq(Val)]

(* id is a history: which section it is, whatever its name.                *)
Section(names) ==
  [id : Int, type : Type, name : names, anon : BOOLEAN, opt : Seq(Option)]

(* The names of the sections of a package: given, or generated.            *)
Named == Name \union (Nat \X Type)

(* A package: its sections, and how many there have been (n_section).      *)
Tree == [sec : Seq(Section(Named)), n : Nat]

(* No package: the config file could not be imported.                      *)
Gone == [sec |-> <<>>, n |-> -1]

Line(cmds, options, values) ==
  [cmd : cmds, section : Named, option : options, value : values, id : Int]
Change ==
  Line({"set", "add"}, {None}, Type) \union Line({"set", "list_add", "list_del"}, Name, Val)
    \union Line({"rename"}, Name \union {None}, Name) \union Line({"reorder"}, {None}, Nat)
    \union Line({"remove"}, {None}, {None}) \union Line({"remove"}, Name, Nat \union {None})

(* What can be read in a file: a section is unnamed if it has no name, and *)
(* an option has a line for each of its values.                            *)
Text(f) ==
  \A s \in 1..Len(f) : /\ f[s].anon <=> f[s].name = None
                       /\ \A k \in 1..Len(f[s].opt) : f[s].opt[k].val # <<>>

ASSUME PackageAssumption ==
  /\ Odd \subseteq Name /\ None \notin Named
  /\ \A f \in Files : f \in Seq(Section(Name \union {None})) /\ Text(f)
  /\ MaxPos \in Nat /\ MaxCalls \in Nat

-----------------------------------------------------------------------------
(***************************************************************************)
(* Changes to a tree t; s is the place of the section ptr->s, 0 for NULL   *)
(***************************************************************************)
(* Two operators of SequencesExt: all else that comes with that module     *)
(* would be in the context of every step of UciPackageProofs, and makes    *)
(* the proofs several times slower.                                        *)
RemoveAt(q, i) == SubSeq(q, 1, i - 1) \o SubSeq(q, i + 1, Len(q))
InsertAt(q, i, e) == SubSeq(q, 1, i - 1) \o <<e>> \o SubSeq(q, i, Len(q))

(* The place of the first thing in list that has the name, 0 for NULL.     *)
uci_lookup_list(list, name) ==
  LET I == {i \in 1..Len(list) : list[i].name = name}
  IN IF I = {} THEN 0 ELSE CHOOSE i \in I : \A j \in I : i <= j

(* Mutant: no name is generated.                                           *)
no_name(t, type) == None

(* The name that uci_fixup_section gives to the next unnamed section.      *)
uci_fixup_section(t, type) == <<t.n + 1, type>>

uci_alloc_section(t, type, name, id) ==
  [sec |-> Append(t.sec, [id |-> id, type |-> type, anon |-> name = None, opt |-> <<>>,
                          name |-> IF name = None THEN uci_fixup_section(t, type)
                                                  ELSE name]),
   n |-> t.n + 1]

(* A changed option goes to the end of the options opt of its section.     *)
set_option(opt, name, value) ==
  LET k == uci_lookup_list(opt, name)
      o == [name |-> name, list |-> FALSE, val |-> <<value>>]
  IN IF k = 0 THEN Append(opt, o)
     ELSE IF opt[k] = o THEN opt ELSE Append(RemoveAt(opt, k), o)

(* A string becomes a list, at the end of the section.                     *)
add_list(opt, name, value) ==
  LET k == uci_lookup_list(opt, name)
      new(before) == [name |-> name, list |-> TRUE, val |-> Append(before, value)]
  IN IF k = 0 THEN Append(opt, new(<<>>))
     ELSE IF opt[k].list THEN [opt EXCEPT ![k] = new(opt[k].val)]
     ELSE Append(RemoveAt(opt, k), new(opt[k].val))

IsList(opt, name) ==
  LET k == uci_lookup_list(opt, name) IN k # 0 /\ opt[k].list

(* The change removes an item of a list.                                   *)
OfItem(t, s, c) ==
  c.option # None /\ c.value # None /\ IsList(t.sec[s].opt, c.option)

WithOptions(t, s, opt) == [t EXCEPT !.sec[s].opt = opt]

uci_set(t, s, c) ==
  IF c.option # None
    THEN WithOptions(t, s, set_option(t.sec[s].opt, c.option, c.value))
  ELSE IF s = 0 THEN uci_alloc_section(t, c.value, c.section, c.id)
  ELSE [t EXCEPT !.sec[s].type = c.value]

delete_item(opt, k, n) ==
  IF n < Len(opt[k].val) THEN [opt EXCEPT ![k].val = RemoveAt(opt[k].val, n + 1)] ELSE opt

uci_delete(t, s, c) ==
  IF c.option = None THEN [t EXCEPT !.sec = RemoveAt(t.sec, s)]
  ELSE LET opt == t.sec[s].opt
           k == uci_lookup_list(opt, c.option)
       IN WithOptions(t, s, IF OfItem(t, s, c) THEN delete_item(opt, k, c.value)
                                               ELSE RemoveAt(opt, k))

uci_rename(t, s, c) ==
  IF c.option = None
    THEN [t EXCEPT !.sec[s].name = c.value, !.sec[s].anon = FALSE]
    ELSE LET opt == t.sec[s].opt
         IN WithOptions(t, s, [opt EXCEPT ![uci_lookup_list(opt, c.option)].name = c.value])

(* The section goes behind the first c.value others, or to the end.        *)
uci_list_set_pos(t, s, c) ==
  LET rest == RemoveAt(t.sec, s)
      pos == IF c.value < Len(rest) THEN c.value ELSE Len(rest)
  IN [t EXCEPT !.sec = InsertAt(rest, pos + 1, t.sec[s])]

uci_add_list(t, s, c) == WithOptions(t, s, add_list(t.sec[s].opt, c.option, c.value))

uci_del_list(t, s, c) ==
  LET opt == t.sec[s].opt
      k == uci_lookup_list(opt, c.option)
  IN IF IsList(opt, c.option)
       THEN WithOptions(t, s, [opt EXCEPT ![k].val = Filter(opt[k].val, Val \ {c.value})])
       ELSE t

Effect(t, s, c) ==
  CASE c.cmd = "set" -> uci_set(t, s, c)
    [] c.cmd = "add" ->
         LET u == uci_set(t, s, c)
         IN [u EXCEPT !.sec[IF s = 0 THEN Len(u.sec) ELSE s].anon = TRUE]
    [] c.cmd = "remove" -> uci_delete(t, s, c)
    [] c.cmd = "rename" -> uci_rename(t, s, c)
    [] c.cmd = "reorder" -> uci_list_set_pos(t, s, c)
    [] c.cmd = "list_add" -> uci_add_list(t, s, c)
    [] c.cmd = "list_del" -> uci_del_list(t, s, c)

(* The call does not fail: it finds what it needs.                         *)
Found(t, s, c) ==
  /\ s = 0 => c.cmd \in {"set", "add"} /\ c.option = None
  /\ c.cmd \in {"remove", "rename"} /\ c.option # None =>
       uci_lookup_list(t.sec[s].opt, c.option) # 0

(* What the call records: nothing, if nothing changes ...                  *)
Recorded(t, s, c) ==
  /\ c.cmd = "list_del" => IsList(t.sec[s].opt, c.option)
  /\ c.cmd \in {"set", "remove"} /\ c.option # None => Effect(t, s, c) # t
  /\ c.cmd = "reorder" => Effect(t, s, c) # t

(* Mutant: the removal of an item is recorded as that of its option.       *)
record_option(t, s, c) == IF c.cmd = "remove" THEN [c EXCEPT !.value = None] ELSE c

(* ... and the removal of a whole option without a value.                  *)
uci_add_delta(t, s, c) ==
  IF c.cmd = "remove" /\ ~OfItem(t, s, c) THEN [c EXCEPT !.value = None] ELSE c

-----------------------------------------------------------------------------
(***************************************************************************)
(* Replay, export and import                                               *)
(***************************************************************************)
uci_parse_delta_tuple(c) ==
  c.section \notin Odd /\ (c.cmd = "rename" => c.value \notin Odd)

(* A line is accepted if it parses and the call does not fail.             *)
Accepted(t, c) ==
  uci_parse_delta_tuple(c) /\ Found(t, uci_lookup_list(t.sec, c.section), c)

uci_parse_delta_line(t, c) ==
  IF Accepted(t, c) THEN Effect(t, uci_lookup_list(t.sec, c.section), c) ELSE t

(* Replayed(t, lines)[k]: the tree after the first k lines.                *)
Replayed(t, lines) ==
  LET f[k \in 0..Len(lines)] ==
        IF k = 0 THEN t ELSE uci_parse_delta_line(f[k - 1], lines[k])
  IN f

uci_parse_delta(t, lines) == IF t = Gone THEN t ELSE Replayed(t, lines)[Len(lines)]

(* The tree on which line k of lines is replayed.                          *)
Before(t, lines, k) == IF t = Gone THEN t ELSE Replayed(t, lines)[k - 1]

(* An unnamed section is written without its name, an empty list not.      *)
Written(x) ==
  [id |-> x.id, type |-> x.type, name |-> IF x.anon THEN None ELSE x.name,
   anon |-> x.anon, opt |-> Filter(x.opt, {o \in Range(x.opt) : o.val # <<>>})]

uci_export(t) == [s \in 1..Len(t.sec) |-> Written(t.sec[s])]

(* Listed(opt, o)[k]: opt with the first k items of the list o.            *)
Listed(opt, o) ==
  LET f[k \in 0..Len(o.val)] ==
        IF k = 0 THEN opt ELSE add_list(f[k - 1], o.name, o.val[k])
  IN f

(* Mutant: a list of one item is read as a string.                         *)
parse_string_first(opt, o) ==
  Listed(set_option(opt, o.name, o.val[1]), [o EXCEPT !.val = Tail(o.val)])[Len(o.val) - 1]

uci_parse_option(opt, o) ==
  IF o.list THEN Listed(opt, o)[Len(o.val)] ELSE set_option(opt, o.name, o.val[1])

(* Parsed(opt, new)[k]: opt with the first k options of new.               *)
Parsed(opt, new) ==
  LET f[k \in 0..Len(new)] == IF k = 0 THEN opt ELSE uci_parse_option(f[k - 1], new[k])
  IN f

(* A section whose name is there already is merged with the first of them, *)
(* if they have one type: otherwise the import fails (UCI_FLAG_STRICT).    *)
uci_parse_config(t, x) ==
  LET s == IF x.name = None THEN 0 ELSE uci_lookup_list(t.sec, x.name)
      u == IF s = 0 THEN uci_alloc_section(t, x.type, x.name, x.id) ELSE t
      k == IF s = 0 THEN Len(u.sec) ELSE s
  IN IF t = Gone \/ u.sec[k].type # x.type THEN Gone
     ELSE WithOptions(u, k, Parsed(u.sec[k].opt, x.opt)[Len(x.opt)])

(* Imported(f)[k]: the tree after the first k sections of f.               *)
Imported(f) ==
  LET g[k \in 0..Len(f)] ==
        IF k = 0 THEN [sec |-> <<>>, n |-> 0] ELSE uci_parse_config(g[k - 1], f[k])
  IN g

uci_import(f) == Imported(f)[Len(f)]

(* What a load gives now.                                                  *)
Loaded == uci_parse_delta(uci_import(file), delta)

-----------------------------------------------------------------------------
NoTwo(list) == \A i, j \in 1..Len(list) : list[i].name = list[j].name => i = j

(* The processes that are odd when p has tree t, o being odd before.       *)
OddWith(p, t, o) == IF NoTwo(t.sec) THEN o ELSE o \union {p}

Init ==
  /\ file \in Files /\ delta = <<>>
  /\ pkg = [p \in Proc |-> uci_import(file)] /\ own = [p \in Proc |-> <<>>]
  /\ calls = 0
  /\ base = pkg /\ odd = (IF NoTwo(uci_import(file).sec) THEN {} ELSE Proc)
  /\ astray = FALSE

(* A call changes the package of p and records the change.  The section is *)
(* given by its place (@type[index]), or is new.                           *)
Call(p, s, c) ==
  /\ pkg[p] # Gone
  /\ Found(pkg[p], s, c)
  /\ calls < MaxCalls
  /\ calls' = IF Recorded(pkg[p], s, c) THEN calls + 1 ELSE calls
  /\ pkg' = [pkg EXCEPT ![p] = Effect(@, s, c)]
  /\ own' = [own EXCEPT ![p] = IF Recorded(pkg[p], s, c)
                                 THEN Append(@, uci_add_delta(pkg[p], s, c)) ELSE @]
  /\ odd' = OddWith(p, pkg'[p], IF uci_parse_delta_tuple(c) THEN odd ELSE odd \union {p})
  /\ UNCHANGED <<file, delta, base, astray>>

(* A change of the section at place s.                                     *)
Of(p, s, cmd, option, value) ==
  Call(p, s, [cmd |-> cmd, section |-> pkg[p].sec[s].name, option |-> option,
              value |-> value, id |-> pkg[p].sec[s].id])

(* uci_add_section, and uci_set of a section that is not there.            *)
New(p, cmd, name, type) ==
  Call(p, 0, [cmd |-> cmd, section |-> name, option |-> None, value |-> type,
              id |-> calls + 1])

uci_add_section(p, type) == New(p, "add", uci_fixup_section(pkg[p], type), type)

new_section(p, name, type) ==
  uci_lookup_list(pkg[p].sec, name) = 0 /\ New(p, "set", name, type)

change_section(p, s) ==
  \/ \E type \in Type : Of(p, s, "set", None, type)
  \/ \E name \in Name : Of(p, s, "rename", None, name)
  \/ \E pos \in 0..MaxPos : Of(p, s, "reorder", None, pos)
  \/ Of(p, s, "remove", None, None)

change_option(p, s, option) ==
  \/ \E v \in Val, cmd \in {"set", "list_add", "list_del"} : Of(p, s, cmd, option, v)
  \/ \E name \in Name : Of(p, s, "rename", option, name)
  \/ \E i \in (0..MaxPos) \union {None} : Of(p, s, "remove", option, i)

(* The changes of p are appended to the delta file.  They may go astray if *)
(* p is odd, or does not have what a load would give it.                   *)
Saved(p) == astray \/ (own[p] # <<>> /\ (p \in odd \/ base[p] # Loaded))

(* Mutant: the changes are written at the beginning of the file.           *)
save_in_front(p) ==
  /\ own[p] # <<>>
  /\ delta' = own[p] \o delta /\ own' = [own EXCEPT ![p] = <<>>]
  /\ base' = [base EXCEPT ![p] = pkg[p]]
  /\ astray' = Saved(p)
  /\ UNCHANGED <<file, pkg, calls, odd>>

uci_save(p) ==
  /\ own[p] # <<>>
  /\ delta' = delta \o own[p] /\ own' = [own EXCEPT ![p] = <<>>]
  /\ base' = [base EXCEPT ![p] = pkg[p]]
  /\ astray' = Saved(p)
  /\ UNCHANGED <<file, pkg, calls, odd>>

(* p gets tree t in place of the one it had.                               *)
Gets(p, t) ==
  /\ pkg' = [pkg EXCEPT ![p] = t] /\ base' = [base EXCEPT ![p] = t]
  /\ own' = [own EXCEPT ![p] = <<>>]
  /\ odd' = OddWith(p, t, odd \ {p})

(* The package is unloaded and loaded.                                     *)
uci_load(p) ==
  /\ Gets(p, Loaded)
  /\ UNCHANGED <<file, delta, calls, astray>>

(* The changes are saved and the package is read again; if a line of the   *)
(* delta is accepted, the package is written and the delta flushed.  If    *)
(* the file cannot be read the package is gone; its changes are saved.     *)
uci_commit(p) ==
  LET lines == delta \o own[p]
      t == uci_import(file)
      accepted == t # Gone /\ \E k \in 1..Len(lines) :
                                Accepted(Before(t, lines, k), lines[k])
  IN /\ pkg[p] # Gone
     /\ Gets(p, uci_parse_delta(t, lines))
     /\ file' = IF accepted THEN uci_export(pkg'[p]) ELSE file
     /\ delta' = IF accepted THEN <<>> ELSE lines
     /\ astray' = Saved(p)
     /\ UNCHANGED calls

Next ==
  \E p \in Proc :
    \/ uci_save(p) \/ uci_load(p) \/ uci_commit(p)
    \/ \E type \in Type : \/ uci_add_section(p, type)
                          \/ \E name \in Name \ Odd : new_section(p, name, type)
    \/ \E s \in 1..Len(pkg[p].sec) : \/ change_section(p, s)
                                     \/ \E option \in Name \ Odd : change_option(p, s, option)

Spec == Init /\ [][Next]_vars

-----------------------------------------------------------------------------
(* The files, the trees and the changes have their types: what was         *)
(* exported can be read, and every line has the arguments of its command.  *)
TypeOK ==
  /\ file \in Seq(Section(Named \union {None})) /\ Text(file) /\ delta \in Seq(Change)
  /\ pkg \in [Proc -> Tree \union {Gone}] /\ base \in [Proc -> Tree \union {Gone}]
  /\ own \in [Proc -> Seq(Change)]
  /\ odd \subseteq Proc /\ astray \in BOOLEAN /\ calls \in 0..MaxCalls

(* The changes a process recorded, replayed on the package it had before   *)
(* them, give the package it has: a commit, which reads the file again and *)
(* replays, writes what the user saw.  Excepted are names that do not      *)
(* validate and two sections of one name.                                  *)
ReplayAgrees ==
  \A p \in Proc \ odd : uci_parse_delta(base[p], own[p]) = pkg[p]

(* Every line, replayed on t and what the lines before it made of t, is    *)
(* accepted and changes the section, however it is called by now, that its *)
(* call changed.                                                           *)
Lands(t, lines) ==
  \A k \in 1..Len(lines) :
    LET u == Before(t, lines, k)
        s == uci_lookup_list(u.sec, lines[k].section)
    IN Accepted(u, lines[k]) /\ (s # 0 => u.sec[s].id = lines[k].id)

(* The lines of the delta file do so, unless changes were saved by a       *)
(* process whose package was not what a load would have given it.          *)
LinesLand == ~astray => Lands(uci_import(file), delta)

(* The sections of f, and the options of each, have names of their own,    *)
(* and none has the form of a generated name.                              *)
NoClash(f) ==
  /\ \A s \in 1..Len(f) : NoTwo(f[s].opt) /\ f[s].name \notin Nat \X Type
  /\ \A i, j \in 1..Len(f) : f[i].name = f[j].name /\ f[i].name # None => i = j

(* What a commit writes is read back as it was: sections, their order and  *)
(* options, strings and lists.  Excepted are files with names that clash:  *)
(* the sections or options are merged.                                     *)
FileReadsBack == NoClash(file) => uci_export(uci_import(file)) = file

-----------------------------------------------------------------------------
(* The inductive invariant behind these.  A process that is not odd has no *)
(* two sections of one name, so that the lines it has not saved find the   *)
(* sections they were meant for; one without a package has no such lines.  *)
Agrees(p) ==
  /\ p \notin odd => /\ NoTwo(pkg[p].sec) /\ Lands(base[p], own[p])
                     /\ uci_parse_delta(base[p], own[p]) = pkg[p]
  /\ base[p] = Gone => own[p] = <<>>
  /\ base[p] = Gone <=> pkg[p] = Gone

(* No lines were saved for a file that cannot be imported.                 *)
NoLines == ~astray /\ uci_import(file) = Gone => delta = <<>>

IInv == TypeOK /\ (\A p \in Proc : Agrees(p)) /\ LinesLand /\ NoLines

===============================================================================
