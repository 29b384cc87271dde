---------------------------- MODULE DescrFields ----------------------------
(***************************************************************************)
(* Data-type descriptors and their fields (npy_descriptor.c, with the      *)
(* converter and the setters of core/src/multiarray/descriptor.c): the     *)
(* list of names, the table of fields that is keyed by names and by        *)
(* titles, the descriptor of a subarray's elements, and the references     *)
(* that entries and subarrays hold.                                        *)
(*                                                                         *)
(* A descriptor is [type, order, names, fields, sub, live, given]: type    *)
(* stands for the members that copying a descriptor keeps (type_num,       *)
(* elsize); an entry of fields is [descr, offset, title]; given records,   *)
(* for the properties, the fields [name, title, offset, type] it was       *)
(* made with.                                                              *)
(* The table is NpyDict's map.                                             *)
(***************************************************************************)
EXTENDS Integers, Sequences, FiniteSets, SequencesExt

CONSTANTS None,
          Meta,           \* a title that is not a string
          Orders,         \* byte orders of the descriptors there are at the start
          Endings,        \* byte orders asked for: "S" (NPY_SWAP), "=", ">", "|" (NPY_IGNORE)
          Lists,          \* field lists that descriptors are made from: [name, title]
          Renamings,      \* lists of names for ReplaceNames
          RenameTaken,    \* whether fields get names that the table has already
          ReorderTitled,  \* whether another byte order is asked of fields with titles
          MaxDescrs,      \* bound on the descriptors made
          MaxHeld,        \* bound on the program's references to one of them
          MaxSteps        \* bound on the operations

VARIABLES descrs,    \* the descriptors made so far
          refs,      \* their nob_refcnt
          held,      \* the references that the program has
          steps      \* the operations so far

vars == <<descrs, refs, held, steps>>

Ids == DOMAIN descrs
NoFields == [k \in {} |-> None]

\* A descriptor of the built-in types (NPY_VOID's order is NPY_IGNORE).
Plain(type, order) ==
  [type |-> type, order |-> order, names |-> None, fields |-> NoFields, sub |-> None, live |-> TRUE,
   given |-> <<>>]

Init ==
  /\ descrs = [d \in DOMAIN Orders |-> Plain(d, Orders[d])]
  /\ refs = [d \in DOMAIN Orders |-> 1]
  /\ held = refs
  /\ steps = 0

-----------------------------------------------------------------------------
(* Operations on the store [ds, rs] of descriptors and their counts.       *)

Store == [ds |-> descrs, rs |-> refs]

Without(f, k) == [j \in DOMAIN f \ {k} |-> f[j]]
With(f, k, e) == [j \in DOMAIN f \cup {k} |-> IF j = k THEN e ELSE f[j]]

Incref(s, d) == [s EXCEPT !.rs[d] = @ + 1]

\* Npy_DECREF.  At zero NpyArray_DescrDestroy drops the table and the subarray.
RECURSIVE Decref(_, _)
Decref(s, d) ==
  IF s.rs[d] > 1 THEN [s EXCEPT !.rs[d] = @ - 1]
  ELSE LET old == s.ds[d]
           dead == [s EXCEPT !.rs[d] = 0, !.ds[d] = [Plain(0, "|") EXCEPT !.live = FALSE]]
           DropEntry(t, k) == Decref(t, old.fields[k].descr)
           bare == FoldLeft(DropEntry, dead, SetToSeq(DOMAIN old.fields))
       IN  IF old.sub = None THEN bare ELSE Decref(bare, old.sub)

\* NpyDict_Destroy of a table, and npy_dealloc_fields_value of one entry.
DropFields(s, fields) ==
  LET DropEntry(t, k) == Decref(t, fields[k].descr)
  IN  FoldLeft(DropEntry, s, SetToSeq(DOMAIN fields))

\* The references that a copy of a descriptor takes (npy_copy_fields_value,
\* NpyArray_DupSubarray).
Shared(s, d) ==
  LET from == s.ds[d]
      TakeEntry(t, k) == Incref(t, from.fields[k].descr)
      taken == FoldLeft(TakeEntry, s, SetToSeq(DOMAIN from.fields))
  IN  IF from.sub = None THEN taken ELSE Incref(taken, from.sub)

Added(s, descr) == [ds |-> Append(s.ds, descr), rs |-> Append(s.rs, 1)]

\* NpyArray_DescrNew.
New(s, d) == Added(Shared(s, d), s.ds[d])

\* Mutant: NPY_SWAP is stored as it is.
NewOrderLiteral(order, ending) == IF order = "|" \/ ending = "|" THEN order ELSE ending

NewOrder(order, ending) ==
  CASE order = "|" -> "|"
    [] order # "|" /\ ending = "S" -> IF order = ">" THEN "=" ELSE ">"
    [] order # "|" /\ ending = "|" -> order
    [] OTHER -> ending

\* The entries that NpyArray_DescrNewByteorder replaces: a title's is skipped.
NameKeys(fields) == {k \in DOMAIN fields : fields[k].title # k}

\* Where the store keeps the descriptor that replaces a field's, a subarray's.
SetEntry(s, d, k, to) == Decref([s EXCEPT !.ds[d].fields[k].descr = to], s.ds[d].fields[k].descr)
SetSub(s, d, to) == Decref([s EXCEPT !.ds[d].sub = to], s.ds[d].sub)

\* Mutant: only one level of fields is made anew.
ReorderedShallow(s, d, ending) ==
  LET new == Len(s.ds) + 1
  IN  [New(s, d) EXCEPT !.ds[new].order = NewOrder(@, ending)]

\* NpyArray_DescrNewByteorder: a deep copy.
RECURSIVE Reordered(_, _, _)
Reordered(s, d, ending) ==
  LET new == Len(s.ds) + 1
      top == [New(s, d) EXCEPT !.ds[new].order = NewOrder(@, ending)]
      Field(t, k) == SetEntry(Reordered(t, t.ds[new].fields[k].descr, ending), new, k, Len(t.ds) + 1)
      done == FoldLeft(Field, top, SetToSeq(NameKeys(s.ds[d].fields)))
  IN  IF s.ds[d].sub = None THEN done
      ELSE SetSub(Reordered(done, s.ds[d].sub, ending), new, Len(done.ds) + 1)

\* Mutant: the old key stays.
RekeyedBoth(s, d, old, new) ==
  LET fields == s.ds[d].fields
  IN  IF old \notin DOMAIN fields THEN s
      ELSE [s EXCEPT !.ds[d].fields = With(fields, new, fields[old])]

\* NpyDict_Rekey on the fields of d: an entry that has the new key goes.
Rekeyed(s, d, old, new) ==
  LET fields == s.ds[d].fields
      rest == Without(fields, old)
      moved == [s EXCEPT !.ds[d].fields = With(rest, new, fields[old])]
  IN  IF old \notin DOMAIN fields THEN s
      ELSE IF new \in DOMAIN rest THEN Decref(moved, rest[new].descr)
      ELSE moved

-----------------------------------------------------------------------------
(* Converting a list of fields (_convert_from_array_descr).                *)

\* Mutant: both keys live on the one reference the converter gave.
AddFieldOnce(b, name, title, d, offset) ==
  LET entry == [descr |-> d, offset |-> offset, title |-> title]
  IN  IF name \in DOMAIN b.fields \/ title \in DOMAIN b.fields THEN [b EXCEPT !.failed = TRUE]
      ELSE [b EXCEPT !.fields = IF title = None THEN With(@, name, entry)
                                ELSE With(With(@, name, entry), title, entry),
                     !.store = Incref(@, d)]

\* What the loop has after some items: the table and the counts; failed when
\* a name or a title is taken.  One reference for each key of the field; with a
\* title that is no string (Meta) the field is not stored under its name, and
\* nobody gives back the converter's reference.
AddField(b, name, title, d, offset) ==
  LET entry == [descr |-> d, offset |-> offset, title |-> title]
      taken == \/ name \in DOMAIN b.fields
               \/ title \notin {None, Meta} /\ (title \in DOMAIN b.fields \/ title = name)
  IN  CASE b.failed \/ taken -> [b EXCEPT !.failed = TRUE]
        [] ~b.failed /\ ~taken /\ title = None ->
             [b EXCEPT !.fields = With(@, name, entry), !.store = Incref(@, d)]
        [] ~b.failed /\ ~taken /\ title = Meta -> [b EXCEPT !.store = Incref(@, d)]
        [] OTHER ->
             [b EXCEPT !.fields = With(With(@, name, entry), title, entry),
                       !.store = Incref(Incref(@, d), d)]

Built(list, formats) ==
  LET Item(b, i) == AddField(b, list[i].name, list[i].title, formats[i], i)
  IN  FoldLeft(Item, [store |-> Store, fields |-> NoFields, failed |-> FALSE],
               [i \in DOMAIN list |-> i])

Names(list) == [i \in DOMAIN list |-> list[i].name]
Promise(list, formats) ==
  [i \in DOMAIN list |->
     [name |-> list[i].name, title |-> list[i].title, offset |-> i,
      type |-> descrs[formats[i]].type]]

-----------------------------------------------------------------------------
(* Operations.                                                             *)

Holding(d) == held[d] > 0

Step == steps < MaxSteps /\ steps' = steps + 1

\* The new descriptors of a store; the program gets the reference to the first.
Gives(s) ==
  /\ Len(s.ds) <= MaxDescrs
  /\ descrs' = s.ds
  /\ refs' = s.rs
  /\ held' = [d \in DOMAIN s.ds |->
                CASE d \in Ids -> held[d]
                  [] d = Len(descrs) + 1 -> 1
                  [] OTHER -> 0]

Becomes(s) == descrs' = s.ds /\ refs' = s.rs

\* dtype([...]), for formats the program holds.  A failure destroys the table.
FromList(list, formats) ==
  LET b == Built(list, formats)
      void == [Plain(Len(descrs) + 1, "|") EXCEPT
                 !.names = Names(list), !.fields = b.fields, !.given = Promise(list, formats)]
  IN  /\ \A i \in DOMAIN list : Holding(formats[i])
      /\ ~b.failed
      /\ Gives(Added(b.store, void))

FromListFails(list, formats) ==
  LET b == Built(list, formats)
  IN  /\ \A i \in DOMAIN list : Holding(formats[i])
      /\ b.failed
      /\ Becomes(DropFields(b.store, b.fields))
      /\ UNCHANGED held

\* NpyArrayAccess_DescrNewSubarray: a descriptor of a subarray of d's.
NewSubarray(d) ==
  /\ Holding(d)
  /\ Gives(Added(Incref(Store, d), [Plain(Len(descrs) + 1, "|") EXCEPT !.sub = d]))

DescrNew(d) == Holding(d) /\ Gives(New(Store, d))

\* The descriptors that are reached from d.
RECURSIVE Below(_)
Below(d) ==
  LET children == {descrs[d].fields[k].descr : k \in DOMAIN descrs[d].fields} \cup ({descrs[d].sub} \ {None})
  IN  {d} \cup UNION {Below(c) : c \in children}

Titled(d) == \E k \in DOMAIN descrs[d].fields : descrs[d].fields[k].title # None

NewByteorder(d, ending) ==
  /\ Holding(d)
  /\ ReorderTitled \/ \A b \in Below(d) : ~Titled(b)
  /\ Gives(Reordered(Store, d, ending))

\* NpyArray_DescrReplaceNames (the setter of dtype.names, and argsort's order).
ReplaceNames(d, names) ==
  LET One(s, i) == Rekeyed(s, d, descrs[d].names[i], names[i])
      all == FoldLeft(One, Store, [i \in DOMAIN names |-> i])
  IN  /\ Holding(d)
      /\ descrs[d].names # None
      /\ Len(names) = Len(descrs[d].names)
      /\ RenameTaken \/ ToSet(names) \cap DOMAIN descrs[d].fields = {}
      /\ Becomes([all EXCEPT !.ds[d].names = names,
                             !.ds[d].given = [i \in DOMAIN names |-> [@[i] EXCEPT !.name = names[i]]]])
      /\ UNCHANGED held

\* sort(order=): a copy whose names are in another order (NpyArray_DescrSetNames).
SortNames(d) ==
  LET new == Len(descrs) + 1
      s == New(Store, d)
  IN  /\ Holding(d)
      /\ descrs[d].names # None
      /\ Gives([s EXCEPT !.ds[new].names = Reverse(@), !.ds[new].given = Reverse(@)])

\* __setstate__: the names and the fields of d are replaced.  The state's dict
\* has an entry for each name and each title.
SetState(d, list, formats) ==
  LET b == Built(list, formats)
      set == [b.store EXCEPT !.ds[d].names = Names(list), !.ds[d].fields = b.fields,
                             !.ds[d].given = Promise(list, formats)]
  IN  /\ d > Len(Orders)
      /\ Holding(d)
      /\ \A i \in DOMAIN list : Holding(formats[i]) /\ d \notin Below(formats[i])
      /\ ~b.failed
      /\ Becomes(DropFields(set, descrs[d].fields))
      /\ UNCHANGED held

\* A field's descriptor, for a view on the field.
Lookup(d, key) ==
  /\ Holding(d)
  /\ key \in DOMAIN descrs[d].fields
  /\ LET e == descrs[d].fields[key].descr
     IN  /\ held[e] < MaxHeld
         /\ Becomes(Incref(Store, e))
         /\ held' = [held EXCEPT ![e] = @ + 1]

\* The program lets one go; the built-in types keep a reference of their own.
Drop(d) ==
  /\ Holding(d)
  /\ d > Len(Orders) \/ held[d] > 1
  /\ Becomes(Decref(Store, d))
  /\ held' = [held EXCEPT ![d] = @ - 1]

Next ==
  /\ Step
  /\ \/ \E list \in Lists, f \in Ids :
          FromList(list, <<f, 1>>) \/ FromListFails(list, <<f, 1>>)
     \/ \E d \in Ids, list \in Lists, f \in Ids : SetState(d, list, <<f, 1>>)
     \/ \E d \in Ids : NewSubarray(d) \/ DescrNew(d) \/ SortNames(d) \/ Drop(d)
     \/ \E d \in Ids, ending \in Endings : NewByteorder(d, ending)
     \/ \E d \in Ids, names \in Renamings : ReplaceNames(d, names)
     \/ \E d \in Ids : \E key \in DOMAIN descrs[d].fields : Lookup(d, key)

Spec == Init /\ [][Next]_vars

-----------------------------------------------------------------------------
(* Properties.                                                             *)

\* The number of places that hold a descriptor: the program, entries, subarrays.
Holders(d) ==
  held[d]
  + Cardinality({<<i, k>> \in Ids \X UNION {DOMAIN descrs[i].fields : i \in Ids} :
                   k \in DOMAIN descrs[i].fields /\ descrs[i].fields[k].descr = d})
  + Cardinality({i \in Ids : descrs[i].sub = d})

\* Every descriptor has its parts, and only those made are counted.
TypeOK ==
  /\ \A d \in Ids :
       /\ descrs[d].order \in {"=", ">", "|"}
       /\ descrs[d].live \in BOOLEAN
       /\ descrs[d].names = None => descrs[d].fields = NoFields
       /\ \A k \in DOMAIN descrs[d].fields : descrs[d].fields[k].descr \in Ids
  /\ DOMAIN refs = Ids /\ DOMAIN held = Ids
  /\ \A d \in Ids : refs[d] \in Nat /\ held[d] \in 0..MaxHeld

\* The count of a descriptor is exact: each key of each table (a field with a
\* title has two), each subarray and each holder of the program is one
\* reference, through copies, byte orders, renamed and replaced tables,
\* lists that are refused half way, and cascades of destruction.
RefsExact ==
  \A d \in Ids : /\ refs[d] = Holders(d)
                 /\ descrs[d].live <=> refs[d] > 0

\* Names, table and titles agree with what the descriptor was given, and no
\* other key is in the table: a[name] and a[title] are the field promised.
FieldsAsPromised ==
  \A d \in Ids : descrs[d].live /\ descrs[d].names # None =>
    LET given == descrs[d].given
        titles == {given[i].title : i \in DOMAIN given} \ {None}
    IN  /\ descrs[d].names = [i \in DOMAIN given |-> given[i].name]
        /\ DOMAIN descrs[d].fields = ToSet(descrs[d].names) \cup titles
        /\ \A i \in DOMAIN given : \A k \in {given[i].name, given[i].title} \ {None} :
             LET e == descrs[d].fields[k]
             IN  /\ e.title = given[i].title /\ e.offset = given[i].offset
                 /\ descrs[e.descr].type = given[i].type

\* Whether d2 in ds2 is d in ds with another byte order, in every field.
RECURSIVE IsReordered(_, _, _, _, _)
IsReordered(ds2, d2, ds, d, ending) ==
  LET a == ds2[d2]  b == ds[d]
  IN  /\ a.type = b.type /\ a.names = b.names /\ a.order = NewOrder(b.order, ending)
      /\ DOMAIN a.fields = DOMAIN b.fields
      /\ \A k \in DOMAIN a.fields : IsReordered(ds2, a.fields[k].descr, ds, b.fields[k].descr, ending)
      /\ (a.sub = None) = (b.sub = None)
      /\ a.sub # None => IsReordered(ds2, a.sub, ds, b.sub, ending)

\* newbyteorder gives the order to every field and subarray at every depth
\* and leaves the descriptors there were as they are.
ByteorderThroughout ==
  [][\A d \in Ids, ending \in Endings :
       NewByteorder(d, ending) =>
         /\ IsReordered(descrs', Len(descrs) + 1, descrs, d, ending)
         /\ \A o \in Ids : descrs'[o] = descrs[o]]_vars
=============================================================================
