--------------------------- MODULE MCItemSelection ---------------------------
(* Small instances of ItemSelection: arrays in C order, transposed, backwards, *)
(* with gaps, without axes and without items, as views of twenty addresses.    *)
EXTENDS ItemSelection

A(dims, strides, data) == [dims |-> dims, strides |-> strides, data |-> data]

MCArrays ==
  [name \in {"rows", "cols", "back", "pair", "out", "line", "gap", "one", "empty"} |->
     CASE name = "rows"  -> A(<<2, 3>>, <<3, 1>>, 0)
       [] name = "cols"  -> A(<<3, 2>>, <<1, 3>>, 0)
       [] name = "back"  -> A(<<3>>, <<-2>>, 4)
       [] name = "pair"  -> A(<<1, 2>>, <<2, 1>>, 6)
       [] name = "out"   -> A(<<2, 2>>, <<2, 1>>, 8)
       [] name = "line"  -> A(<<4>>, <<1>>, 8)
       [] name = "gap"   -> A(<<2, 2>>, <<4, 2>>, 12)
       [] name = "one"   -> A(<<>>, <<>>, 19)
       [] name = "empty" -> A(<<2, 0>>, <<1, 1>>, 0)]

\* With equal items, and with zeros.
MCItems == <<1, 0, 2, 1, 1, 0, 4, 0, 3, 1, 1, 2, 5, 9, 0, 9, 7, 9, 4, 6>>
MCStart == [x \in 0..19 |-> MCItems[x + 1]]

List(items)      == [dims |-> <<Len(items)>>, items |-> items, safe |-> TRUE]
Just(item)       == [dims |-> <<>>, items |-> <<item>>, safe |-> TRUE]
Grid(items)      == [dims |-> <<2, 2>>, items |-> items, safe |-> TRUE]
Unsafe(list)     == [list EXCEPT !.safe = FALSE]

Asked(op, on) ==
  [op |-> op, on |-> on, out |-> None, axis |-> None, mode |-> "raise",
   list |-> Just(0), values |-> <<>>, generic |-> FALSE]
With(r, axis, list)    == [r EXCEPT !.axis = axis, !.list = list]
Into(r, out)           == [r EXCEPT !.out = out]
Mode(r, mode)          == [r EXCEPT !.mode = mode]
Generic(r)             == [r EXCEPT !.generic = TRUE]

Take(a, axis, list) == With(Asked("take", <<a>>), axis, list)
Takes ==
  {Take("rows", 1, List(<<0, 2, -1>>)), Take("rows", 0, Grid(<<1, 0, -2, 1>>)), Take("cols", None, List(<<4, -6>>)),
   Into(Take("rows", -1, List(<<1, 0>>)), "out"), Into(Take("rows", 1, List(<<2, -2>>)), "gap"),
   Into(Mode(Take("cols", 0, List(<<5, -4>>)), "wrap"), "gap"), Into(Mode(Take("rows", 1, List(<<3, -1>>)), "clip"), "out"),
   Mode(Take("back", 0, Just(7)), "wrap"), Into(Take("rows", 1, List(<<0, 3>>)), "out"),
   Into(Take("rows", 0, List(<<0, 1>>)), "out"), Take("rows", 1, Unsafe(List(<<0>>))), Take("rows", 2, List(<<0>>)),
   Take("one", 0, List(<<0, -1>>)), Take("empty", 1, List(<<>>)), Take("empty", 0, List(<<1, 0, 1>>)),
   Take("empty", 1, List(<<0>>))}

Put(a, list, values) == [Asked("put", <<a>>) EXCEPT !.list = list, !.values = values]
Mask(a, list, values) == [Put(a, list, values) EXCEPT !.op = "putmask"]
Puts ==
  {Put("line", List(<<3, -1, 0>>), <<8, 9>>), Put("line", List(<<1, 4, 2>>), <<8>>), Put("gap", List(<<1, -5>>), <<8>>),
   Mode(Put("gap", List(<<-9, 2, 6>>), <<7, 8, 9>>), "wrap"), Mode(Put("cols", List(<<-9, 4, 9>>), <<8, 9>>), "clip"),
   Put("gap", List(<<1, 2>>), <<>>), Put("line", Unsafe(List(<<1>>)), <<8>>),
   Mask("cols", List(<<1, 0, 1, 0, 1, 1>>), <<8, 9>>), Mask("line", List(<<0, 1, 0, 1>>), <<7, 8, 9>>),
   Mask("gap", List(<<1, 0>>), <<8>>), Mask("line", List(<<1, 1, 1, 1>>), <<>>),
   Mask("line", Unsafe(List(<<1, 1, 1, 1>>)), <<8>>)}

Repeated(a, axis, list) == With(Asked("repeat", <<a>>), axis, list)
Repeats ==
  {Repeated("rows", 1, Just(2)), Repeated("cols", 0, List(<<2, 0, 1>>)), Repeated("cols", None, List(<<0, 1, 2, 0, 0, 1>>)),
   Repeated("rows", 0, List(<<1, -1>>)), Repeated("rows", 0, List(<<1, 1, 1>>)), Repeated("rows", -3, Just(1)),
   Repeated("rows", 0, Just(-1)), Repeated("empty", 1, Just(3)), Repeated("one", None, Unsafe(Just(3))), Repeated("rows", 0, Unsafe(List(<<1, 1>>)))}

ChoiceOf(on, list) == [Asked("choose", on) EXCEPT !.list = list]
Chooses ==
  {ChoiceOf(<<"gap", "pair">>, Grid(<<1, 0, 0, 1>>)), ChoiceOf(<<"one", "back", "pair">>, Just(1)),
   Into(ChoiceOf(<<"pair", "gap">>, List(<<1, 0>>)), "out"), Into(Mode(ChoiceOf(<<"pair", "out">>, Grid(<<-1, 4, 3, 0>>)), "wrap"), "gap"),
   Into(Mode(ChoiceOf(<<"pair", "gap", "one">>, Grid(<<-1, 4, 1, 2>>)), "clip"), "out"),
   Into(ChoiceOf(<<"pair", "gap">>, List(<<1, 2>>)), "out"), Into(ChoiceOf(<<"pair", "one">>, List(<<1, 1>>)), "out"),
   ChoiceOf(<<"rows", "gap">>, Just(0)), ChoiceOf(<<"gap">>, Unsafe(List(<<0, 0>>)))}

SortOf(op, a, axis) == [Asked(op, <<a>>) EXCEPT !.axis = axis]
Sorts ==
  {SortOf("sort", a, -1) : a \in {"cols", "back", "one", "line", "empty"}}
  \cup {SortOf("sort", "rows", 0), SortOf("sort", "rows", 2), Generic(SortOf("sort", "gap", 0)), Generic(SortOf("sort", "cols", 1))}
  \cup {SortOf("argsort", a, 0) : a \in {"rows", "back", "one", "empty"}}
  \cup {SortOf("argsort", "cols", -1), SortOf("argsort", "cols", None), SortOf("argsort", "cols", 2),
        Generic(SortOf("argsort", "gap", 0)), Generic(SortOf("argsort", "gap", None))}
  \cup {[Asked("lexsort", keys) EXCEPT !.axis = 0] : keys \in {<<"rows">>, <<"out", "gap">>, <<"one">>, <<"rows", "cols">>}}
  \cup {[Asked("lexsort", <<"gap", "out">>) EXCEPT !.axis = 1], [Asked("lexsort", <<"rows", "rows">>) EXCEPT !.axis = -1]}

Others ==
  {Mode(Asked("searchsorted", <<a, "cols">>), side) : a \in {"back", "line"}, side \in {"left", "right"}}
  \cup {Asked("nonzero", <<a>>) : a \in {"rows", "cols", "back", "empty"}}
  \cup {Mode(Asked("setflags", <<a>>), mode) : a \in {"out", "back"}, mode \in {"write", "lock"}}

MCRequests == Takes \cup Puts \cup Repeats \cup Chooses \cup Sorts \cup Others

\* The last axis is not the one with the smallest stride.
LastAxisRequests == {[Asked("lexsort", <<"cols">>) EXCEPT !.axis = -1]}

\* setflags(write=False), and putting an item after that.
ReadOnlyRequests == {Mode(Asked("setflags", <<"line">>), "lock"), Put("line", List(<<0>>), <<8>>)}

\* Choices that cannot be broadcast together, with an output array.
OutputRequests == {Into(ChoiceOf(<<"rows", "gap">>, Just(0)), "out")}
==============================================================================
