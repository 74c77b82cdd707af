--------------------------- MODULE CloudSchedulerMC ---------------------------
\* Playlists of up to three tracks, in every order of their members, for the parser,
\* and two of them to be played.
EXTENDS CloudScheduler

NewYear == [day |-> 1, month |-> 1, year |-> 2019]
LastDay == [day |-> 31, month |-> 12, year |-> 2018]
Noon == [h |-> 12, m |-> 0, s |-> 0]
Morning == [h |-> 8, m |-> 30, s |-> 5]

Span(from, to, times) == [begin |-> from, end |-> to, times |-> times]
Background(f) == [file |-> f, id |-> 1, type |-> "background", intervals |-> <<>>]
Ad(f, n, spans) == [file |-> f, id |-> n, type |-> "advertising", intervals |-> spans]

Kinds(f) ==
    { Background(f), Ad(f, 2, <<>>), Ad(f, 3, <<Span(LastDay, NewYear, <<Noon>>)>>),
      Ad(f, 4, <<Span(LastDay, LastDay, <<>>), Span(NewYear, NewYear, <<Morning, Noon>>)>>) }

Document(list, order, within, empty) ==
    [tracks |-> list, trackOrder |-> order, intervalOrder |-> within, emptyIntervals |-> empty]

Rows ==
    {<<a>> : a \in Kinds("a")} \cup {<<a, b>> : a \in Kinds("a"), b \in Kinds("b")}
    \cup {<<a, b, Background("{c}")>> : a \in Kinds("a"), b \in Kinds("b")}

MCBraced == [f \in {"{c}"} |-> Flat]

Orders == SetToSeqs(TrackMembers)
IntervalOrders == SetToSeqs(IntervalMembers)

First(S) == CHOOSE s \in S : TRUE

PlayedRows ==
    { <<Background("a"), Ad("x", 3, <<Span(LastDay, NewYear, <<Noon>>)>>), Background("b"),
        Ad("y", 4, <<Span(NewYear, NewYear, <<Morning, Noon>>)>>), Background("gone")>>,
      <<Ad("x", 3, <<Span(LastDay, NewYear, <<Noon>>)>>)>> }

MCWalked == {Document(l, First(Orders), First(IntervalOrders), FALSE) : l \in PlayedRows}

MCDocuments ==
    MCWalked \cup
    {Document(l, o, w, e) : l \in Rows, o \in Orders, w \in IntervalOrders, e \in BOOLEAN}

MCNows == {[date |-> NewYear, time |-> Noon], [date |-> NewYear, time |-> Morning],
           [date |-> LastDay, time |-> Morning]}

===============================================================================
