------------------------------- MODULE Traverse -------------------------------
(***************************************************************************)
(* The cloud playlist on its way from the server's message to the tracks   *)
(* that the schedulers, the downloader and the cleanup see: the playlist   *)
(* object is cut out of the message (update_playlist.c), its JSON tokens   *)
(* are fed to the parser of traverse.c and pdjson_helper.c, which keeps    *)
(* only flags and no structure, and the advertising tracks are searched    *)
(* for one that is due (advertising.c, datetime.c).                        *)
(*                                                                         *)
(* A token is <<"{">>, <<"}">>, <<"[">>, <<"]">>, a number, or a string    *)
(* told apart by what sscanf makes of it: a "date", a "time" or a "str";   *)
(* "lit" is true, false or null.                                           *)
(***************************************************************************)
EXTENDS Integers, Sequences, SequencesExt

CONSTANTS
    MaxAds,  \* ADVERTISING_MAX_TRACKS
    Braced   \* the strings with braces in them, and what their braces do to a count

\* The words of the protocol have no braces in them.
Keys ==
    {"command", "update_playlist", "playlist", "sequence", "name", "any", "items", "enabled",
     "filename", "media_item_id", "type", "background", "advertising",
     "schedule_intervals", "begin", "end", "schedule"}

ASSUME AdsAssumption == MaxAds \in Nat
ASSUME BracedAssumption == Keys \cap DOMAIN Braced = {}

(***************************************************************************)
(* extract_playlist                                                        *)
(***************************************************************************)

\* The braces of a token, counted byte by byte and inside strings too: what they add to
\* the nesting, and the lowest it gets on the way.
Flat == [net |-> 0, low |-> 0]

Level(t) ==
    CASE t = <<"{">> -> [net |-> 1, low |-> 0]
      [] t = <<"}">> -> [net |-> -1, low |-> -1]
      [] Len(t) = 2 /\ t[1] = "str" /\ t[2] \in DOMAIN Braced -> Braced[t[2]]
      [] OTHER -> Flat

\* The bytes of one token: the second brace opens the playlist, the brace that is one too
\* many ends the copy, and if it stands in a string that string is left unfinished.
\* Before the playlist there are only words of the protocol.
ExtractNext(e, t) ==
    LET ends == e.nesting + Level(t).low < 0
    IN  CASE e.done -> e
          [] ~e.done /\ e.braces = 2 ->
                [e EXCEPT !.nesting = e.nesting + Level(t).net, !.done = ends,
                          !.out = IF ends /\ t # <<"}">> THEN @ ELSE Append(@, t)]
          [] ~e.done /\ e.braces < 2 /\ t = <<"{">> ->
                [e EXCEPT !.braces = @ + 1, !.out = IF e.braces = 1 THEN <<t>> ELSE @]
          [] OTHER -> e

ExtractPlaylist(message) ==
    LET e[i \in 0..Len(message)] ==
            IF i = 0 THEN [braces |-> 0, nesting |-> 0, done |-> FALSE, out |-> <<>>]
            ELSE ExtractNext(e[i - 1], message[i])
    IN  e[Len(message)].out

(***************************************************************************)
(* datetime.c                                                              *)
(***************************************************************************)

\* datetime_date_string_to_date_int
DateInt(d) == d.year * 1000 + d.month * 40 + d.day

\* datetime_string_to_seconds_int
SecondsInt(t) == t.h * 3600 + t.m * 60 + t.s

\* What traverse.c stores for a string in a schedule: 0, midnight, if it is no time.
ScheduleSecond(t) == IF t[1] = "time" THEN SecondsInt(t[2]) ELSE 0

(***************************************************************************)
(* traverse_playlist_json                                                  *)
(***************************************************************************)

NoKey == ""
NoFile == ""

IsString(t) == t[1] \in {"str", "date", "time"}
IsWord(t, word) == t[1] = "str" /\ t[2] = word

\* track_free: the number and the type stay.
TrackFree(track) == [track EXCEPT !.file = NoFile, !.intervals = <<>>]

ContextInit ==
    [key |-> NoKey, found |-> {}, searching |-> {}, called |-> FALSE, calls |-> <<>>,
     track |-> [file |-> NoFile, id |-> 0, type |-> "background", intervals |-> <<>>]]

\* on_parse: the value t of the key.
FoundMember(c, t) ==
    CASE c.key = "filename" /\ IsString(t) ->
            [c EXCEPT !.track.file = t[2], !.found = @ \cup {"filename"}]
      [] c.key = "media_item_id" /\ t[1] = "num" ->
            [c EXCEPT !.track.id = t[2], !.found = @ \cup {"id"}]
      [] c.key = "type" /\ t[1] = "str" /\ t[2] \in {"background", "advertising"} ->
            [c EXCEPT !.track.type = t[2], !.found = @ \cup {"type"}]
      [] OTHER -> c

FoundBound(c, t) ==
    LET last == Len(c.track.intervals)
    IN  CASE "schedule_intervals" \in c.searching /\ t[1] = "date" /\ last > 0 /\ c.key = "begin" ->
                [c EXCEPT !.track.intervals[last].begin = DateInt(t[2])]
          [] "schedule_intervals" \in c.searching /\ t[1] = "date" /\ last > 0 /\ c.key = "end" ->
                [c EXCEPT !.track.intervals[last].end = DateInt(t[2])]
          [] OTHER -> c

OnParse(c, t) == FoundBound(FoundMember(c, t), t)

\* pdjson_helper_next: a string without a key before it is the key.
HelperNext(c, t) ==
    CASE c.key # NoKey        -> [OnParse(c, t) EXCEPT !.key = NoKey]
      [] c.key = NoKey /\ t[1] = "str" -> [c EXCEPT !.key = t[2]]
      [] OTHER                -> c

\* pdjson_helper_reset
ResetKey(c) == [c EXCEPT !.key = NoKey]

\* An object inside schedule_intervals is one more interval; its bounds are whatever
\* realloc left there until they are read.
ObjectBegins(c) ==
    IF "schedule_intervals" \in c.searching
    THEN [c EXCEPT !.track.intervals = Append(@, [begin |-> 0, end |-> 0, seconds |-> <<>>])]
    ELSE c

ObjectEnds_KeepsFound(c) == [c EXCEPT !.called = FALSE]

\* The first object that ends after a track was handed out is taken for the track.
ObjectEnds(c) ==
    IF c.called
    THEN [c EXCEPT !.called = FALSE, !.found = {}, !.track = TrackFree(@)]
    ELSE c

ArrayEnds(c) ==
    CASE "schedule" \in c.searching -> [c EXCEPT !.searching = @ \ {"schedule"}]
      [] c.searching = {"schedule_intervals"} ->
            [c EXCEPT !.searching = {}, !.found = @ \cup {"schedule_intervals"}]
      [] OTHER -> c

StringFound(c, t) ==
    LET last == Len(c.track.intervals)
    IN  CASE "schedule" \in c.searching ->
                IF last = 0 THEN c
                ELSE [c EXCEPT !.track.intervals[last].seconds = Append(@, ScheduleSecond(t))]
          [] "schedule" \notin c.searching /\ IsWord(t, "schedule_intervals") ->
                [c EXCEPT !.searching = @ \cup {"schedule_intervals"}]
          [] "schedule" \notin c.searching /\ IsWord(t, "schedule") ->
                [c EXCEPT !.searching = @ \cup {"schedule"}]
          [] OTHER -> HelperNext(c, t)

TrackReady(c) ==
    /\ {"id", "filename", "type"} \subseteq c.found
    /\ c.track.type = "background" \/ "schedule_intervals" \in c.found

HandOut(c) ==
    IF ~c.called /\ TrackReady(c)
    THEN [c EXCEPT !.calls = Append(@, c.track), !.called = TRUE, !.found = {},
                   !.track = TrackFree(@)]
    ELSE c

\* One turn of the loop: json_next returned token t.
TraverseNext(c, t) ==
    HandOut(CASE t = <<"{">>      -> ResetKey(ObjectBegins(c))
              [] t = <<"}">>      -> ResetKey(ObjectEnds(c))
              [] t = <<"[">>      -> ResetKey(c)
              [] t = <<"]">>      -> ResetKey(ArrayEnds(c))
              [] Len(t) = 2 /\ IsString(t)  -> StringFound(c, t)
              [] Len(t) = 2 /\ ~IsString(t) -> HelperNext(c, t))

\* The tracks that the callback is called with, as long as it wants more.
TraversePlaylist(text) ==
    LET c[i \in 0..Len(text)] == IF i = 0 THEN ContextInit ELSE TraverseNext(c[i - 1], text[i])
    IN  c[Len(text)].calls

(***************************************************************************)
(* advertising.c                                                           *)
(***************************************************************************)

\* advertising_init: the first MaxAds advertising tracks.
AdvertisingTracks(tracks) ==
    LET all == SelectSeq(tracks, LAMBDA t : t.type = "advertising")
    IN  SubSeq(all, 1, IF Len(all) < MaxAds THEN Len(all) ELSE MaxAds)

\* An interval holds today and its schedule this second.
IsDue(track, date, second) ==
    \E i \in DOMAIN track.intervals :
        /\ track.intervals[i].begin <= date /\ date <= track.intervals[i].end
        /\ \E k \in DOMAIN track.intervals[i].seconds : track.intervals[i].seconds[k] = second

\* advertising_now: the index of the first advertising track that is due, 0 for NULL.
AdvertisingNow(ads, date, second) ==
    LET due == {j \in DOMAIN ads : IsDue(ads[j], date, second)}
    IN  IF due = {} THEN 0 ELSE CHOOSE j \in due : \A i \in due : j <= i

(***************************************************************************)
(* The playlist as the server writes it: members come in any order.  A     *)
(* document is a record of its tracks, the orders of the members, and      *)
(* whether background tracks carry an empty list of intervals.  The parser *)
(* takes the words "schedule" and "schedule_intervals" for keys wherever   *)
(* they stand: no file may have such a name.  Nor may the braces in a name *)
(* be unbalanced: the copy of the playlist would end too early or too late.*)
(***************************************************************************)

Dates == [day : 1..31, month : 1..12, year : Nat]
Times == [h : 0..23, m : 0..59, s : 0..59]
Intervals == [begin : Dates, end : Dates, times : Seq(Times)]
WrittenTracks ==
    [file : STRING \ {"schedule", "schedule_intervals"}, id : Nat,
     type : {"background", "advertising"}, intervals : Seq(Intervals)]

IsOrder(order, members) ==
    /\ order \in Seq(members)
    /\ \A i, j \in DOMAIN order : order[i] = order[j] => i = j
    /\ \A m \in members : \E i \in DOMAIN order : order[i] = m

TrackMembers == {"filename", "media_item_id", "type", "schedule_intervals"}
IntervalMembers == {"begin", "end", "schedule"}

Even(word) == word \in DOMAIN Braced => Braced[word] = Flat

IsDocument(doc) ==
    /\ doc.tracks \in Seq(WrittenTracks)
    /\ \A i \in DOMAIN doc.tracks :
          /\ Even(doc.tracks[i].file)
          /\ doc.tracks[i].type = "background" => doc.tracks[i].intervals = <<>>
    /\ IsOrder(doc.trackOrder, TrackMembers) /\ IsOrder(doc.intervalOrder, IntervalMembers)
    /\ doc.emptyIntervals \in BOOLEAN

Str(word) == <<"str", word>>
Braces(members) == <<<<"{">>>> \o members \o <<<<"}">>>>
Brackets(items) == <<<<"[">>>> \o items \o <<<<"]">>>>

IntervalMember(interval, member) ==
    CASE member = "begin"    -> <<Str("begin"), <<"date", interval.begin>>>>
      [] member = "end"      -> <<Str("end"), <<"date", interval.end>>>>
      [] member = "schedule" ->
            <<Str("schedule")>>
            \o Brackets([k \in DOMAIN interval.times |-> <<"time", interval.times[k]>>])

IntervalText(interval, doc) ==
    Braces(FlattenSeq([i \in DOMAIN doc.intervalOrder |->
                          IntervalMember(interval, doc.intervalOrder[i])]))

TrackMember(track, doc, member) ==
    CASE member = "filename"      -> <<Str("filename"), Str(track.file)>>
      [] member = "media_item_id" -> <<Str("media_item_id"), <<"num", track.id>>>>
      [] member = "type"          -> <<Str("type"), Str(track.type)>>
      [] member = "schedule_intervals" ->
            IF track.type = "background" /\ ~doc.emptyIntervals THEN <<>>
            ELSE <<Str("schedule_intervals")>>
                 \o Brackets(FlattenSeq([i \in DOMAIN track.intervals |->
                                            IntervalText(track.intervals[i], doc)]))

TrackText(track, doc) ==
    Braces(<<Str("enabled"), <<"lit", "true">>>>
           \o FlattenSeq([i \in DOMAIN doc.trackOrder |->
                             TrackMember(track, doc, doc.trackOrder[i])]))

PlaylistText(doc) ==
    Braces(<<Str("name"), Str("any"), Str("items")>>
           \o Brackets(FlattenSeq([i \in DOMAIN doc.tracks |-> TrackText(doc.tracks[i], doc)])))

\* The command that carries it.
Message(doc) ==
    Braces(<<Str("command"), Str("update_playlist"), Str("playlist")>> \o PlaylistText(doc)
           \o <<Str("sequence"), <<"num", 1>>>>)

\* The tracks of the document with dates and times as the numbers the program compares.
AsTrack(track) ==
    [track EXCEPT !.intervals = [i \in DOMAIN track.intervals |->
        [begin   |-> DateInt(track.intervals[i].begin), end |-> DateInt(track.intervals[i].end),
         seconds |-> [k \in DOMAIN track.intervals[i].times |->
                        SecondsInt(track.intervals[i].times[k])]]]]

AsWritten(doc) == [i \in DOMAIN doc.tracks |-> AsTrack(doc.tracks[i])]

===============================================================================
