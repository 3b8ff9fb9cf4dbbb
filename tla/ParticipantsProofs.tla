-------------------------- MODULE ParticipantsProofs --------------------------
(***************************************************************************)
(* The list of remote participants follows the server through every way    *)
(* the connection is replaced, for any participants and tracks and any     *)
(* number of changes, reconnections and media tracks.                      *)
(***************************************************************************)
EXTENDS Participants, SequenceTheorems, TLAPS

-----------------------------------------------------------------------------
(* The inductive invariant.                                                 *)

(* The events of the server mention a participant once; only the engine's   *)
(* own Restarting is not one of them.                                       *)
SingleEvent ==
  {e \in InboxEvent : /\ \A a, b \in e.infos : a.identity = b.identity => a = b
                      /\ e.type = "restarting" => e = RestartingEvent}
ServerEvent == {e \in SingleEvent : e.type # "restarting"}

(* An event that does not mention p, and events of which none does.         *)
Mentions(e, p) == \E info \in e.infos : info.identity = p
Silent(q, p) == \A i \in DOMAIN q : ~ Mentions(q[i], p)

(* An event says what the server knows of p, if it has a sid, or that p is  *)
(* gone; and the last of a sequence of events that mentions p says so.      *)
Speaks(info, p, view) ==
  info.identity = p /\ (IF view.sid = 0 THEN info.gone ELSE info = InfoOf(p, view))
Says(e, p, view) == \E info \in e.infos : Speaks(info, p, view)
LastSays(q, p, view) ==
  \E i \in DOMAIN q :
    /\ Says(q[i], p, view)
    /\ \A j \in DOMAIN q : j > i => ~ Mentions(q[j], p)

(* An entry of the list, as it is typed.                                    *)
Entry == {l \in [known : BOOLEAN, objects : Seq(Object)] : l.known => l.objects # <<>>}

(* What the room lists of p is what the server has, but for the tracks put. *)
Matches(l, view, put) ==
  IF view.sid = 0 THEN ~l.known
  ELSE /\ l.known
       /\ LastOf(l.objects).sid = view.sid
       /\ LastOf(l.objects).published \ put = view.tracks \ put

(* The objects of p that are not listed any more have no publications.      *)
Bare(l, p, races) ==
  \A i \in DOMAIN l.objects :
    i < Len(l.objects) \/ ~l.known => \A t \in l.objects[i].published : <<p, i, t>> \in races

(* The room follows the server: the last event on its way that mentions p   *)
(* says what the server has, or there is none and the room lists it.        *)
Follows(first, then, p, view, l, put) ==
  \/ LastSays(then, p, view)
  \/ Silent(then, p) /\ LastSays(first, p, view)
  \/ Silent(then, p) /\ Silent(first, p) /\ Matches(l, view, put)

NobodyKnown == \A p \in Identity : ~list[p].known
PutOf(p) == Raced(p, Len(list[p].objects))

(* Restarting, while it waits in the inbox, is the last event there.        *)
RestartingLast(q) == q # <<>> /\ q[Len(q)] = RestartingEvent

HeldForLater == link \in {"up", "leaving", "joining"} => held = <<>>
EventsAreSingle ==
  /\ held \in Seq(ServerEvent) /\ inbox \in Seq(SingleEvent)
  /\ link # "leaving" => inbox \in Seq(ServerEvent)
EverybodyFollows ==
  link \in {"up", "resuming", "joined"} =>
    \A p \in Identity : (there[p].sid # 0 \/ ~mixed) =>
      Follows(inbox, held, p, there[p], list[p], PutOf(p))
LeavingRemoves ==
  link = "leaving" /\ ~mixed => RestartingLast(inbox) \/ (inbox = <<>> /\ NobodyKnown)
JoiningIsEmpty == link = "joining" /\ ~mixed => inbox = <<>> /\ NobodyKnown

ParticipantsInv ==
  /\ ParticipantsTypeOK
  /\ HeldForLater /\ EventsAreSingle
  /\ EverybodyFollows /\ LeavingRemoves /\ JoiningIsEmpty
  /\ GoneHaveNothing

-----------------------------------------------------------------------------
(* Sequences of events.                                                     *)

(* The places of a sequence, and those of its tail.                         *)
LEMMA TailPlaces ==
  ASSUME NEW E, NEW s \in Seq(E), s # <<>>
  PROVE  /\ DOMAIN s = 1 .. Len(s) /\ DOMAIN Tail(s) = 1 .. Len(s) - 1 /\ Len(s) \in Nat
         /\ 1 \in DOMAIN s /\ Head(s) = s[1] /\ Len(Tail(s)) = Len(s) - 1
         /\ Head(s) \in E /\ Tail(s) \in Seq(E)
         /\ \A i \in DOMAIN Tail(s) : i + 1 \in DOMAIN s /\ Tail(s)[i] = s[i + 1] /\ i \in Nat
         /\ \A i \in DOMAIN s : i # 1 => i - 1 \in DOMAIN Tail(s) /\ s[i] = Tail(s)[i - 1]
<1>1. /\ Head(s) = s[1] /\ 1 \in 1 .. Len(s) /\ Head(s) \in E
      /\ Tail(s) \in Seq(E) /\ Len(Tail(s)) = Len(s) - 1
      /\ \A i \in 1 .. Len(s) - 1 : Tail(s)[i] = s[i + 1] /\ i + 1 \in 1 .. Len(s)
  BY HeadTailProperties, LenProperties, EmptySeq
<1>2. DOMAIN s = 1 .. Len(s) /\ DOMAIN Tail(s) = 1 .. Len(s) - 1 /\ Len(s) \in Nat
  BY <1>1, LenProperties
<1>3. \A i \in 1 .. Len(s) : i # 1 => i - 1 \in 1 .. Len(s) - 1 /\ (i - 1) + 1 = i
  BY <1>2
<1> QED
  BY <1>1, <1>2, <1>3

(* Appending keeps the places and adds one.                                 *)
LEMMA AppendPlaces ==
  ASSUME NEW E, NEW s \in Seq(E), NEW e \in E
  PROVE  /\ DOMAIN s = 1 .. Len(s) /\ DOMAIN Append(s, e) = 1 .. Len(s) + 1 /\ Len(s) \in Nat
         /\ Append(s, e) \in Seq(E) /\ Append(s, e) # <<>> /\ Len(Append(s, e)) = Len(s) + 1
         /\ \A i \in DOMAIN s : i \in DOMAIN Append(s, e) /\ Append(s, e)[i] = s[i] /\ i # Len(s) + 1
         /\ Append(s, e)[Len(s) + 1] = e /\ Len(s) + 1 \in DOMAIN Append(s, e)
         /\ \A i \in DOMAIN Append(s, e) : i \in DOMAIN s \/ i = Len(s) + 1
<1>1. /\ Append(s, e) \in Seq(E) /\ Len(Append(s, e)) = Len(s) + 1
      /\ \A i \in 1 .. Len(s) : Append(s, e)[i] = s[i]
      /\ Append(s, e)[Len(s) + 1] = e /\ Append(s, e) # <<>>
      /\ Len(s) \in Nat /\ DOMAIN s = 1 .. Len(s)
  BY AppendProperties, LenProperties
<1>2. DOMAIN Append(s, e) = 1 .. Len(s) + 1
  BY <1>1, LenProperties
<1> QED
  BY <1>1, <1>2

(* Behind the places of the first sequence are those of the second.         *)
LEMMA BothPlaces ==
  ASSUME NEW E, NEW s \in Seq(E), NEW t \in Seq(E)
  PROVE  /\ DOMAIN s = 1 .. Len(s) /\ DOMAIN t = 1 .. Len(t) /\ Len(s) \in Nat /\ Len(t) \in Nat
         /\ \A i \in DOMAIN s : i \in DOMAIN (s \o t) /\ (s \o t)[i] = s[i]
         /\ \A i \in DOMAIN t : i + Len(s) \in DOMAIN (s \o t) /\ (s \o t)[i + Len(s)] = t[i]
         /\ \A i \in DOMAIN (s \o t) :
              i \in DOMAIN s \/ (\E j \in DOMAIN t : i = j + Len(s) /\ i \notin DOMAIN s)
<1>1. /\ s \o t \in Seq(E) /\ Len(s \o t) = Len(s) + Len(t)
      /\ \A i \in 1 .. Len(s) + Len(t) : (s \o t)[i] = IF i <= Len(s) THEN s[i] ELSE t[i - Len(s)]
      /\ DOMAIN s = 1 .. Len(s) /\ DOMAIN t = 1 .. Len(t) /\ Len(s) \in Nat /\ Len(t) \in Nat
  BY ConcatProperties, LenProperties
<1>2. DOMAIN (s \o t) = 1 .. Len(s) + Len(t)
  BY <1>1, LenProperties
<1>3. \A i \in 1 .. Len(t) : /\ i + Len(s) \in 1 .. Len(s) + Len(t)
                             /\ ~ (i + Len(s) <= Len(s)) /\ (i + Len(s)) - Len(s) = i
  BY <1>1
<1>4. \A i \in 1 .. Len(s) : i \in 1 .. Len(s) + Len(t) /\ i <= Len(s)
  BY <1>1
<1>5. ASSUME NEW i \in 1 .. Len(s) + Len(t), i \notin 1 .. Len(s)
      PROVE  \E j \in 1 .. Len(t) : i = j + Len(s)
  <2>1. i - Len(s) \in 1 .. Len(t) /\ i = (i - Len(s)) + Len(s)
    BY <1>1, <1>5
  <2> QED
    BY <2>1
<1> QED
  BY <1>1, <1>2, <1>3, <1>4, <1>5

(* What appended events, a handled one and joined sequences say of p.       *)
LEMMA AppendSays ==
  ASSUME NEW E, NEW q \in Seq(E), NEW e \in E, NEW p, NEW view
  PROVE  /\ Says(e, p, view) => LastSays(Append(q, e), p, view)
         /\ ~ Mentions(e, p) /\ LastSays(q, p, view) => LastSays(Append(q, e), p, view)
         /\ ~ Mentions(e, p) /\ Silent(q, p) => Silent(Append(q, e), p)
BY AppendPlaces DEF LastSays, Silent

(* The head of a sequence is the last that mentions p, or one behind it is. *)
LEMMA TailSays ==
  ASSUME NEW E, NEW q \in Seq(E), q # <<>>, NEW p, NEW view
  PROVE  /\ LastSays(q, p, view) =>
              LastSays(Tail(q), p, view) \/ (Silent(Tail(q), p) /\ Says(Head(q), p, view))
         /\ Silent(q, p) => Silent(Tail(q), p) /\ ~ Mentions(Head(q), p)
<1>1. ASSUME LastSays(q, p, view)
      PROVE  LastSays(Tail(q), p, view) \/ (Silent(Tail(q), p) /\ Says(Head(q), p, view))
  <2>1. PICK i \in DOMAIN q : /\ Says(q[i], p, view)
                              /\ \A j \in DOMAIN q : j > i => ~ Mentions(q[j], p)
    BY <1>1 DEF LastSays
  <2>2. CASE i = 1
    <3>1. \A j \in DOMAIN Tail(q) : j + 1 \in DOMAIN q /\ j + 1 > 1 /\ Tail(q)[j] = q[j + 1]
      BY TailPlaces
    <3> QED
      BY <2>1, <2>2, <3>1, TailPlaces DEF Silent
  <2>3. CASE i # 1
    <3>1. i - 1 \in DOMAIN Tail(q) /\ q[i] = Tail(q)[i - 1]
      BY <2>3, TailPlaces
    <3>2. \A j \in DOMAIN Tail(q) : j > i - 1 => j + 1 \in DOMAIN q /\ j + 1 > i /\ Tail(q)[j] = q[j + 1]
      BY TailPlaces
    <3> QED
      BY <2>1, <3>1, <3>2 DEF LastSays
  <2> QED
    BY <2>2, <2>3
<1>2. Silent(q, p) => Silent(Tail(q), p) /\ ~ Mentions(Head(q), p)
  BY TailPlaces DEF Silent
<1> QED
  BY <1>1, <1>2

(* Two sequences, one behind the other.                                     *)
LEMMA BothSay ==
  ASSUME NEW E, NEW s \in Seq(E), NEW t \in Seq(E), NEW p, NEW view
  PROVE  /\ LastSays(t, p, view) => LastSays(s \o t, p, view)
         /\ Silent(t, p) /\ LastSays(s, p, view) => LastSays(s \o t, p, view)
         /\ Silent(t, p) /\ Silent(s, p) => Silent(s \o t, p)
<1> DEFINE b == s \o t
<1>0. /\ DOMAIN s = 1 .. Len(s) /\ DOMAIN t = 1 .. Len(t) /\ Len(s) \in Nat /\ Len(t) \in Nat
      /\ \A i \in DOMAIN s : i \in DOMAIN b /\ b[i] = s[i]
      /\ \A i \in DOMAIN t : i + Len(s) \in DOMAIN b /\ b[i + Len(s)] = t[i]
      /\ \A i \in DOMAIN b :
           i \in DOMAIN s \/ (\E j \in DOMAIN t : i = j + Len(s) /\ i \notin DOMAIN s)
  BY BothPlaces
<1> HIDE DEF b
<1>1. ASSUME LastSays(t, p, view) PROVE LastSays(b, p, view)
  <2>1. PICK i \in DOMAIN t : /\ Says(t[i], p, view)
                              /\ \A j \in DOMAIN t : j > i => ~ Mentions(t[j], p)
    BY <1>1 DEF LastSays
  <2>2. ASSUME NEW j \in DOMAIN b, j > i + Len(s) PROVE ~ Mentions(b[j], p)
    <3>1. j \notin DOMAIN s
      BY <1>0, <2>2
    <3>2. PICK k \in DOMAIN t : j = k + Len(s)
      BY <1>0, <3>1
    <3>3. k > i
      BY <1>0, <2>2, <3>2
    <3> QED
      BY <1>0, <2>1, <3>2, <3>3
  <2> QED
    BY <1>0, <2>1, <2>2 DEF LastSays
<1>2. ASSUME Silent(t, p), LastSays(s, p, view) PROVE LastSays(b, p, view)
  BY <1>0, <1>2 DEF LastSays, Silent
<1>3. ASSUME Silent(t, p), Silent(s, p) PROVE Silent(b, p)
  BY <1>0, <1>3 DEF Silent
<1> QED
  BY <1>1, <1>2, <1>3 DEF b

-----------------------------------------------------------------------------
(* Entries of the list.                                                     *)

(* Changing one object of an entry leaves the others.                       *)
LEMMA ObjectChanged ==
  ASSUME NEW s \in Seq(Object), NEW k \in DOMAIN s, NEW o \in Object
  PROVE  /\ [s EXCEPT ![k] = o] \in Seq(Object) /\ Len([s EXCEPT ![k] = o]) = Len(s)
         /\ DOMAIN [s EXCEPT ![k] = o] = DOMAIN s /\ [s EXCEPT ![k] = o] # <<>>
         /\ [s EXCEPT ![k] = o][k] = o
         /\ \A i \in DOMAIN s : i # k => [s EXCEPT ![k] = o][i] = s[i]
         /\ DOMAIN s = 1 .. Len(s) /\ Len(s) \in Nat /\ s[k] \in Object
BY ExceptSeq, LenProperties, ElementOfSeq, EmptySeq

(* An entry that is known has a last object.                                *)
LEMMA LastObject ==
  ASSUME NEW s \in Seq(Object), s # <<>>
  PROVE  /\ Len(s) \in DOMAIN s /\ LastOf(s) = s[Len(s)] /\ LastOf(s) \in Object
         /\ Len(s) \in Nat /\ DOMAIN s = 1 .. Len(s)
BY EmptySeq, LenProperties, ElementOfSeq DEF LastOf

(* A participant that is removed is left without publications.              *)
LEMMA DisconnectedIs ==
  ASSUME NEW l \in Entry, l.known, NEW p, NEW races, Bare(l, p, races)
  PROVE  /\ Disconnected(l) \in Entry /\ ~ Disconnected(l).known
         /\ Len(Disconnected(l).objects) = Len(l.objects)
         /\ Bare(Disconnected(l), p, races)
<1> DEFINE s == l.objects
           k == Len(s)
           o == [s[k] EXCEPT !.published = {}, !.subscribed = {}]
           d == [s EXCEPT ![k] = o]
<1>1. s \in Seq(Object) /\ s # <<>> /\ l.known \in BOOLEAN
  BY DEF Entry
<1>2. k \in DOMAIN s /\ s[k] \in Object
  BY <1>1, LastObject
<1>3. o \in Object /\ o.published = {}
  BY <1>2 DEF Object
<1>4. Disconnected(l) = [known |-> FALSE, objects |-> d]
  BY DEF Disconnected
<1>5. \A i \in DOMAIN s : i < Len(s) => \A t \in s[i].published : <<p, i, t>> \in races
  BY DEF Bare
<1> HIDE DEF o, s
<1>6. /\ d \in Seq(Object) /\ Len(d) = Len(s) /\ DOMAIN d = DOMAIN s /\ d[k] = o
      /\ \A i \in DOMAIN s : i # k => d[i] = s[i]
      /\ DOMAIN s = 1 .. Len(s) /\ Len(s) \in Nat
  BY <1>1, <1>2, <1>3, ObjectChanged
<1> HIDE DEF d
<1>7. \A i \in DOMAIN d : \A t \in d[i].published : <<p, i, t>> \in races
  <2>1. TAKE i \in DOMAIN d
  <2>2. CASE i = k
    BY <1>3, <1>6, <2>2
  <2>3. CASE i # k
    <3>1. i \in DOMAIN s /\ i < Len(s) /\ d[i] = s[i]
      BY <1>6, <2>3
    <3> QED
      BY <1>5, <3>1
  <2> QED
    BY <2>2, <2>3
<1>8. Disconnected(l).objects = d /\ Disconnected(l).known = FALSE
  BY <1>4
<1>9. Disconnected(l) \in Entry
  BY <1>4, <1>6 DEF Entry
<1>10. Bare(Disconnected(l), p, races)
  BY <1>7, <1>8 DEF Bare
<1> QED
  BY <1>6, <1>8, <1>9, <1>10 DEF s

(* A participant that is created has a new object, which is the last.       *)
LEMMA CreatedIs ==
  ASSUME NEW l \in Entry, ~ l.known, NEW p, NEW races, Bare(l, p, races), NEW sid \in 1 .. MaxSid
  PROVE  /\ Created(l, sid) \in Entry /\ Created(l, sid).known
         /\ LastOf(Created(l, sid).objects).sid = sid
         /\ Len(Created(l, sid).objects) = Len(l.objects) + 1
         /\ Bare(Created(l, sid), p, races)
<1> DEFINE s == l.objects
           o == [sid |-> sid, published |-> {}, subscribed |-> {}]
           c == Append(s, o)
<1>1. s \in Seq(Object) /\ o \in Object /\ o.sid = sid
  BY DEF Entry, Object
<1>2. Created(l, sid) = [known |-> TRUE, objects |-> c]
  BY DEF Created
<1>3. \A i \in DOMAIN s : \A t \in s[i].published : <<p, i, t>> \in races
  BY DEF Bare
<1> HIDE DEF s, o
<1>4. /\ c \in Seq(Object) /\ c # <<>> /\ Len(c) = Len(s) + 1 /\ c[Len(s) + 1] = o
      /\ \A i \in DOMAIN s : c[i] = s[i]
      /\ \A i \in DOMAIN c : i \in DOMAIN s \/ i = Len(s) + 1
      /\ Len(s) \in Nat
  BY <1>1, AppendPlaces
<1> HIDE DEF c
<1>5. Created(l, sid).known /\ Created(l, sid).objects = c /\ Created(l, sid) \in Entry
  BY <1>2, <1>4 DEF Entry
<1>6. LastOf(c).sid = sid
  BY <1>1, <1>4 DEF LastOf
<1>7. \A i \in DOMAIN c : i < Len(c) => \A t \in c[i].published : <<p, i, t>> \in races
  BY <1>3, <1>4
<1> QED
  BY <1>4, <1>5, <1>6, <1>7 DEF Bare, s

(* An update gives the last object the tracks of the server.                *)
LEMMA WithTracksIs ==
  ASSUME NEW l \in Entry, l.known, NEW p, NEW races, Bare(l, p, races),
         NEW tracks \in SUBSET RemoteTrack
  PROVE  /\ WithTracks(l, tracks) \in Entry /\ WithTracks(l, tracks).known
         /\ LastOf(WithTracks(l, tracks).objects).sid = LastOf(l.objects).sid
         /\ LastOf(WithTracks(l, tracks).objects).published = tracks
         /\ Len(WithTracks(l, tracks).objects) = Len(l.objects)
         /\ Bare(WithTracks(l, tracks), p, races)
<1> DEFINE s == l.objects
           k == Len(s)
           o == [s[k] EXCEPT !.published = tracks, !.subscribed = @ \cap tracks]
           d == [s EXCEPT ![k] = o]
<1>1. s \in Seq(Object) /\ s # <<>> /\ l \in [known : BOOLEAN, objects : Seq(Object)]
  BY DEF Entry
<1>2. k \in DOMAIN s /\ s[k] \in Object /\ LastOf(s) = s[k]
  BY <1>1, LastObject
<1>3. o \in Object /\ o.published = tracks /\ o.sid = s[k].sid
  BY <1>2 DEF Object
<1>4. WithTracks(l, tracks) = [l EXCEPT !.objects = d]
  BY <1>1, <1>2 DEF WithTracks
<1>5. \A i \in DOMAIN s : i < Len(s) => \A t \in s[i].published : <<p, i, t>> \in races
  BY DEF Bare
<1> DEFINE w == WithTracks(l, tracks)
<1>6. w.objects = d /\ w.known = l.known /\ w = [known |-> l.known, objects |-> d]
  BY <1>1, <1>4
<1> HIDE DEF o, s, w
<1>7. /\ d \in Seq(Object) /\ Len(d) = Len(s) /\ DOMAIN d = DOMAIN s /\ d[k] = o /\ d # <<>>
      /\ \A i \in DOMAIN s : i # k => d[i] = s[i]
      /\ DOMAIN s = 1 .. Len(s) /\ Len(s) \in Nat
  BY <1>1, <1>2, <1>3, ObjectChanged
<1> HIDE DEF d
<1>8. \A i \in DOMAIN d : i < Len(d) => \A t \in d[i].published : <<p, i, t>> \in races
  BY <1>5, <1>7
<1>9. LastOf(d) = o
  BY <1>7 DEF LastOf
<1>10. w \in Entry /\ w.known
  BY <1>6, <1>7 DEF Entry
<1>11. Bare(w, p, races)
  BY <1>6, <1>8, <1>10 DEF Bare
<1> QED
  BY <1>2, <1>3, <1>6, <1>7, <1>9, <1>10, <1>11 DEF s, w

(* After an update the entry is what the update says.                       *)
LEMMA UpdatedIs ==
  ASSUME NEW l \in Entry, NEW info \in Info, NEW p, NEW races, Bare(l, p, races)
  PROVE  /\ Updated(l, info) \in Entry
         /\ Len(Updated(l, info).objects) >= Len(l.objects)
         /\ Bare(Updated(l, info), p, races)
         /\ info.gone => ~ Updated(l, info).known
         /\ ~ info.gone => /\ Updated(l, info).known
                           /\ LastOf(Updated(l, info).objects).sid = info.sid
                           /\ LastOf(Updated(l, info).objects).published = info.tracks
<1> DEFINE other == l.known /\ LastOf(l.objects).sid # info.sid
           rest == IF other THEN Disconnected(l) ELSE l
           made == Created(rest, info.sid)
<1>0. /\ info.sid \in 1 .. MaxSid /\ info.tracks \in SUBSET RemoteTrack /\ info.gone \in BOOLEAN
      /\ l.objects \in Seq(Object)
  BY DEF Info, Entry
<1>1. /\ rest \in Entry /\ Len(rest.objects) = Len(l.objects) /\ Bare(rest, p, races)
      /\ rest.known => LastOf(rest.objects).sid = info.sid
  <2>1. CASE other
    BY <2>1, DisconnectedIs
  <2>2. CASE ~ other
    BY <2>2
  <2> QED
    BY <2>1, <2>2
<1>2. /\ info.gone /\ rest.known => Updated(l, info) = Disconnected(rest)
      /\ info.gone /\ ~ rest.known => Updated(l, info) = rest
      /\ ~ info.gone /\ rest.known => Updated(l, info) = WithTracks(rest, info.tracks)
      /\ ~ info.gone /\ ~ rest.known => Updated(l, info) = WithTracks(made, info.tracks)
  BY DEF Updated
<1> HIDE DEF rest
<1>3. Len(l.objects) \in Nat
  BY <1>0, LenProperties
<1>4. CASE info.gone /\ rest.known
  BY <1>1, <1>2, <1>3, <1>4, DisconnectedIs
<1>5. CASE info.gone /\ ~ rest.known
  BY <1>1, <1>2, <1>3, <1>5
<1>6. CASE ~ info.gone /\ rest.known
  BY <1>0, <1>1, <1>2, <1>3, <1>6, WithTracksIs
<1>7. CASE ~ info.gone /\ ~ rest.known
  <2>1. /\ made \in Entry /\ made.known /\ LastOf(made.objects).sid = info.sid
        /\ Len(made.objects) = Len(l.objects) + 1 /\ Bare(made, p, races)
    BY <1>0, <1>1, <1>7, CreatedIs
  <2> HIDE DEF made
  <2> QED
    BY <1>0, <1>2, <1>3, <1>7, <2>1, WithTracksIs
<1> QED
  BY <1>0, <1>4, <1>5, <1>6, <1>7

(* What an update says of p, the entry matches afterwards.                  *)
LEMMA UpdatedMatches ==
  ASSUME NEW l \in Entry, NEW info \in Info, NEW p, NEW races, Bare(l, p, races),
         NEW view, view.sid \in 0 .. MaxSid, Speaks(info, p, view), NEW put
  PROVE  Matches(Updated(l, info), view, put)
<1>1. CASE view.sid = 0
  BY <1>1, UpdatedIs DEF Matches, Speaks
<1>2. CASE view.sid # 0
  <2>1. info = InfoOf(p, view)
    BY <1>2 DEF Speaks
  <2>2. ~ info.gone /\ info.sid = view.sid /\ info.tracks = view.tracks
    BY <2>1 DEF InfoOf
  <2> QED
    BY <1>2, <2>2, UpdatedIs DEF Matches
<1> QED
  BY <1>1, <1>2

(* A task that subscribes puts its track back at most where it is raced.    *)
SubscribedAt(l, i, t) ==
  LET o == l.objects[i] IN
  [l EXCEPT !.objects[i] = [o EXCEPT !.published = @ \cup {t}, !.subscribed = @ \cup {t}]]
RacesAt(l, p, i, t, races) == IF t \in l.objects[i].published THEN races ELSE races \cup {<<p, i, t>>}

(* The entry changes only by the track put.                                 *)
LEMMA SubscribedIs ==
  ASSUME NEW l \in Entry, NEW i \in DOMAIN l.objects, NEW t \in RemoteTrack, NEW p, NEW races
  PROVE  /\ SubscribedAt(l, i, t) \in Entry
         /\ SubscribedAt(l, i, t).known = l.known
         /\ Len(SubscribedAt(l, i, t).objects) = Len(l.objects)
         /\ Bare(l, p, races) => Bare(SubscribedAt(l, i, t), p, RacesAt(l, p, i, t, races))
         /\ LastOf(SubscribedAt(l, i, t).objects).sid = LastOf(l.objects).sid
         /\ i # Len(l.objects) => LastOf(SubscribedAt(l, i, t).objects) = LastOf(l.objects)
         /\ i = Len(l.objects) => LastOf(SubscribedAt(l, i, t).objects).published
                                    = LastOf(l.objects).published \cup {t}
<1> DEFINE s == l.objects
           k == Len(s)
           o == [s[i] EXCEPT !.published = @ \cup {t}, !.subscribed = @ \cup {t}]
           d == [s EXCEPT ![i] = o]
           w == SubscribedAt(l, i, t)
<1>1. s \in Seq(Object) /\ l \in [known : BOOLEAN, objects : Seq(Object)]
  BY DEF Entry
<1>2. s[i] \in Object /\ i \in 1 .. Len(s) /\ Len(s) \in Nat
  BY <1>1, ElementOfSeq, LenProperties
<1>3. o \in Object /\ o.published = s[i].published \cup {t} /\ o.sid = s[i].sid
  BY <1>2 DEF Object
<1>4. w = [l EXCEPT !.objects = d]
  BY <1>1, <1>2 DEF SubscribedAt
<1>5. w.objects = d /\ w.known = l.known /\ w = [known |-> l.known, objects |-> d]
  BY <1>1, <1>4
<1> DEFINE r == RacesAt(l, p, i, t, races)
<1>6. races \subseteq r /\ (t \in s[i].published \/ <<p, i, t>> \in r)
  BY DEF RacesAt
<1>7. ASSUME Bare(l, p, races)
      PROVE  \A j \in DOMAIN s : j < Len(s) \/ ~ l.known =>
               \A u \in s[j].published : <<p, j, u>> \in races
  BY <1>7 DEF Bare
<1> HIDE DEF o, s, w, r
<1>8. /\ d \in Seq(Object) /\ Len(d) = Len(s) /\ DOMAIN d = DOMAIN s /\ d[i] = o /\ d # <<>>
      /\ \A j \in DOMAIN s : j # i => d[j] = s[j]
      /\ DOMAIN s = 1 .. Len(s) /\ Len(s) \in Nat
  BY <1>1, <1>2, <1>3, ObjectChanged
<1> HIDE DEF d
<1>9. w \in Entry
  BY <1>1, <1>5, <1>8 DEF Entry
<1>10. Bare(l, p, races) => Bare(w, p, r)
  <2>1. ASSUME Bare(l, p, races), NEW j \in DOMAIN d, j < Len(d) \/ ~ l.known, NEW u \in d[j].published
        PROVE  <<p, j, u>> \in r
    <3>1. CASE j # i
      BY <1>6, <1>7, <1>8, <2>1, <3>1
    <3>2. CASE j = i
      <4>1. u \in s[i].published \/ u = t
        BY <1>3, <1>8, <2>1, <3>2
      <4>2. u \in s[i].published => <<p, i, u>> \in r
        BY <1>6, <1>7, <1>8, <2>1, <3>2
      <4> QED
        BY <1>6, <3>2, <4>1, <4>2
    <3> QED
      BY <3>1, <3>2
  <2> QED
    BY <1>5, <2>1 DEF Bare
<1>11. /\ LastOf(d) = d[k] /\ LastOf(s) = s[k] /\ k \in DOMAIN s
  BY <1>2, <1>8 DEF LastOf
<1> QED
  BY <1>3, <1>5, <1>8, <1>9, <1>10, <1>11 DEF s, w, r

(* What the room lists still is what the server has.                        *)
LEMMA SubscribedMatches ==
  ASSUME NEW l \in Entry, NEW i \in DOMAIN l.objects, NEW t \in RemoteTrack, NEW p, NEW races,
         NEW view, Matches(l, view, {u \in RemoteTrack : <<p, Len(l.objects), u>> \in races})
  PROVE  LET m == SubscribedAt(l, i, t) IN
         Matches(m, view, {u \in RemoteTrack :
                             <<p, Len(m.objects), u>> \in RacesAt(l, p, i, t, races)})
<1> DEFINE m == SubscribedAt(l, i, t)
           k == Len(l.objects)
           r == RacesAt(l, p, i, t, races)
           put == {u \in RemoteTrack : <<p, k, u>> \in races}
           newPut == {u \in RemoteTrack : <<p, k, u>> \in r}
<1>1. /\ m.known = l.known /\ Len(m.objects) = k
      /\ LastOf(m.objects).sid = LastOf(l.objects).sid
      /\ i # k => LastOf(m.objects) = LastOf(l.objects)
      /\ i = k => LastOf(m.objects).published = LastOf(l.objects).published \cup {t}
  BY SubscribedIs
<1>2. CASE view.sid = 0
  BY <1>1, <1>2 DEF Matches
<1>3. CASE view.sid # 0
  <2>1. /\ l.known /\ LastOf(l.objects).sid = view.sid
        /\ LastOf(l.objects).published \ put = view.tracks \ put
    BY <1>3 DEF Matches
  <2>2. LastOf(m.objects).published \ newPut = view.tracks \ newPut
    <3>1. CASE i # k
      <4>1. newPut = put
        BY <3>1 DEF RacesAt
      <4> QED
        BY <1>1, <2>1, <3>1, <4>1
    <3>2. CASE i = k /\ t \in l.objects[i].published
      <4>1. newPut = put
        BY <3>2 DEF RacesAt
      <4>2. LastOf(m.objects).published = LastOf(l.objects).published
        BY <1>1, <3>2 DEF LastOf
      <4> QED
        BY <2>1, <4>1, <4>2
    <3>3. CASE i = k /\ t \notin l.objects[i].published
      <4>1. newPut = put \cup {t}
        BY <3>3 DEF RacesAt
      <4>2. LastOf(m.objects).published = LastOf(l.objects).published \cup {t}
        BY <1>1, <3>3
      <4> HIDE DEF m, newPut, put
      <4> QED
        BY <2>1, <4>1, <4>2
    <3> QED
      BY <3>1, <3>2, <3>3
  <2> HIDE DEF newPut, put
  <2>3. Matches(m, view, newPut)
    BY <1>1, <1>3, <2>1, <2>2 DEF Matches
  <2> QED
    BY <1>1, <2>3 DEF newPut
<1> QED
  BY <1>2, <1>3

-----------------------------------------------------------------------------
(* The steps of the server and of the connection.                           *)

(* The types, with those of the entries.                                    *)
LEMMA TypesAre ==
  ASSUME ParticipantsTypeOK
  PROVE  /\ list \in [Identity -> Entry]
         /\ there \in [Identity -> [sid : 0..MaxSid, tracks : SUBSET RemoteTrack]]
         /\ link \in {"up", "resuming", "leaving", "joining", "joined"}
         /\ mixed \in BOOLEAN
         /\ \A p \in Identity : there[p].sid \in 0 .. MaxSid /\ there[p].tracks \in SUBSET RemoteTrack
BY DEF ParticipantsTypeOK, Entry

(* What Told does, by the state of the connection.                          *)
LEMMA ToldIs ==
  ASSUME NEW info, Told(info), link \in {"up", "resuming", "leaving", "joining", "joined"}
  PROVE  LET e == [type |-> "update", infos |-> {info}] IN
         /\ link \in {"up", "leaving"} =>
              inbox' = Append(inbox, e) /\ held' = held /\ mixed' = (mixed \/ link = "leaving")
         /\ link \in {"resuming", "joined"} =>
              held' = Append(held, e) /\ inbox' = inbox /\ mixed' = mixed
         /\ link = "joining" => inbox' = inbox /\ held' = held /\ mixed' = mixed
<1>1. CASE link = "up"
  BY <1>1 DEF Told
<1>2. CASE link = "leaving"
  BY <1>2 DEF Told
<1>3. CASE link = "resuming"
  BY <1>3 DEF Told
<1>4. CASE link = "joined"
  BY <1>4 DEF Told
<1>5. CASE link = "joining"
  BY <1>5 DEF Told
<1> QED
  BY <1>1, <1>2, <1>3, <1>4, <1>5

(* An update is an event of the server.                                     *)
LEMMA UpdateIsEvent ==
  ASSUME NEW p, NEW view, NEW info \in Info, Speaks(info, p, view)
  PROVE  LET e == [type |-> "update", infos |-> {info}] IN
         /\ e \in ServerEvent /\ e \in SingleEvent /\ e \in InboxEvent
         /\ Says(e, p, view)
         /\ \A q : q # p => ~ Mentions(e, q)
BY DEF InboxEvent, SingleEvent, ServerEvent, Speaks, Says, Mentions

(* A change of the server's view of p that it tells: p follows the update,  *)
(* and the others what they followed before.                                *)
LEMMA ToldStep ==
  ASSUME ParticipantsInv, NEW p \in Identity, NEW info \in Info, Told(info),
         Speaks(info, p, there'[p]),
         there' \in [Identity -> [sid : 0..MaxSid, tracks : SUBSET RemoteTrack]],
         \A q \in Identity : q # p => there'[q] = there[q],
         lastSid' \in [Identity -> 0..MaxSid], changes' \in Nat,
         UNCHANGED <<link, tries, list, media, raced>>
  PROVE  ParticipantsInv'
<1> DEFINE e == [type |-> "update", infos |-> {info}]
           view == there'[p]
<1>1. /\ ParticipantsTypeOK /\ HeldForLater /\ EventsAreSingle /\ EverybodyFollows
      /\ LeavingRemoves /\ JoiningIsEmpty /\ GoneHaveNothing
  BY DEF ParticipantsInv
<1>2. link \in {"up", "resuming", "leaving", "joining", "joined"} /\ mixed \in BOOLEAN
  BY <1>1, TypesAre
<1>3. /\ link \in {"up", "leaving"} =>
           inbox' = Append(inbox, e) /\ held' = held /\ mixed' = (mixed \/ link = "leaving")
      /\ link \in {"resuming", "joined"} =>
           held' = Append(held, e) /\ inbox' = inbox /\ mixed' = mixed
      /\ link = "joining" => inbox' = inbox /\ held' = held /\ mixed' = mixed
  BY <1>2, ToldIs
<1>4. /\ e \in ServerEvent /\ e \in SingleEvent /\ e \in InboxEvent
      /\ Says(e, p, view)
      /\ \A q : q # p => ~ Mentions(e, q)
  BY UpdateIsEvent
<1>5. /\ held \in Seq(ServerEvent) /\ inbox \in Seq(SingleEvent)
      /\ link # "leaving" => inbox \in Seq(ServerEvent)
      /\ held \in Seq(InboxEvent) /\ inbox \in Seq(InboxEvent)
  BY <1>1 DEF EventsAreSingle, ParticipantsTypeOK
<1> DEFINE moreHeld == Append(held, e)
           moreInbox == Append(inbox, e)
<1>0. /\ moreHeld \in Seq(ServerEvent) /\ moreInbox \in Seq(SingleEvent)
      /\ inbox \in Seq(ServerEvent) => moreInbox \in Seq(ServerEvent)
      /\ moreHeld \in Seq(InboxEvent) /\ moreInbox \in Seq(InboxEvent)
  <2> HIDE DEF e
  <2> QED
    BY <1>4, <1>5, AppendProperties
<1>6. ParticipantsTypeOK'
  <2>1. held' \in Seq(InboxEvent) /\ inbox' \in Seq(InboxEvent) /\ mixed' \in BOOLEAN
    <3>1. /\ held' = moreHeld \/ held' = held
          /\ inbox' = moreInbox \/ inbox' = inbox
          /\ mixed' = mixed \/ mixed' = (mixed \/ link = "leaving")
      BY <1>2, <1>3
    <3> HIDE DEF moreHeld, moreInbox
    <3> QED
      BY <1>0, <1>2, <1>5, <3>1
  <2> QED
    BY <1>1, <2>1 DEF ParticipantsTypeOK, IndexOf
<1>7. HeldForLater'
  BY <1>1, <1>2, <1>3 DEF HeldForLater
<1>8. EventsAreSingle'
  <2>1. /\ link \in {"up", "leaving"} => inbox' = moreInbox /\ held' = held
        /\ link \in {"resuming", "joined"} => held' = moreHeld /\ inbox' = inbox
        /\ link = "joining" => inbox' = inbox /\ held' = held
    BY <1>3
  <2> HIDE DEF moreHeld, moreInbox
  <2> QED
    BY <1>0, <1>2, <1>5, <2>1 DEF EventsAreSingle
<1>9. EverybodyFollows'
  <2>1. SUFFICES ASSUME link \in {"up", "resuming", "joined"}, NEW q \in Identity,
                        there'[q].sid # 0 \/ ~mixed'
                 PROVE  Follows(inbox', held', q, there'[q], list'[q], PutOf(q)')
    BY DEF EverybodyFollows
  <2>2. PutOf(q)' = PutOf(q) /\ list'[q] = list[q] /\ mixed' = mixed
    BY <1>2, <1>3, <2>1 DEF PutOf, Raced
  <2>3. CASE q = p
    <3>1. Says(e, q, view)
      BY <1>4, <2>3
    <3> HIDE DEF e, view
    <3>2. CASE link = "up"
      <4>1. held = <<>> /\ Silent(held', q) /\ inbox' = Append(inbox, e)
        BY <1>1, <1>3, <3>2 DEF HeldForLater, Silent
      <4>2. LastSays(inbox', q, view)
        BY <1>4, <1>5, <3>1, <4>1, AppendSays
      <4> QED
        BY <2>3, <4>1, <4>2 DEF Follows, view
    <3>3. CASE link # "up"
      <4>1. held' = Append(held, e)
        BY <1>3, <2>1, <3>3
      <4>2. LastSays(held', q, view)
        BY <1>4, <1>5, <3>1, <4>1, AppendSays
      <4> QED
        BY <2>3, <4>2 DEF Follows, view
    <3> QED
      BY <3>2, <3>3
  <2>4. CASE q # p
    <3>1. there'[q] = there[q] /\ ~ Mentions(e, q)
      BY <1>4, <2>4
    <3>2. Follows(inbox, held, q, there[q], list[q], PutOf(q))
      BY <1>1, <2>1, <2>2, <3>1 DEF EverybodyFollows
    <3> HIDE DEF e, view
    <3>3. CASE link = "up"
      <4>1. held = <<>> /\ held' = <<>> /\ Silent(held', q) /\ inbox' = Append(inbox, e)
        BY <1>1, <1>3, <3>3 DEF HeldForLater, Silent
      <4>2. ~ LastSays(held, q, there[q])
        BY <4>1 DEF LastSays
      <4>3. /\ LastSays(inbox, q, there[q]) => LastSays(inbox', q, there[q])
            /\ Silent(inbox, q) => Silent(inbox', q)
        BY <1>4, <1>5, <3>1, <4>1, AppendSays
      <4> QED
        BY <2>2, <3>1, <3>2, <4>1, <4>2, <4>3 DEF Follows
    <3>4. CASE link # "up"
      <4>1. held' = Append(held, e) /\ inbox' = inbox
        BY <1>3, <2>1, <3>4
      <4>2. /\ LastSays(held, q, there[q]) => LastSays(held', q, there[q])
            /\ Silent(held, q) => Silent(held', q)
        BY <1>4, <1>5, <3>1, <4>1, AppendSays
      <4> QED
        BY <2>2, <3>1, <3>2, <4>1, <4>2 DEF Follows
    <3> QED
      BY <3>3, <3>4
  <2> QED
    BY <2>3, <2>4
<1>10. LeavingRemoves' /\ JoiningIsEmpty'
  <2>1. link = "leaving" => mixed'
    BY <1>3
  <2>2. link = "joining" => mixed' = mixed /\ inbox' = inbox
    BY <1>3
  <2> QED
    BY <1>1, <2>1, <2>2 DEF LeavingRemoves, JoiningIsEmpty, NobodyKnown
<1>11. GoneHaveNothing'
  BY <1>1 DEF GoneHaveNothing, IndexOf, Raced
<1> QED
  BY <1>6, <1>7, <1>8, <1>9, <1>10, <1>11 DEF ParticipantsInv

(* A participant joins, publishes or stops to, or leaves.                   *)
LEMMA ServerStep ==
  ASSUME ParticipantsInv, NEW p \in Identity,
         Joins(p) \/ Leaves(p) \/ \E t \in RemoteTrack : Changes(p, t)
  PROVE  ParticipantsInv'
<1>1. /\ there \in [Identity -> [sid : 0..MaxSid, tracks : SUBSET RemoteTrack]]
      /\ lastSid \in [Identity -> 0..MaxSid] /\ changes \in Nat
      /\ there[p].sid \in 0 .. MaxSid /\ there[p].tracks \in SUBSET RemoteTrack
      /\ lastSid[p] \in 0 .. MaxSid /\ MaxSid \in Nat
  BY ParticipantsAssumption DEF ParticipantsInv, ParticipantsTypeOK
<1>2. CASE Joins(p)
  <2> DEFINE view == [sid |-> lastSid[p] + 1, tracks |-> {}]
  <2>1. /\ lastSid[p] + 1 \in 1 .. MaxSid /\ lastSid[p] + 1 \in 0 .. MaxSid
        /\ lastSid' = [lastSid EXCEPT ![p] = lastSid[p] + 1]
        /\ there' = [there EXCEPT ![p] = view] /\ Told(InfoOf(p, there'[p]))
        /\ UNCHANGED <<changes, link, tries, list, media, raced>>
    BY <1>1, <1>2 DEF Joins
  <2>2. /\ there' \in [Identity -> [sid : 0..MaxSid, tracks : SUBSET RemoteTrack]]
        /\ \A q \in Identity : q # p => there'[q] = there[q]
        /\ there'[p] = view /\ lastSid' \in [Identity -> 0..MaxSid]
    BY <1>1, <2>1
  <2>3. InfoOf(p, view) \in Info /\ Speaks(InfoOf(p, view), p, view)
    BY <2>1 DEF InfoOf, Info, Speaks
  <2> HIDE DEF view
  <2> QED
    BY <1>1, <2>1, <2>2, <2>3, ToldStep
<1>3. ASSUME NEW t \in RemoteTrack, Changes(p, t)
      PROVE  ParticipantsInv'
  <2> DEFINE tracks == IF t \in there[p].tracks THEN there[p].tracks \ {t}
                                                ELSE there[p].tracks \cup {t}
             view == there'[p]
  <2>1. /\ there[p].sid # 0 /\ tracks \in SUBSET RemoteTrack
        /\ there' = [there EXCEPT ![p].tracks = tracks] /\ Told(InfoOf(p, view))
        /\ changes' = changes + 1
        /\ UNCHANGED <<lastSid, link, tries, list, media, raced>>
    BY <1>1, <1>3 DEF Changes
  <2> HIDE DEF tracks
  <2>2. /\ there' \in [Identity -> [sid : 0..MaxSid, tracks : SUBSET RemoteTrack]]
        /\ \A q \in Identity : q # p => there'[q] = there[q]
        /\ there'[p].sid = there[p].sid /\ there'[p].tracks = tracks
    BY <1>1, <2>1
  <2>3. InfoOf(p, view) \in Info /\ Speaks(InfoOf(p, view), p, view)
    BY <1>1, <2>1, <2>2 DEF InfoOf, Info, Speaks
  <2>4. changes' \in Nat /\ lastSid' \in [Identity -> 0..MaxSid]
    BY <1>1, <2>1
  <2> HIDE DEF view
  <2> QED
    BY <2>1, <2>2, <2>3, <2>4, ToldStep DEF view
<1>4. CASE Leaves(p)
  <2> DEFINE known == InfoOf(p, there[p])
             info == [known EXCEPT !.gone = TRUE, !.tracks = {}]
             view == [sid |-> 0, tracks |-> {}]
  <2>1. /\ there[p].sid # 0 /\ there' = [there EXCEPT ![p] = view] /\ Told(info)
        /\ UNCHANGED <<lastSid, changes, link, tries, list, media, raced>>
    BY <1>4 DEF Leaves
  <2>2. /\ there' \in [Identity -> [sid : 0..MaxSid, tracks : SUBSET RemoteTrack]]
        /\ \A q \in Identity : q # p => there'[q] = there[q]
        /\ there'[p] = view
    BY <1>1, <2>1
  <2>3. info \in Info /\ Speaks(info, p, view)
    <3>1. known \in Info /\ known.identity = p
      BY <1>1, <2>1 DEF InfoOf, Info
    <3> HIDE DEF known
    <3>2. info \in Info /\ info.identity = p /\ info.gone
      BY <3>1 DEF Info
    <3> QED
      BY <3>2 DEF Speaks
  <2>4. changes' \in Nat /\ lastSid' \in [Identity -> 0..MaxSid]
    BY <1>1, <2>1
  <2> HIDE DEF view, info, known
  <2> QED
    BY <2>1, <2>2, <2>3, <2>4, ToldStep
<1> QED
  BY <1>2, <1>3, <1>4

(* What a step of the connection leaves alone.                              *)
LEMMA ConnectionKeeps ==
  ASSUME ParticipantsInv, UNCHANGED <<serverVars, list, media, raced>>,
         held' \in Seq(ServerEvent), inbox' \in Seq(SingleEvent), mixed' \in BOOLEAN,
         tries' \in Nat, link' \in {"up", "resuming", "leaving", "joining", "joined"}
  PROVE  /\ ParticipantsTypeOK' /\ GoneHaveNothing'
         /\ there' = there /\ list' = list /\ \A p \in Identity : PutOf(p)' = PutOf(p)
         /\ NobodyKnown' <=> NobodyKnown
<1>1. UNCHANGED <<there, lastSid, changes, list, media, raced>>
  BY DEF serverVars
<1>2. held' \in Seq(InboxEvent) /\ inbox' \in Seq(InboxEvent)
  <2>1. ServerEvent \subseteq InboxEvent /\ SingleEvent \subseteq InboxEvent
    BY DEF ServerEvent, SingleEvent
  <2> QED
    BY <2>1, SeqMonotonic
<1>3. ParticipantsTypeOK'
  BY <1>1, <1>2 DEF ParticipantsInv, ParticipantsTypeOK, IndexOf
<1>4. GoneHaveNothing' /\ \A p \in Identity : PutOf(p)' = PutOf(p)
  BY <1>1 DEF ParticipantsInv, GoneHaveNothing, IndexOf, Raced, PutOf
<1> QED
  BY <1>1, <1>3, <1>4 DEF NobodyKnown

(* Nothing is silent about everybody, and says nothing of anybody.          *)
LEMMA NothingSays ==
  \A p, view : Silent(<<>>, p) /\ ~ LastSays(<<>>, p, view)
BY DEF Silent, LastSays

(* A JoinResponse is an event of the server and says who is there.          *)
LEMMA JoinIsEvent ==
  ASSUME there \in [Identity -> [sid : 0..MaxSid, tracks : SUBSET RemoteTrack]]
  PROVE  LET e == [type |-> "join", infos |->
                     {InfoOf(p, there[p]) : p \in {q \in Identity : there[q].sid # 0}}] IN
         /\ e \in ServerEvent /\ e \in SingleEvent
         /\ \A p \in Identity : there[p].sid # 0 => Says(e, p, there[p])
         /\ \A p \in Identity : there[p].sid = 0 => ~ Mentions(e, p)
<1> DEFINE infos == {InfoOf(p, there[p]) : p \in {q \in Identity : there[q].sid # 0}}
           e == [type |-> "join", infos |-> infos]
<1>0. \A p \in Identity : there[p] \in [sid : 0..MaxSid, tracks : SUBSET RemoteTrack] /\ MaxSid \in Nat
  BY ParticipantsAssumption
<1>1. \A p \in Identity : there[p].sid # 0 =>
        /\ InfoOf(p, there[p]) \in Info /\ InfoOf(p, there[p]).identity = p
        /\ Speaks(InfoOf(p, there[p]), p, there[p])
  BY <1>0 DEF InfoOf, Info, Speaks
<1>2. \A p \in Identity : there[p].sid # 0 => InfoOf(p, there[p]) \in infos
  OBVIOUS
<1>3. \A i \in infos : \E p \in Identity : there[p].sid # 0 /\ i = InfoOf(p, there[p])
  OBVIOUS
<1> HIDE DEF infos
<1>4. infos \in SUBSET Info
  BY <1>1, <1>3
<1>5. \A a, b \in infos : a.identity = b.identity => a = b
  BY <1>1, <1>3
<1>6. e.infos = infos /\ e.type = "join" /\ e \in InboxEvent
  BY <1>4 DEF InboxEvent
<1> HIDE DEF e
<1>7. e \in ServerEvent /\ e \in SingleEvent
  BY <1>5, <1>6 DEF ServerEvent, SingleEvent
<1>8. \A p \in Identity : there[p].sid # 0 => Says(e, p, there[p])
  BY <1>1, <1>2, <1>6 DEF Says
<1>9. \A p \in Identity : there[p].sid = 0 => ~ Mentions(e, p)
  BY <1>1, <1>3, <1>6 DEF Mentions
<1> QED
  BY <1>7, <1>8, <1>9 DEF e, infos

(* Resumed or installed: the room gets what was held back, in order.        *)
LEMMA UpStep ==
  ASSUME ParticipantsInv, Up
  PROVE  ParticipantsInv'
<1>1. /\ ParticipantsTypeOK /\ HeldForLater /\ EventsAreSingle /\ EverybodyFollows
      /\ mixed \in BOOLEAN /\ tries \in Nat
  BY DEF ParticipantsInv, ParticipantsTypeOK
<1>2. /\ link \in {"resuming", "joined"} /\ link' = "up" /\ held' = <<>>
      /\ inbox' = inbox \o held /\ mixed' = mixed /\ tries' = tries
      /\ UNCHANGED <<serverVars, list, media, raced>>
  BY DEF Up
<1>3. held \in Seq(ServerEvent) /\ inbox \in Seq(ServerEvent) /\ inbox \in Seq(SingleEvent)
  BY <1>1, <1>2 DEF EventsAreSingle
<1>4. inbox' \in Seq(ServerEvent) /\ inbox' \in Seq(SingleEvent) /\ held' \in Seq(ServerEvent)
  <2>1. ServerEvent \subseteq SingleEvent
    BY DEF ServerEvent
  <2>2. inbox' \in Seq(ServerEvent)
    BY <1>2, <1>3, ConcatProperties
  <2>3. held' \in Seq(ServerEvent)
    BY <1>2
  <2> QED
    BY <2>1, <2>2, <2>3, SeqMonotonic
<1>5. /\ ParticipantsTypeOK' /\ GoneHaveNothing'
      /\ there' = there /\ list' = list /\ \A p \in Identity : PutOf(p)' = PutOf(p)
  BY <1>1, <1>2, <1>4, ConnectionKeeps
<1>6. EverybodyFollows'
  <2>1. SUFFICES ASSUME NEW p \in Identity, there[p].sid # 0 \/ ~mixed
                 PROVE  Follows(inbox', held', p, there[p], list[p], PutOf(p))
    BY <1>2, <1>5 DEF EverybodyFollows
  <2>2. Follows(inbox, held, p, there[p], list[p], PutOf(p))
    BY <1>1, <1>2, <2>1 DEF EverybodyFollows
  <2>3. Silent(held', p)
    BY <1>2, NothingSays
  <2> DEFINE both == inbox \o held
  <2>4. /\ LastSays(held, p, there[p]) => LastSays(both, p, there[p])
        /\ Silent(held, p) /\ LastSays(inbox, p, there[p]) => LastSays(both, p, there[p])
        /\ Silent(held, p) /\ Silent(inbox, p) => Silent(both, p)
    BY <1>3, BothSay
  <2>5. inbox' = both
    BY <1>2
  <2> HIDE DEF both
  <2> QED
    BY <2>2, <2>3, <2>4, <2>5 DEF Follows
<1>7. HeldForLater' /\ EventsAreSingle' /\ LeavingRemoves' /\ JoiningIsEmpty'
  BY <1>2, <1>4 DEF HeldForLater, EventsAreSingle, LeavingRemoves, JoiningIsEmpty
<1> QED
  BY <1>5, <1>6, <1>7 DEF ParticipantsInv

(* The room is asked to remove everybody.                                   *)
LEMMA RestartingAskedStep ==
  ASSUME ParticipantsInv, RestartingAsked
  PROVE  ParticipantsInv'
<1>1. ParticipantsTypeOK /\ HeldForLater /\ EventsAreSingle /\ tries \in Nat
  BY DEF ParticipantsInv, ParticipantsTypeOK
<1>2. /\ link = "up" /\ link' = "leaving" /\ inbox' = Append(inbox, RestartingEvent)
      /\ mixed' = FALSE /\ held' = held /\ tries' = tries + 1
      /\ UNCHANGED <<serverVars, list, media, raced>>
  BY DEF RestartingAsked, Try
<1>3. held = <<>> /\ held \in Seq(ServerEvent) /\ inbox \in Seq(SingleEvent)
  BY <1>1, <1>2 DEF EventsAreSingle, HeldForLater
<1>4. RestartingEvent \in SingleEvent
  BY DEF SingleEvent, InboxEvent, RestartingEvent
<1>5. inbox' \in Seq(SingleEvent) /\ RestartingLast(inbox')
  BY <1>2, <1>3, <1>4, AppendPlaces DEF RestartingLast
<1>6. ParticipantsTypeOK' /\ GoneHaveNothing'
  <2>1. held' = held /\ mixed' = FALSE /\ tries' = tries + 1 /\ link' = "leaving"
    BY <1>2
  <2>2. held' \in Seq(ServerEvent)
    BY <1>3, <2>1
  <2>3. mixed' \in BOOLEAN
    BY <2>1, Zenon
  <2>4. tries' \in Nat
    BY <1>1, <2>1
  <2>5. link' \in {"up", "resuming", "leaving", "joining", "joined"}
    BY <2>1
  <2>6. UNCHANGED <<serverVars, list, media, raced>>
    BY <1>2
  <2> QED
    BY <1>5, <2>2, <2>3, <2>4, <2>5, <2>6, ConnectionKeeps
<1>7. EverybodyFollows'
  BY <1>2 DEF EverybodyFollows
<1>8. HeldForLater' /\ EventsAreSingle' /\ LeavingRemoves' /\ JoiningIsEmpty'
  BY <1>2, <1>3, <1>5
     DEF HeldForLater, EventsAreSingle, LeavingRemoves, JoiningIsEmpty, RestartingLast
<1> QED
  BY <1>6, <1>7, <1>8 DEF ParticipantsInv

(* The old session is closed.                                               *)
LEMMA OldClosesStep ==
  ASSUME ParticipantsInv, OldCloses
  PROVE  ParticipantsInv'
<1>1. /\ ParticipantsTypeOK /\ HeldForLater /\ EventsAreSingle /\ LeavingRemoves
      /\ tries \in Nat /\ mixed \in BOOLEAN
  BY DEF ParticipantsInv, ParticipantsTypeOK
<1>2. /\ link' = "joining" /\ held' = <<>> /\ inbox' = inbox /\ tries' = tries
      /\ UNCHANGED <<serverVars, list, media, raced>>
      /\ \/ link = "leaving" /\ RestartingEvent \notin {inbox[i] : i \in DOMAIN inbox}
            /\ mixed' = mixed
         \/ link = "resuming" /\ mixed' = TRUE
  BY DEF OldCloses
<1>3. inbox \in Seq(SingleEvent) /\ held' \in Seq(ServerEvent)
  BY <1>1, <1>2 DEF EventsAreSingle
<1>4. /\ ParticipantsTypeOK' /\ GoneHaveNothing' /\ (NobodyKnown' <=> NobodyKnown)
  <2>1. mixed' \in BOOLEAN
    BY <1>1, <1>2
  <2> QED
    BY <1>1, <1>2, <1>3, <2>1, ConnectionKeeps
<1>5. inbox \in Seq(ServerEvent)
  <2>1. CASE link = "leaving"
    <3>1. \A i \in 1 .. Len(inbox) : inbox[i] \in SingleEvent /\ inbox[i] # RestartingEvent
      BY <1>2, <1>3, <2>1, LenProperties, ElementOfSeq
    <3>2. \A i \in 1 .. Len(inbox) : inbox[i] \in ServerEvent
      BY <3>1 DEF SingleEvent, ServerEvent
    <3>3. Len(inbox) \in Nat /\ inbox \in [1 .. Len(inbox) -> ServerEvent]
      BY <1>3, <3>2, LenProperties
    <3> QED
      BY <3>3, SeqDef
  <2>2. CASE link # "leaving"
    BY <1>1, <2>2 DEF EventsAreSingle
  <2> QED
    BY <2>1, <2>2
<1>6. JoiningIsEmpty'
  <2>1. SUFFICES ASSUME ~mixed' PROVE inbox' = <<>> /\ NobodyKnown'
    BY DEF JoiningIsEmpty
  <2>2. link = "leaving" /\ ~mixed /\ RestartingEvent \notin {inbox[i] : i \in DOMAIN inbox}
    BY <1>2, <2>1
  <2>3. ~ RestartingLast(inbox)
    <3>1. inbox # <<>> => Len(inbox) \in DOMAIN inbox
      BY <1>3, EmptySeq, LenProperties
    <3> QED
      BY <2>2, <3>1 DEF RestartingLast
  <2> QED
    BY <1>1, <1>2, <1>4, <2>2, <2>3 DEF LeavingRemoves
<1>7. HeldForLater' /\ EventsAreSingle' /\ LeavingRemoves' /\ EverybodyFollows'
  BY <1>2, <1>3, <1>5 DEF HeldForLater, EventsAreSingle, LeavingRemoves, EverybodyFollows
<1> QED
  BY <1>4, <1>6, <1>7 DEF ParticipantsInv

(* The new session joins: everybody who is there is told of, and if the     *)
(* room was emptied it lists nobody else.                                   *)
LEMMA NewJoinsStep ==
  ASSUME ParticipantsInv, NewJoins
  PROVE  ParticipantsInv'
<1> DEFINE e == [type |-> "join", infos |->
                   {InfoOf(p, there[p]) : p \in {q \in Identity : there[q].sid # 0}}]
<1>1. /\ ParticipantsTypeOK /\ HeldForLater /\ EventsAreSingle /\ JoiningIsEmpty
      /\ tries \in Nat /\ mixed \in BOOLEAN
  BY DEF ParticipantsInv, ParticipantsTypeOK
<1>2. /\ link = "joining" /\ link' = "joined" /\ inbox' = Append(inbox, e)
      /\ held' = held /\ mixed' = mixed /\ tries' = tries
      /\ UNCHANGED <<serverVars, list, media, raced>>
  BY DEF NewJoins
<1>3. /\ e \in ServerEvent /\ e \in SingleEvent
      /\ \A p \in Identity : there[p].sid # 0 => Says(e, p, there[p])
      /\ \A p \in Identity : there[p].sid = 0 => ~ Mentions(e, p)
  BY <1>1, TypesAre, JoinIsEvent
<1> HIDE DEF e
<1>4. held = <<>> /\ inbox \in Seq(ServerEvent) /\ inbox \in Seq(SingleEvent)
  BY <1>1, <1>2 DEF HeldForLater, EventsAreSingle
<1>5. inbox' \in Seq(ServerEvent) /\ inbox' \in Seq(SingleEvent) /\ held' \in Seq(ServerEvent)
  BY <1>1, <1>2, <1>3, <1>4, AppendProperties DEF EventsAreSingle
<1>6. /\ ParticipantsTypeOK' /\ GoneHaveNothing'
      /\ there' = there /\ list' = list /\ \A p \in Identity : PutOf(p)' = PutOf(p)
  BY <1>1, <1>2, <1>5, ConnectionKeeps
<1>7. EverybodyFollows'
  <2>1. SUFFICES ASSUME NEW p \in Identity, there[p].sid # 0 \/ ~mixed
                 PROVE  Follows(inbox', held', p, there[p], list[p], PutOf(p))
    BY <1>2, <1>6 DEF EverybodyFollows
  <2>2. Silent(held', p)
    BY <1>2, <1>4, NothingSays
  <2>3. CASE there[p].sid # 0
    <3>1. Says(e, p, there[p])
      BY <1>3, <2>3
    <3>2. LastSays(inbox', p, there[p])
      BY <1>2, <1>3, <1>4, <3>1, AppendSays
    <3> QED
      BY <2>2, <3>2 DEF Follows
  <2>4. CASE there[p].sid = 0
    <3>1. inbox = <<>> /\ NobodyKnown /\ ~ Mentions(e, p)
      BY <1>1, <1>2, <1>3, <2>1, <2>4 DEF JoiningIsEmpty
    <3>2. Silent(inbox', p)
      BY <1>2, <1>3, <1>4, <3>1, NothingSays, AppendSays
    <3>3. Matches(list[p], there[p], PutOf(p))
      BY <2>4, <3>1 DEF Matches, NobodyKnown
    <3> QED
      BY <2>2, <3>2, <3>3 DEF Follows
  <2> QED
    BY <2>3, <2>4
<1>8. HeldForLater' /\ EventsAreSingle' /\ LeavingRemoves' /\ JoiningIsEmpty'
  BY <1>2, <1>5 DEF HeldForLater, EventsAreSingle, LeavingRemoves, JoiningIsEmpty
<1> QED
  BY <1>6, <1>7, <1>8 DEF ParticipantsInv

(* A resume begins, or the attempt of a new session fails.                  *)
LEMMA TryStep ==
  ASSUME ParticipantsInv, Resuming \/ NewFails
  PROVE  ParticipantsInv'
<1>1. /\ ParticipantsTypeOK /\ HeldForLater /\ EventsAreSingle /\ EverybodyFollows
      /\ tries \in Nat /\ mixed \in BOOLEAN
  BY DEF ParticipantsInv, ParticipantsTypeOK
<1>2. CASE Resuming
  <2>1. /\ link = "up" /\ link' = "resuming" /\ held' = held /\ inbox' = inbox /\ mixed' = mixed
        /\ tries' = tries + 1 /\ UNCHANGED <<serverVars, list, media, raced>>
    BY <1>2 DEF Resuming, Try
  <2>2. held \in Seq(ServerEvent) /\ inbox \in Seq(SingleEvent) /\ inbox \in Seq(ServerEvent)
    BY <1>1, <2>1 DEF EventsAreSingle
  <2>3. /\ ParticipantsTypeOK' /\ GoneHaveNothing'
        /\ there' = there /\ list' = list /\ \A p \in Identity : PutOf(p)' = PutOf(p)
    BY <1>1, <2>1, <2>2, ConnectionKeeps
  <2>4. EverybodyFollows'
    BY <1>1, <2>1, <2>3 DEF EverybodyFollows
  <2>5. HeldForLater' /\ EventsAreSingle' /\ LeavingRemoves' /\ JoiningIsEmpty'
    BY <2>1, <2>2 DEF HeldForLater, EventsAreSingle, LeavingRemoves, JoiningIsEmpty
  <2> QED
    BY <2>3, <2>4, <2>5 DEF ParticipantsInv
<1>3. CASE NewFails
  <2>1. /\ link = "joined" /\ link' = "joining" /\ held' = <<>> /\ inbox' = inbox /\ mixed' = TRUE
        /\ tries' = tries + 1 /\ UNCHANGED <<serverVars, list, media, raced>>
    BY <1>3 DEF NewFails, Try
  <2>2. held' \in Seq(ServerEvent) /\ inbox \in Seq(SingleEvent) /\ inbox \in Seq(ServerEvent)
    BY <1>1, <2>1 DEF EventsAreSingle
  <2>3. ParticipantsTypeOK' /\ GoneHaveNothing'
    BY <1>1, <2>1, <2>2, ConnectionKeeps
  <2>4. EverybodyFollows'
    BY <2>1 DEF EverybodyFollows
  <2>5. HeldForLater' /\ EventsAreSingle' /\ LeavingRemoves' /\ JoiningIsEmpty'
    BY <2>1, <2>2 DEF HeldForLater, EventsAreSingle, LeavingRemoves, JoiningIsEmpty
  <2> QED
    BY <2>3, <2>4, <2>5 DEF ParticipantsInv
<1> QED
  BY <1>2, <1>3

-----------------------------------------------------------------------------
(* The steps of the room task.                                              *)

(* The objects that are not listed have nothing: said of the entries.       *)
LEMMA GoneIsBare ==
  /\ ParticipantsTypeOK /\ GoneHaveNothing => \A p \in Identity : Bare(list[p], p, raced)
  /\ list' \in [Identity -> Entry] /\ (\A p \in Identity : Bare(list'[p], p, raced')) => GoneHaveNothing'
<1>1. ASSUME ParticipantsTypeOK, GoneHaveNothing, NEW p \in Identity
      PROVE  Bare(list[p], p, raced)
  BY <1>1 DEF GoneHaveNothing, IndexOf, Bare, Raced
<1>2. ASSUME list' \in [Identity -> Entry], \A p \in Identity : Bare(list'[p], p, raced')
      PROVE  GoneHaveNothing'
  <2>1. SUFFICES ASSUME NEW p \in Identity, NEW i \in DOMAIN list'[p].objects,
                        i < Len(list'[p].objects) \/ ~ list'[p].known
                 PROVE  list'[p].objects[i].published \subseteq {t \in RemoteTrack : <<p, i, t>> \in raced'}
    BY DEF GoneHaveNothing, IndexOf, Raced
  <2>2. list'[p].objects \in Seq(Object)
    BY <1>2 DEF Entry
  <2>3. list'[p].objects[i] \in Object
    BY <2>1, <2>2, ElementOfSeq, LenProperties
  <2>4. \A t \in list'[p].objects[i].published : <<p, i, t>> \in raced'
    BY <1>2, <2>1 DEF Bare
  <2> QED
    BY <2>3, <2>4 DEF Object
<1> QED
  BY <1>1, <1>2

(* Objects are only added, so that the tasks of the tracks have theirs.     *)
LEMMA ListTypes ==
  ASSUME ParticipantsTypeOK, UNCHANGED <<serverVars, linkVars, media, mixed, raced>>,
         list' \in [Identity -> Entry], inbox' \in Seq(InboxEvent),
         \A p \in Identity : DOMAIN list[p].objects \subseteq DOMAIN list'[p].objects
  PROVE  ParticipantsTypeOK'
<1>1. UNCHANGED <<there, lastSid, changes, link, tries, held, media, mixed, raced>>
  BY DEF serverVars, linkVars
<1>2. /\ list' \in [Identity -> [known : BOOLEAN, objects : Seq(Object)]]
      /\ \A p \in Identity : list'[p].known => list'[p].objects # <<>>
  BY DEF Entry
<1>3. \A m \in DOMAIN media : media[m].index \in DOMAIN list'[media[m].identity].objects
  <2>1. TAKE m \in DOMAIN media
  <2> DEFINE M == [identity : Identity, index : Nat, track : RemoteTrack,
                   step : {"waiting", "found", "ended"}]
  <2>2. media[m] \in M
    <3>1. media \in Seq(M)
      BY DEF ParticipantsTypeOK
    <3> HIDE DEF M
    <3> QED
      BY <2>1, <3>1, ElementOfSeq, LenProperties
  <2> QED
    BY <2>2 DEF ParticipantsTypeOK, IndexOf
<1> QED
  BY <1>1, <1>2, <1>3 DEF ParticipantsTypeOK, IndexOf

(* The last of a sequence of events is not handled before the others.       *)
LEMMA RestartingWaits ==
  ASSUME NEW q \in Seq(SingleEvent), RestartingLast(q), Tail(q) # <<>> \/ Head(q) # RestartingEvent
  PROVE  RestartingLast(Tail(q))
<1>1. q # <<>> /\ q[Len(q)] = RestartingEvent
  BY DEF RestartingLast
<1>2. /\ Len(q) \in Nat /\ Len(Tail(q)) = Len(q) - 1 /\ Tail(q) \in Seq(SingleEvent)
      /\ Head(q) = q[1] /\ DOMAIN q = 1 .. Len(q) /\ 1 \in 1 .. Len(q)
      /\ \A i \in DOMAIN q : i # 1 => i - 1 \in DOMAIN Tail(q) /\ q[i] = Tail(q)[i - 1]
  BY <1>1, TailPlaces
<1>3. Len(q) # 1
  <2>1. Len(q) = 1 => Len(Tail(q)) = 0
    BY <1>2
  <2>2. Len(Tail(q)) = 0 => Tail(q) = <<>>
    BY <1>2, EmptySeq
  <2> QED
    BY <1>1, <1>2, <2>1, <2>2
<1>4. Len(q) \in DOMAIN q /\ Len(q) - 1 \in DOMAIN Tail(q) /\ q[Len(q)] = Tail(q)[Len(q) - 1]
  BY <1>2, <1>3
<1>5. Tail(q) # <<>>
  <2>1. Len(Tail(q)) # 0
    BY <1>2, <1>3
  <2> QED
    BY <1>2, <2>1, EmptySeq
<1> QED
  BY <1>1, <1>2, <1>4, <1>5 DEF RestartingLast

(* What an event does to the entry of p.                                    *)
LEMMA HandledIs ==
  ASSUME ParticipantsInv, HandleInbox, NEW p \in Identity
  PROVE  /\ Head(inbox).type # "restarting" /\ ~ Mentions(Head(inbox), p) => list'[p] = list[p]
         /\ Head(inbox).type # "restarting" /\ Mentions(Head(inbox), p) =>
              \E info \in Head(inbox).infos :
                info \in Info /\ info.identity = p /\ list'[p] = Updated(list[p], info)
         /\ Head(inbox).type = "restarting" =>
              list'[p] = IF list[p].known THEN Disconnected(list[p]) ELSE list[p]
<1> DEFINE e == Head(inbox)
           infos == {i \in e.infos : i.identity = p}
<1>1. inbox # <<>> /\ (HandleUpdate(e) \/ HandleRestarting(e))
  BY DEF HandleInbox
<1>2. e \in SingleEvent
  BY <1>1, HeadTailProperties DEF ParticipantsInv, EventsAreSingle
<1> HIDE DEF e
<1>3. e.infos \subseteq Info /\ e.type \in {"update", "join", "restarting"}
  BY <1>2 DEF SingleEvent, InboxEvent
<1>4. CASE e.type # "restarting"
  <2>1. list'[p] = IF infos = {} THEN list[p] ELSE Updated(list[p], CHOOSE i \in infos : TRUE)
    BY <1>1, <1>4 DEF HandleUpdate, HandleRestarting
  <2>2. infos # {} => (CHOOSE i \in infos : TRUE) \in infos
    OBVIOUS
  <2>3. Mentions(e, p) <=> infos # {}
    BY DEF Mentions
  <2> QED
    BY <1>3, <1>4, <2>1, <2>2, <2>3 DEF e
<1>5. CASE e.type = "restarting"
  BY <1>1, <1>5 DEF HandleUpdate, HandleRestarting, e
<1> QED
  BY <1>4, <1>5 DEF e

(* An event is handled.                                                     *)
LEMMA InboxStep ==
  ASSUME ParticipantsInv, HandleInbox
  PROVE  ParticipantsInv'
<1> DEFINE e == Head(inbox)
<1>1. /\ ParticipantsTypeOK /\ HeldForLater /\ EventsAreSingle /\ EverybodyFollows
      /\ LeavingRemoves /\ JoiningIsEmpty /\ GoneHaveNothing
  BY DEF ParticipantsInv
<1>2. /\ inbox # <<>> /\ inbox' = Tail(inbox)
      /\ UNCHANGED <<serverVars, linkVars, media, mixed, raced>>
      /\ UNCHANGED <<there, link, held, mixed, raced>>
  BY DEF HandleInbox, serverVars, linkVars
<1>3. /\ list \in [Identity -> Entry] /\ link \in {"up", "resuming", "leaving", "joining", "joined"}
      /\ \A p \in Identity : there[p].sid \in 0 .. MaxSid
      /\ inbox \in Seq(SingleEvent) /\ held \in Seq(ServerEvent)
      /\ link # "leaving" => inbox \in Seq(ServerEvent)
  BY <1>1, TypesAre DEF EventsAreSingle
<1>4. \A p \in Identity : Bare(list[p], p, raced) /\ list[p] \in Entry
  BY <1>1, <1>3, GoneIsBare
<1>5. ASSUME NEW p \in Identity
      PROVE  /\ list'[p] \in Entry /\ Bare(list'[p], p, raced)
             /\ Len(list'[p].objects) >= Len(list[p].objects)
             /\ Len(list[p].objects) \in Nat
             /\ e.type = "restarting" => ~ list'[p].known
  <2>1. Len(list[p].objects) \in Nat
    BY <1>4, LenProperties DEF Entry
  <2>2. CASE e.type # "restarting"
    BY <1>4, <2>1, <2>2, HandledIs, UpdatedIs
  <2>3. CASE e.type = "restarting" /\ list[p].known
    BY <1>4, <2>1, <2>3, HandledIs, DisconnectedIs
  <2>4. CASE e.type = "restarting" /\ ~ list[p].known
    BY <1>4, <2>1, <2>4, HandledIs
  <2> QED
    BY <2>1, <2>2, <2>3, <2>4
<1>6. list' \in [Identity -> Entry]
  <2>1. list' = [p \in Identity |-> list'[p]]
    BY DEF HandleInbox, HandleUpdate, HandleRestarting
  <2> QED
    BY <1>5, <2>1
<1>7. inbox' \in Seq(SingleEvent) /\ (link # "leaving" => inbox' \in Seq(ServerEvent))
  BY <1>2, <1>3, HeadTailProperties
<1>8. ParticipantsTypeOK'
  <2>1. inbox' \in Seq(InboxEvent)
    <3>1. SingleEvent \subseteq InboxEvent
      BY DEF SingleEvent
    <3> QED
      BY <1>7, <3>1, SeqMonotonic
  <2>2. ASSUME NEW p \in Identity
        PROVE  DOMAIN list[p].objects \subseteq DOMAIN list'[p].objects
    <3>1. list[p].objects \in Seq(Object) /\ list'[p].objects \in Seq(Object)
      BY <1>4, <1>5 DEF Entry
    <3>2. /\ DOMAIN list[p].objects = 1 .. Len(list[p].objects)
          /\ DOMAIN list'[p].objects = 1 .. Len(list'[p].objects)
          /\ Len(list'[p].objects) \in Nat
      BY <3>1, LenProperties
    <3> QED
      BY <1>5, <3>2
  <2> QED
    BY <1>1, <1>2, <1>6, <2>1, <2>2, ListTypes
<1>9. GoneHaveNothing'
  BY <1>2, <1>5, <1>6, GoneIsBare
<1>10. EverybodyFollows'
  <2>1. SUFFICES ASSUME link \in {"up", "resuming", "joined"}, NEW p \in Identity,
                        there[p].sid # 0 \/ ~mixed
                 PROVE  Follows(inbox', held, p, there[p], list'[p], PutOf(p)')
    BY <1>2 DEF EverybodyFollows
  <2>2. Follows(inbox, held, p, there[p], list[p], PutOf(p))
    BY <1>1, <2>1 DEF EverybodyFollows
  <2>3. e.type # "restarting" /\ e \in ServerEvent
    BY <1>2, <1>3, <2>1, HeadTailProperties DEF ServerEvent
  <2>4. /\ LastSays(inbox, p, there[p]) =>
              LastSays(inbox', p, there[p]) \/ (Silent(inbox', p) /\ Says(e, p, there[p]))
        /\ Silent(inbox, p) => Silent(inbox', p) /\ ~ Mentions(e, p)
    BY <1>2, <1>3, TailSays
  <2>5. ASSUME Says(e, p, there[p])
        PROVE  Matches(list'[p], there[p], PutOf(p)')
    <3>1. PICK said \in e.infos : Speaks(said, p, there[p])
      BY <2>5 DEF Says
    <3>2. said.identity = p /\ Mentions(e, p)
      BY <3>1 DEF Speaks, Mentions
    <3>3. PICK info \in e.infos : info \in Info /\ info.identity = p /\ list'[p] = Updated(list[p], info)
      BY <2>3, <3>2, HandledIs
    <3>4. info = said
      BY <2>3, <3>2, <3>3 DEF ServerEvent, SingleEvent
    <3> HIDE DEF e
    <3> QED
      BY <1>3, <1>4, <3>1, <3>3, <3>4, UpdatedMatches
  <2>6. ASSUME ~ Mentions(e, p), Matches(list[p], there[p], PutOf(p))
        PROVE  Matches(list'[p], there[p], PutOf(p)')
    <3>1. list'[p] = list[p]
      BY <2>3, <2>6, HandledIs
    <3>2. PutOf(p)' = PutOf(p)
      BY <1>2, <3>1 DEF PutOf, Raced
    <3> QED
      BY <2>6, <3>1, <3>2
  <2> HIDE DEF e
  <2> QED
    BY <2>2, <2>4, <2>5, <2>6 DEF Follows
<1>11. LeavingRemoves'
  <2>1. SUFFICES ASSUME link = "leaving", ~mixed
                 PROVE  RestartingLast(inbox') \/ (inbox' = <<>> /\ NobodyKnown')
    BY <1>2 DEF LeavingRemoves
  <2>2. RestartingLast(inbox)
    BY <1>1, <1>2, <2>1 DEF LeavingRemoves
  <2>3. CASE Tail(inbox) # <<>> \/ e # RestartingEvent
    BY <1>2, <1>3, <2>2, <2>3, RestartingWaits
  <2>4. CASE Tail(inbox) = <<>> /\ e = RestartingEvent
    <3>1. e.type = "restarting"
      BY <2>4 DEF RestartingEvent
    <3> QED
      BY <1>2, <1>5, <2>4, <3>1 DEF NobodyKnown
  <2> QED
    BY <2>3, <2>4
<1>12. JoiningIsEmpty'
  BY <1>1, <1>2 DEF JoiningIsEmpty
<1>13. HeldForLater' /\ EventsAreSingle'
  BY <1>1, <1>2, <1>3, <1>7 DEF HeldForLater, EventsAreSingle
<1> QED
  BY <1>8, <1>9, <1>10, <1>11, <1>12, <1>13 DEF ParticipantsInv

-----------------------------------------------------------------------------
(* The tasks of the media tracks.                                           *)

MediaTask == [identity : Identity, index : Nat, track : RemoteTrack,
              step : {"waiting", "found", "ended"}]

(* The tasks of a state, each with an object.                               *)
LEMMA MediaAre ==
  ASSUME ParticipantsTypeOK
  PROVE  /\ media \in Seq(MediaTask)
         /\ \A m \in DOMAIN media : /\ media[m] \in MediaTask
                                    /\ media[m].index \in DOMAIN list[media[m].identity].objects
<1>1. media \in Seq(MediaTask)
  BY DEF ParticipantsTypeOK, MediaTask
<1>2. \A m \in DOMAIN media : media[m] \in MediaTask
  BY <1>1, ElementOfSeq, LenProperties
<1> QED
  BY <1>1, <1>2 DEF ParticipantsTypeOK, IndexOf

(* A step that changes only the tasks.                                      *)
LEMMA MediaKeeps ==
  ASSUME ParticipantsInv, UNCHANGED <<serverVars, linkVars, inbox, list, mixed, raced>>,
         media' \in Seq(MediaTask),
         \A m \in DOMAIN media' : media'[m].index \in DOMAIN list[media'[m].identity].objects
  PROVE  ParticipantsInv'
<1>1. UNCHANGED <<there, lastSid, changes, link, tries, held, inbox, list, mixed, raced>>
  BY DEF serverVars, linkVars
<1>2. /\ ParticipantsTypeOK /\ HeldForLater /\ EventsAreSingle /\ EverybodyFollows
      /\ LeavingRemoves /\ JoiningIsEmpty /\ GoneHaveNothing
  BY DEF ParticipantsInv
<1>3. ParticipantsTypeOK'
  BY <1>1, <1>2 DEF ParticipantsTypeOK, IndexOf, MediaTask
<1>4. EverybodyFollows'
  <2>1. \A p \in Identity : PutOf(p)' = PutOf(p)
    BY <1>1 DEF PutOf, Raced
  <2> QED
    BY <1>1, <1>2, <2>1 DEF EverybodyFollows
<1>5. LeavingRemoves' /\ JoiningIsEmpty' /\ HeldForLater' /\ EventsAreSingle' /\ GoneHaveNothing'
  BY <1>1, <1>2 DEF LeavingRemoves, JoiningIsEmpty, HeldForLater, EventsAreSingle,
                    GoneHaveNothing, NobodyKnown, IndexOf, Raced
<1> QED
  BY <1>3, <1>4, <1>5 DEF ParticipantsInv

(* A task that steps is the same task.                                      *)
LEMMA MediaStepIs ==
  ASSUME ParticipantsTypeOK, NEW m \in DOMAIN media, NEW step \in {"waiting", "found", "ended"},
         MediaStep(m, step)
  PROVE  /\ media' \in Seq(MediaTask)
         /\ \A n \in DOMAIN media' : /\ n \in DOMAIN media
                                     /\ media'[n].identity = media[n].identity
                                     /\ media'[n].index = media[n].index
<1>1. media \in Seq(MediaTask) /\ \A n \in DOMAIN media : media[n] \in MediaTask
  BY MediaAre
<1> DEFINE task == [media[m] EXCEPT !.step = step]
<1>2. media' = [media EXCEPT ![m] = task]
  BY DEF MediaStep
<1>3. /\ task \in MediaTask /\ task.identity = media[m].identity /\ task.index = media[m].index
  BY <1>1 DEF MediaTask
<1> HIDE DEF task
<1>4. m \in 1 .. Len(media) /\ DOMAIN media = 1 .. Len(media)
  BY <1>1, LenProperties
<1>5. media' \in Seq(MediaTask)
  BY <1>1, <1>2, <1>3, <1>4, ExceptSeq
<1>6. DOMAIN media' = DOMAIN media /\ \A n \in DOMAIN media : media'[n] = IF n = m THEN task ELSE media[n]
  BY <1>2
<1> QED
  BY <1>3, <1>5, <1>6

(* A media track arrives, its publication is found, or it is given up.      *)
LEMMA MediaTrackStep ==
  ASSUME ParticipantsInv,
         \/ \E p \in Identity, t \in RemoteTrack : HandleMediaTrack(p, t)
         \/ \E m \in DOMAIN media : PublicationFound(m) \/ PublicationTimeout(m)
  PROVE  ParticipantsInv'
<1>1. ParticipantsTypeOK
  BY DEF ParticipantsInv
<1>2. /\ media \in Seq(MediaTask)
      /\ \A m \in DOMAIN media : media[m].index \in DOMAIN list[media[m].identity].objects
  BY <1>1, MediaAre
<1>3. ASSUME NEW p \in Identity, NEW t \in RemoteTrack, HandleMediaTrack(p, t)
      PROVE  ParticipantsInv'
  <2> DEFINE k == Len(list[p].objects)
             task == [identity |-> p, index |-> k, track |-> t, step |-> "waiting"]
  <2>1. /\ list[p].known /\ media' = Append(media, task)
        /\ UNCHANGED <<serverVars, linkVars, inbox, list, mixed, raced>>
    BY <1>3 DEF HandleMediaTrack
  <2>2. list[p].objects \in Seq(Object) /\ list[p].objects # <<>>
    BY <1>1, <2>1, TypesAre DEF Entry
  <2>3. k \in DOMAIN list[p].objects /\ k \in Nat
    BY <2>2, LastObject
  <2>4. task \in MediaTask /\ task.index \in DOMAIN list[task.identity].objects
    BY <2>3 DEF MediaTask
  <2> HIDE DEF task
  <2>5. /\ media' \in Seq(MediaTask)
        /\ \A m \in DOMAIN media' : media'[m].index \in DOMAIN list[media'[m].identity].objects
    BY <1>2, <2>1, <2>4, AppendPlaces
  <2> QED
    BY <2>1, <2>5, MediaKeeps
<1>4. ASSUME NEW m \in DOMAIN media, PublicationFound(m) \/ PublicationTimeout(m)
      PROVE  ParticipantsInv'
  <2>1. /\ MediaStep(m, "found") \/ MediaStep(m, "ended")
        /\ UNCHANGED <<serverVars, linkVars, inbox, list, mixed, raced>>
    BY <1>4 DEF PublicationFound, PublicationTimeout
  <2>2. /\ media' \in Seq(MediaTask)
        /\ \A n \in DOMAIN media' : /\ n \in DOMAIN media
                                    /\ media'[n].identity = media[n].identity
                                    /\ media'[n].index = media[n].index
    BY <1>1, <2>1, MediaStepIs
  <2>3. \A n \in DOMAIN media' : media'[n].index \in DOMAIN list[media'[n].identity].objects
    BY <1>2, <2>2
  <2> QED
    BY <2>1, <2>2, <2>3, MediaKeeps
<1> QED
  BY <1>3, <1>4

(* A track is subscribed, and its publication put back if it was removed.   *)
LEMMA TrackSubscribedStep ==
  ASSUME ParticipantsInv, NEW m \in DOMAIN media, TrackSubscribed(m)
  PROVE  ParticipantsInv'
<1>1. /\ ParticipantsTypeOK /\ HeldForLater /\ EventsAreSingle /\ EverybodyFollows
      /\ LeavingRemoves /\ JoiningIsEmpty /\ GoneHaveNothing
  BY DEF ParticipantsInv
<1> DEFINE p == media[m].identity
           i == media[m].index
           t == media[m].track
           l == list[p]
           n == SubscribedAt(l, i, t)
           r == RacesAt(l, p, i, t, raced)
<1>2. media[m] \in MediaTask /\ i \in DOMAIN l.objects
  BY <1>1, MediaAre
<1>3. p \in Identity /\ i \in Nat /\ t \in RemoteTrack
  BY <1>2 DEF MediaTask
<1>4. list \in [Identity -> Entry] /\ l \in Entry
  BY <1>1, <1>3, TypesAre
<1>5. /\ MediaStep(m, "ended")
      /\ UNCHANGED <<serverVars, linkVars, inbox, mixed>>
      /\ UNCHANGED <<there, lastSid, changes, link, tries, held, inbox, mixed>>
  BY DEF TrackSubscribed, serverVars, linkVars
<1>6. list' = [list EXCEPT ![p] = n]
  <2>1. list' = [list EXCEPT ![p].objects[i] =
                   [ObjectOf(m) EXCEPT !.published = @ \cup {t}, !.subscribed = @ \cup {t}]]
    BY DEF TrackSubscribed
  <2>2. ObjectOf(m) = l.objects[i]
    BY DEF ObjectOf
  <2> DEFINE o == [l.objects[i] EXCEPT !.published = @ \cup {t}, !.subscribed = @ \cup {t}]
  <2>3. list' = [list EXCEPT ![p].objects[i] = o]
    BY <2>1, <2>2
  <2>4. n = [l EXCEPT !.objects[i] = o]
    BY DEF SubscribedAt
  <2> HIDE DEF o, n, l
  <2> QED
    BY <2>3, <2>4 DEF l
<1>7. raced' = r
  BY DEF TrackSubscribed, ObjectOf, RacesAt
<1>8. /\ n \in Entry /\ n.known = l.known /\ Len(n.objects) = Len(l.objects)
      /\ Bare(l, p, raced) => Bare(n, p, r)
  BY <1>2, <1>3, <1>4, SubscribedIs
<1>9. ASSUME Matches(l, there[p], PutOf(p))
      PROVE  Matches(n, there[p], {u \in RemoteTrack : <<p, Len(n.objects), u>> \in r})
  <2>1. Matches(l, there[p], {u \in RemoteTrack : <<p, Len(l.objects), u>> \in raced})
    BY <1>9 DEF PutOf, Raced
  <2> QED
    BY <1>2, <1>3, <1>4, <2>1, SubscribedMatches
<1>10. /\ raced \subseteq r /\ r \subseteq raced \cup {<<p, i, t>>}
  BY DEF RacesAt
<1> HIDE DEF n, r, l
<1>11. /\ list' \in [Identity -> Entry] /\ list'[p] = n /\ \A q \in Identity : q # p => list'[q] = list[q]
       /\ \A q \in Identity : list'[q].known = list[q].known
  BY <1>3, <1>4, <1>6, <1>8 DEF l
<1>12. \A q \in Identity : DOMAIN list[q].objects = DOMAIN list'[q].objects
  <2>1. TAKE q \in Identity
  <2>2. /\ Len(list[q].objects) = Len(list'[q].objects)
        /\ list[q].objects \in Seq(Object) /\ list'[q].objects \in Seq(Object)
    BY <1>4, <1>8, <1>11 DEF Entry, l
  <2> QED
    BY <2>2, LenProperties
<1>13. ParticipantsTypeOK'
  <2>1. /\ media' \in Seq(MediaTask)
        /\ \A k \in DOMAIN media' : /\ k \in DOMAIN media
                                    /\ media'[k].identity = media[k].identity
                                    /\ media'[k].index = media[k].index
    BY <1>1, <1>5, MediaStepIs
  <2>2. \A k \in DOMAIN media' : media'[k].index \in DOMAIN list'[media'[k].identity].objects
    <3>1. TAKE k \in DOMAIN media'
    <3>2. media[k] \in MediaTask /\ media[k].index \in DOMAIN list[media[k].identity].objects
      BY <1>1, <2>1, <3>1, MediaAre
    <3>3. media[k].identity \in Identity
      BY <3>2 DEF MediaTask
    <3> QED
      BY <1>12, <2>1, <3>2, <3>3
  <2>3. raced' \subseteq Identity \X Nat \X RemoteTrack
    BY <1>1, <1>3, <1>7, <1>10 DEF ParticipantsTypeOK
  <2>4. /\ list' \in [Identity -> [known : BOOLEAN, objects : Seq(Object)]]
        /\ \A q \in Identity : list'[q].known => list'[q].objects # <<>>
    BY <1>11 DEF Entry
  <2> QED
    BY <1>1, <1>5, <2>1, <2>2, <2>3, <2>4 DEF ParticipantsTypeOK, IndexOf, MediaTask
<1>14. GoneHaveNothing'
  <2>1. ASSUME NEW q \in Identity
        PROVE  Bare(list'[q], q, raced')
    <3>1. Bare(list[q], q, raced)
      BY <1>1, GoneIsBare
    <3>2. CASE q = p
      BY <1>7, <1>8, <1>11, <3>1, <3>2 DEF l
    <3>3. CASE q # p
      BY <1>7, <1>10, <1>11, <3>1, <3>3 DEF Bare
    <3> QED
      BY <3>2, <3>3
  <2> QED
    BY <1>11, <2>1, GoneIsBare
<1>15. EverybodyFollows'
  <2>1. SUFFICES ASSUME link \in {"up", "resuming", "joined"}, NEW q \in Identity,
                        there[q].sid # 0 \/ ~mixed
                 PROVE  Follows(inbox, held, q, there[q], list'[q], PutOf(q)')
    BY <1>5 DEF EverybodyFollows
  <2>2. Follows(inbox, held, q, there[q], list[q], PutOf(q))
    BY <1>1, <2>1 DEF EverybodyFollows
  <2>3. Matches(list[q], there[q], PutOf(q)) => Matches(list'[q], there[q], PutOf(q)')
    <3>1. CASE q = p
      <4>1. PutOf(q)' = {u \in RemoteTrack : <<p, Len(n.objects), u>> \in r}
        BY <1>7, <1>11, <3>1 DEF PutOf, Raced
      <4> QED
        BY <1>9, <1>11, <3>1, <4>1 DEF l
    <3>2. CASE q # p
      <4>1. list'[q] = list[q] /\ \A k, u : <<q, k, u>> \in raced' <=> <<q, k, u>> \in raced
        BY <1>7, <1>10, <1>11, <3>2
      <4>2. PutOf(q)' = PutOf(q)
        BY <4>1 DEF PutOf, Raced
      <4> QED
        BY <4>1, <4>2
    <3> QED
      BY <3>1, <3>2
  <2> QED
    BY <2>2, <2>3 DEF Follows
<1>16. LeavingRemoves' /\ JoiningIsEmpty'
  BY <1>1, <1>5, <1>11 DEF LeavingRemoves, JoiningIsEmpty, NobodyKnown
<1>17. HeldForLater' /\ EventsAreSingle'
  BY <1>1, <1>5 DEF HeldForLater, EventsAreSingle
<1> QED
  BY <1>13, <1>14, <1>15, <1>16, <1>17 DEF ParticipantsInv

-----------------------------------------------------------------------------
(* The theorems.                                                            *)

(* At the start nobody is there, and nobody is listed.                      *)
LEMMA InitParticipants == ParticipantsInit => ParticipantsInv
<1> SUFFICES ASSUME ParticipantsInit PROVE ParticipantsInv
  OBVIOUS
<1>1. ParticipantsTypeOK
  <2>1. /\ there \in [Identity -> [sid : 0..MaxSid, tracks : SUBSET RemoteTrack]]
        /\ lastSid \in [Identity -> 0..MaxSid]
    BY ParticipantsAssumption DEF ParticipantsInit
  <2>2. /\ held \in Seq(InboxEvent) /\ inbox \in Seq(InboxEvent)
        /\ media \in Seq(MediaTask) /\ DOMAIN media = {}
    BY DEF ParticipantsInit
  <2>3. /\ list \in [Identity -> [known : BOOLEAN, objects : Seq(Object)]]
        /\ \A p \in Identity : ~ list[p].known
    BY DEF ParticipantsInit
  <2> QED
    BY <2>1, <2>2, <2>3 DEF ParticipantsInit, ParticipantsTypeOK, MediaTask
<1>2. HeldForLater /\ EventsAreSingle /\ LeavingRemoves /\ JoiningIsEmpty
  BY DEF ParticipantsInit, HeldForLater, EventsAreSingle, LeavingRemoves, JoiningIsEmpty
<1>3. EverybodyFollows
  <2>1. ASSUME NEW p \in Identity
        PROVE  Follows(inbox, held, p, there[p], list[p], PutOf(p))
    <3>1. inbox = <<>> /\ held = <<>> /\ there[p].sid = 0 /\ ~ list[p].known
      BY DEF ParticipantsInit
    <3> QED
      BY <3>1, NothingSays DEF Follows, Matches
  <2> QED
    BY <2>1 DEF EverybodyFollows
<1>4. GoneHaveNothing
  <2>1. ASSUME NEW p \in Identity
        PROVE  IndexOf(p) = {}
    <3>1. list[p].objects = <<>>
      BY DEF ParticipantsInit
    <3>2. list[p].objects \in Seq(Object) /\ Len(list[p].objects) = 0
      BY <3>1
    <3>3. DOMAIN list[p].objects = 1..0
      BY <3>2
    <3> QED
      BY <3>3 DEF IndexOf
  <2> QED
    BY <2>1 DEF GoneHaveNothing
<1> QED
  BY <1>1, <1>2, <1>3, <1>4 DEF ParticipantsInv

(* ParticipantsInv is inductive: it holds throughout.                       *)
THEOREM ParticipantsInvariant == ParticipantsSpec => []ParticipantsInv
<1>1. ASSUME ParticipantsInv, ParticipantsNext
      PROVE  ParticipantsInv'
  <2>1. CASE \E p \in Identity : Joins(p) \/ Leaves(p) \/ \E t \in RemoteTrack : Changes(p, t)
    BY <1>1, <2>1, ServerStep
  <2>2. CASE \/ \E p \in Identity, t \in RemoteTrack : HandleMediaTrack(p, t)
             \/ \E m \in DOMAIN media : PublicationFound(m) \/ PublicationTimeout(m)
    BY <1>1, <2>2, MediaTrackStep
  <2>3. CASE \E m \in DOMAIN media : TrackSubscribed(m)
    BY <1>1, <2>3, TrackSubscribedStep
  <2>4. CASE Resuming \/ NewFails
    BY <1>1, <2>4, TryStep
  <2>5. CASE Up
    BY <1>1, <2>5, UpStep
  <2>6. CASE RestartingAsked
    BY <1>1, <2>6, RestartingAskedStep
  <2>7. CASE OldCloses
    BY <1>1, <2>7, OldClosesStep
  <2>8. CASE NewJoins
    BY <1>1, <2>8, NewJoinsStep
  <2>9. CASE HandleInbox
    BY <1>1, <2>9, InboxStep
  <2> QED
    BY <1>1, <2>1, <2>2, <2>3, <2>4, <2>5, <2>6, <2>7, <2>8, <2>9 DEF ParticipantsNext
<1>2. ASSUME ParticipantsInv, UNCHANGED participantVars
      PROVE  ParticipantsInv'
  <2>1. /\ UNCHANGED <<serverVars, linkVars, inbox, list, mixed, raced>> /\ media' = media
    BY <1>2 DEF participantVars
  <2>2. /\ media \in Seq(MediaTask)
        /\ \A m \in DOMAIN media : media[m].index \in DOMAIN list[media[m].identity].objects
    BY <1>2, MediaAre DEF ParticipantsInv
  <2> QED
    BY <1>2, <2>1, <2>2, MediaKeeps
<1> QED
  BY <1>1, <1>2, InitParticipants, PTL DEF ParticipantsSpec

(* The list of remote participants is the server's once every event is      *)
(* handled, whatever reconnections came between, and those that are gone    *)
(* have no publications.                                                    *)
THEOREM ParticipantsStayCurrent == ParticipantsSpec => []ParticipantsAreCurrent
<1>1. ASSUME ParticipantsInv
      PROVE  ParticipantsAreCurrent
  <2>1. EverybodyFollows /\ HeldForLater /\ GoneHaveNothing
    BY <1>1 DEF ParticipantsInv
  <2>2. ASSUME link = "up", inbox = <<>>, NEW p \in Identity, there[p].sid # 0 \/ ~mixed
        PROVE  Matches(list[p], there[p], PutOf(p))
    <3>1. Follows(inbox, held, p, there[p], list[p], PutOf(p)) /\ held = <<>>
      BY <2>1, <2>2 DEF EverybodyFollows, HeldForLater
    <3> QED
      BY <2>2, <3>1, NothingSays DEF Follows
  <2>3. ListsWhoIsThere
    BY <2>2 DEF ListsWhoIsThere, Matches, PutOf
  <2>4. ListsNobodyElse
    BY <2>2 DEF ListsNobodyElse, Matches
  <2> QED
    BY <2>1, <2>3, <2>4 DEF ParticipantsAreCurrent
<1> QED
  BY <1>1, ParticipantsInvariant, PTL

================================================================================
