------------------------- MODULE ReceivePackProofs -------------------------
(***************************************************************************)
(* Proofs about ReceivePack for every object graph, every set of pushes,   *)
(* refs and configurations, and any number of local commands.  However     *)
(* they overlap: type correctness, that refs stay connected, and that      *)
(* denyNonFastForwards keeps branches from being rewound.  When one push   *)
(* or command runs at a time: index and work dir stay in step with HEAD,   *)
(* the branch HEAD names is not deleted, and the report is true.           *)
(***************************************************************************)
EXTENDS ReceivePack, SequenceTheorems, TLAPS

(* What is reached from an object is closed, holds the object, and is the  *)
(* least such set.                                                         *)
LEMMA ReachProperties ==
  ASSUME NEW o \in Objects
  PROVE  /\ o \in Reach[o] /\ Reach[o] \subseteq Objects
         /\ Closed(Reach[o])
         /\ \A T \in SUBSET Objects : o \in T /\ Closed(T) => Reach[o] \subseteq T
<1>1. Reach[o] = {d \in Objects : \A T \in SUBSET Objects :
                     {o} \subseteq T /\ Closed(T) => d \in T}
  BY DEF Reach, Closure
<1>2. Closed(Reach[o])
  <2> SUFFICES ASSUME NEW d \in Reach[o], NEW l \in Links[d] PROVE l \in Reach[o]
    BY DEF Closed
  <2>1. d \in Objects /\ l \in Objects
    BY <1>1, ObjectGraphAssumption
  <2>2. ASSUME NEW T \in SUBSET Objects, {o} \subseteq T, Closed(T) PROVE l \in T
    <3>1. d \in T
      BY <1>1, <2>2
    <3> QED BY <2>2, <3>1 DEF Closed
  <2> QED BY <1>1, <2>1, <2>2
<1> QED BY <1>1, <1>2

(* An object all of whose links are connected in a store that holds it is  *)
(* connected itself.                                                       *)
LEMMA ConnectedThroughLinks ==
  ASSUME NEW o \in Objects, NEW store \in SUBSET Objects, o \in store,
         \A l \in Links[o] : Reach[l] \subseteq store
  PROVE  Reach[o] \subseteq store
<1> DEFINE T == {o} \cup UNION {Reach[l] : l \in Links[o]}
<1>1. Links[o] \subseteq Objects
  BY ObjectGraphAssumption
<1>2. T \subseteq Objects /\ T \subseteq store
  BY <1>1, ReachProperties
<1>3. Closed(T)
  <2> SUFFICES ASSUME NEW d \in T PROVE Links[d] \subseteq T
    BY DEF Closed
  <2>1. CASE d = o
    BY <1>1, <2>1, ReachProperties
  <2>2. CASE d # o
    <3>1. PICK l \in Links[o] : d \in Reach[l]
      BY <2>2
    <3>2. Closed(Reach[l])
      BY <1>1, ReachProperties
    <3>3. Links[d] \subseteq Reach[l]
      BY <3>1, <3>2 DEF Closed
    <3> QED BY <3>3
  <2> QED BY <2>1, <2>2
<1> HIDE DEF T
<1>4. o \in T
  BY DEF T
<1> QED BY <1>2, <1>3, <1>4, ReachProperties
-----------------------------------------------------------------------------
(* The inductive invariant.  A value is sound when the store has it and,   *)
(* unless the caller skips the connectivity check, everything it reaches.  *)
Sound(o, store) == o \in store /\ (~config.skipCheck => Reach[o] \subseteq store)

Rewinds(c) ==
  /\ config.denyNonFastForwards
  /\ c.name \in Branches /\ c.old # None /\ c.new # None
  /\ ~Descends(c.old, c.new)

Checked == {"alias", "head", "apply", "write"}

(* What a session relies on when it applies an update: the update is there *)
(* and names the value that was announced; what the connectivity check let *)
(* pass is connected, and still is when the ref is written much later; and *)
(* an update past updateInstead's reset has passed the other checks.       *)
SessionSound(s, store) ==
  /\ s.step \in {"alias", "apply", "write"} => s.at \in DOMAIN s.cmds
  /\ s.step = "head" => s.cmds # <<>>
  /\ s.step \in Checked \cup {"unpack", "check"} =>
       \A i \in DOMAIN s.cmds : s.cmds[i].old = s.seen[s.cmds[i].name]
  /\ s.step \in Checked =>
       \A i \in DOMAIN s.cmds :
         ~s.cmds[i].ng /\ s.cmds[i].new # None /\ ~config.skipCheck
         => Reach[s.cmds[i].new] \subseteq store
  /\ s.step = "write" =>
       /\ ~s.cmds[s.at].ng /\ ~Rewinds(s.cmds[s.at])
       /\ s.cmds[s.at].new \in Commits \cap store

SessionsSound == \A p \in Pushes : SessionSound(push[p], objects)

(* loose and packed apart: deleting a loose file uncovers the packed one. *)
RefsSound ==
  \A n \in Names : \A o \in {loose[n], packed[n]} \cap Objects : Sound(o, objects)

(* What a local command is about to write. *)
CommandSound ==
  /\ user.cmd.op \in {"branch-write", "tag-write", "commit-write"}
  /\ user.cmd.oid \in Objects
  => Sound(user.cmd.oid, objects)

IInv == TypeOK /\ RefsSound /\ SessionsSound /\ CommandSound

LEMMA RefTypes ==
  ASSUME TypeOK
  PROVE  /\ \A n \in Names : ReadRef(n) \in {loose[n], packed[n]} /\ ReadRef(n) \in Values
         /\ \A n \in Names : Resolve(n) \in Objects \cup {None}
         /\ HEAD \in Names /\ HeadName \in Names
         /\ \A n \in Names : Announced(n) \in Values
<1>1. ASSUME NEW n \in Names
      PROVE  ReadRef(n) \in {loose[n], packed[n]} /\ ReadRef(n) \in Values
  BY DEF TypeOK, ReadRef, Values
<1>2. ASSUME NEW n \in Names PROVE Resolve(n) \in Objects \cup {None}
  <2>1. CASE ReadRef(n) \in Branches
    <3>1. ReadRef(n) \in Names
      BY <2>1 DEF Names
    <3>2. ReadRef(ReadRef(n)) \in Values
      BY <1>1, <3>1
    <3> QED BY <2>1, <3>2 DEF Resolve, Values
  <2>2. CASE ReadRef(n) \notin Branches
    BY <1>1, <2>2 DEF Resolve, Values
  <2> QED BY <2>1, <2>2
<1>3. HEAD \in Names /\ HeadName \in Names
  BY DEF HeadName, Names
<1>4. ASSUME NEW n \in Names PROVE Announced(n) \in Values
  BY <1>2 DEF Announced, Values
<1> QED BY <1>1, <1>2, <1>3, <1>4

(* Whatever a ref resolves to is sound. *)
LEMMA ResolvedIsSound ==
  ASSUME TypeOK, RefsSound, NEW n \in Names, Resolve(n) \in Objects
  PROVE  Sound(Resolve(n), objects)
<1>1. \E m \in Names : Resolve(n) = ReadRef(m)
  <2>1. CASE ReadRef(n) \in Branches
    <3>1. Resolve(n) = ReadRef(ReadRef(n))
      BY <2>1, ReceivePackAssumption DEF Resolve, Names
    <3> QED BY <2>1, <3>1 DEF Names
  <2>2. CASE ReadRef(n) \notin Branches
    BY <2>2 DEF Resolve
  <2> QED BY <2>1, <2>2
<1> QED BY <1>1, RefTypes DEF RefsSound

LEMMA InitSound == Init => IInv
<1> SUFFICES ASSUME Init PROVE IInv
  OBVIOUS
<1>1. PICK s \in Setups :
        config = s.config /\ loose = s.loose /\ packed = s.packed /\ objects = s.objects
  BY DEF Init
<1>2. /\ config \in Configs /\ loose \in [Names -> Values]
      /\ packed \in [Names -> Objects \cup {None}] /\ objects \subseteq Objects
      /\ \A n \in Names : \A o \in {loose[n], packed[n]} \cap Objects :
           Reach[o] \subseteq objects
  BY <1>1, ReceivePackAssumption
<1>3. RefsSound
  BY <1>2, ReachProperties DEF RefsSound, Sound
<1>4. Idle \in Sessions
  <2>1. <<>> \in Seq(Updates)
    BY EmptySeq
  <2>2. [n \in Names |-> None] \in [Names -> Values] /\ 1 \in Nat \ {0}
    BY DEF Values
  <2> QED BY <2>1, <2>2 DEF Idle, Sessions, Resting
<1>5. push \in [Pushes -> Sessions] /\ SessionsSound
  BY <1>4 DEF Init, SessionsSound, SessionSound, Idle, Checked
<1>6. user \in [cmd : LocalCommands, left : Nat] /\ CommandSound
  BY ReceivePackAssumption DEF Init, CommandSound, NoCommand, LocalCommands, Names
<1>7. checkout \in Values \cup {Unknown}
  <2>1. HeadCommit \in Objects \cup {None}
    <3>1. CASE ReadRef(HEAD) \in Branches
      BY <1>2, <3>1 DEF HeadCommit, Resolve, ReadRef, Names, Values
    <3>2. CASE ReadRef(HEAD) \notin Branches
      BY <1>2, <3>2 DEF HeadCommit, Resolve, ReadRef, Names, Values
    <3> QED BY <3>1, <3>2
  <2> QED BY <2>1 DEF Init, Values
<1> QED BY <1>2, <1>3, <1>5, <1>6, <1>7 DEF IInv, TypeOK
-----------------------------------------------------------------------------
(* Frames: what is sound stays so while the store grows, a step of one     *)
(* push leaves the others alone, and a ref is given a sound value.         *)
Grows ==
  /\ config' = config /\ packed' = packed
  /\ objects \subseteq objects' /\ objects' \subseteq Objects

LEMMA SessionsFrame ==
  ASSUME IInv, Grows, NEW p \in Pushes, NEW s \in Sessions, Session(p, s),
         SessionSound(s, objects')
  PROVE  push' \in [Pushes -> Sessions] /\ SessionsSound'
<1>1. push' = [push EXCEPT ![p] = s] /\ push \in [Pushes -> Sessions]
  BY DEF Session, IInv, TypeOK
<1>2. ASSUME NEW q \in Pushes PROVE SessionSound(push[q], objects')
  BY DEF IInv, SessionsSound, SessionSound, Grows
<1>3. ASSUME NEW q \in Pushes PROVE SessionSound(push'[q], objects')
  BY <1>1, <1>2
<1>4. ASSUME NEW q \in Pushes PROVE SessionSound(push[q], objects)'
  BY <1>3 DEF SessionSound, Grows, Rewinds
<1> QED BY <1>1, <1>4 DEF SessionsSound

LEMMA PushesFrame ==
  ASSUME IInv, Grows, UNCHANGED push
  PROVE  push' \in [Pushes -> Sessions] /\ SessionsSound'
BY DEF IInv, TypeOK, SessionsSound, SessionSound, Grows, Rewinds

LEMMA RefsFrame ==
  ASSUME IInv, Grows, NEW n \in Names, NEW v \in Values,
         v \in Objects => Sound(v, objects'),
         loose' = loose \/ loose' = [loose EXCEPT ![n] = v]
  PROVE  loose' \in [Names -> Values] /\ RefsSound'
<1>1. loose \in [Names -> Values] /\ packed \in [Names -> Objects \cup {None}]
  BY DEF IInv, TypeOK
<1>2. \A m \in Names : loose'[m] \in {loose[m], v}
  BY <1>1
<1>3. \A m \in Names : \A o \in {loose[m], packed[m]} \cap Objects : Sound(o, objects')
  BY DEF IInv, RefsSound, Sound, Grows
<1> QED BY <1>1, <1>2, <1>3 DEF RefsSound, Sound, Grows

LEMMA CommandFrame ==
  ASSUME IInv, Grows, UNCHANGED user
  PROVE  user' \in [cmd : LocalCommands, left : Nat] /\ CommandSound'
BY DEF IInv, TypeOK, CommandSound, Sound, Grows

(* What a step of a push has to show. *)
LEMMA PushFrame ==
  ASSUME IInv, Grows, UNCHANGED user, NEW p \in Pushes,
         NEW s \in Sessions, Session(p, s), SessionSound(s, objects'),
         NEW n \in Names, NEW v \in Values, v \in Objects => Sound(v, objects'),
         loose' = loose \/ loose' = [loose EXCEPT ![n] = v],
         checkout' \in Values \cup {Unknown}
  PROVE  IInv'
<1>1. config' \in Configs /\ packed' \in [Names -> Objects \cup {None}] /\ objects' \subseteq Objects
  BY DEF IInv, TypeOK, Grows
<1> QED BY <1>1, SessionsFrame, RefsFrame, CommandFrame DEF IInv, TypeOK

(* Most steps change no ref. *)
LEMMA SessionFrame ==
  ASSUME IInv, Grows, UNCHANGED <<user, loose, checkout>>,
         NEW p \in Pushes, NEW s \in Sessions, Session(p, s), SessionSound(s, objects')
  PROVE  IInv'
<1>1. HEAD \in Names /\ None \in Values /\ None \notin Objects
  BY ReceivePackAssumption DEF Names, Values
<1>2. checkout' \in Values \cup {Unknown}
  BY DEF IInv, TypeOK
<1> QED BY <1>1, <1>2, PushFrame
-----------------------------------------------------------------------------
(* Updates that replace those of a session one for one. *)
LEMMA ReplaceUpdates ==
  ASSUME NEW cmds \in Seq(Updates), NEW new, new \in [DOMAIN cmds -> Updates]
  PROVE  new \in Seq(Updates) /\ Len(new) = Len(cmds) /\ DOMAIN new = DOMAIN cmds
<1>1. Len(cmds) \in Nat /\ DOMAIN cmds = 1..Len(cmds)
  BY LenProperties
<1>2. new \in Seq(Updates)
  BY <1>1, SeqDef
<1>3. Len(new) \in Nat /\ DOMAIN new = 1..Len(new)
  BY <1>2, LenProperties
<1> QED BY <1>1, <1>2, <1>3

LEMMA SessionTypes ==
  ASSUME TypeOK, NEW p \in Pushes
  PROVE  /\ push[p] \in Sessions
         /\ push[p].cmds \in Seq(Updates) /\ push[p].at \in Nat \ {0}
         /\ DOMAIN push[p].cmds = 1..Len(push[p].cmds) /\ Len(push[p].cmds) \in Nat
         /\ \A i \in DOMAIN push[p].cmds : push[p].cmds[i] \in Updates
<1>1. push[p] \in Sessions
  BY DEF TypeOK
<1>2. push[p].cmds \in Seq(Updates) /\ push[p].at \in Nat \ {0}
  BY <1>1 DEF Sessions
<1> QED BY <1>1, <1>2, LenProperties, ElementOfSeq

(* A session that has got to another step, with other updates or another   *)
(* position among them.                                                    *)
MovedTo(s, step, cmds, at, head) ==
  [step |-> step, seen |-> s.seen, cmds |-> cmds, head |-> head, at |-> at]

LEMMA MovedToTypes ==
  ASSUME NEW s \in Sessions, NEW step, NEW cmds \in Seq(Updates), NEW at \in Nat \ {0},
         NEW head \in Branches \cup {None},
         step \in Checked \cup {"report"}
  PROVE  MovedTo(s, step, cmds, at, head) \in Sessions
BY DEF MovedTo, Sessions, Checked

LEMMA MovedToUpdates ==
  ASSUME NEW s \in Sessions, NEW step, NEW cmds, NEW at
  PROVE  [s EXCEPT !.cmds = cmds, !.at = at, !.step = step]
           = MovedTo(s, step, cmds, at, s.head)
<1>1. ASSUME NEW t, t = [s EXCEPT !.cmds = cmds, !.at = at, !.step = step]
      PROVE  t = MovedTo(s, step, cmds, at, s.head)
  BY <1>1 DEF MovedTo, Sessions
<1> QED BY <1>1, Zenon

LEMMA MovedToHead ==
  ASSUME NEW s \in Sessions, NEW step, NEW at, NEW head
  PROVE  [s EXCEPT !.at = at, !.step = step, !.head = head]
           = MovedTo(s, step, s.cmds, at, head)
<1>1. ASSUME NEW t, t = [s EXCEPT !.at = at, !.step = step, !.head = head]
      PROVE  t = MovedTo(s, step, s.cmds, at, head)
  BY <1>1 DEF MovedTo, Sessions
<1> QED BY <1>1, Zenon

LEMMA MovedToStep ==
  ASSUME NEW s \in Sessions, NEW step
  PROVE  [s EXCEPT !.step = step] = MovedTo(s, step, s.cmds, s.at, s.head)
<1>1. ASSUME NEW t, t = [s EXCEPT !.step = step]
      PROVE  t = MovedTo(s, step, s.cmds, s.at, s.head)
  BY <1>1 DEF MovedTo, Sessions
<1> QED BY <1>1, Zenon

LEMMA IdleIsSound ==
  ASSUME NEW step \in Resting
  PROVE  /\ [Idle EXCEPT !.step = step] \in Sessions
         /\ SessionSound([Idle EXCEPT !.step = step], objects')
<1>1. <<>> \in Seq(Updates)
  BY EmptySeq
<1>2. [n \in Names |-> None] \in [Names -> Values] /\ 1 \in Nat \ {0}
  BY DEF Values
<1>3. [Idle EXCEPT !.step = step] \in Sessions
  BY <1>1, <1>2 DEF Idle, Sessions
<1> QED BY <1>3 DEF SessionSound, Idle, Checked, Resting
-----------------------------------------------------------------------------
(* Each step of a push. *)
LEMMA AnnouncedStep ==
  ASSUME IInv, NEW p \in Pushes, AdvertiseRefs(p)
  PROVE  IInv'
<1> DEFINE s == [push[p] EXCEPT !.step = "announced",
                                !.seen = [n \in Names |-> Announced(n)]]
<1>1. TypeOK /\ push[p] \in Sessions /\ HEAD \in Names /\ loose[HEAD] \in Values
  BY RefTypes DEF IInv, TypeOK
<1>2. [n \in Names |-> Announced(n)] \in [Names -> Values]
  BY <1>1, RefTypes
<1>3. s \in Sessions /\ s.step = "announced"
  BY <1>1, <1>2 DEF Sessions, Resting
<1>4. SessionSound(s, objects')
  BY <1>3 DEF SessionSound, Checked
<1>5. Grows /\ UNCHANGED <<user, loose, checkout>> /\ Session(p, s)
  BY <1>1 DEF AdvertiseRefs, Grows, TypeOK
<1> HIDE DEF s
<1> QED BY <1>1, <1>3, <1>4, <1>5, SessionFrame

LEMMA ReadStep ==
  ASSUME IInv, NEW p \in Pushes, ReadRefUpdates(p)
  PROVE  IInv'
<1>1. TypeOK /\ push[p] \in Sessions /\ HEAD \in Names
  BY RefTypes DEF IInv, TypeOK
<1>2. PICK req \in Requests[p] :
        Session(p, [push[p] EXCEPT
          !.cmds = [i \in DOMAIN req |-> Command(p, req[i][1], req[i][2])],
          !.step = IF \A i \in DOMAIN req : Command(p, req[i][1], req[i][2]).new = None
                   THEN "check" ELSE "unpack"])
  BY Zenon DEF ReadRefUpdates
<1> DEFINE cmds == [i \in DOMAIN req |-> Command(p, req[i][1], req[i][2])]
           step == IF \A i \in DOMAIN req : Command(p, req[i][1], req[i][2]).new = None
                   THEN "check" ELSE "unpack"
           s == [push[p] EXCEPT !.cmds = cmds, !.step = step]
<1>3. req \in Seq(Names \X (Objects \cup {None}))
  BY ReceivePackAssumption
<1>4. ASSUME NEW i \in DOMAIN req
      PROVE  /\ Command(p, req[i][1], req[i][2]) \in Updates
             /\ Command(p, req[i][1], req[i][2]).old
                  = push[p].seen[Command(p, req[i][1], req[i][2]).name]
  <2>1. req[i] \in Names \X (Objects \cup {None})
    BY <1>3, LenProperties, ElementOfSeq
  <2>2. push[p].seen \in [Names -> Values]
    BY <1>1 DEF Sessions
  <2> QED BY <2>1, <2>2 DEF Command, Updates
<1>5. cmds \in Seq(Updates)
  <2>1. Len(req) \in Nat /\ DOMAIN req = 1..Len(req)
    BY <1>3, LenProperties
  <2> QED BY <1>4, <2>1, SeqDef
<1>6. step \in {"check", "unpack"}
  OBVIOUS
<1> HIDE DEF cmds, step
<1>7. /\ s \in Sessions /\ s.step = step /\ s.cmds = cmds /\ s.seen = push[p].seen
  BY <1>1, <1>5, <1>6 DEF Sessions
<1>8. \A i \in DOMAIN cmds : cmds[i].old = push[p].seen[cmds[i].name]
  BY <1>4 DEF cmds
<1>9. SessionSound(s, objects')
  BY <1>6, <1>7, <1>8 DEF SessionSound, Checked
<1>10. Grows /\ UNCHANGED <<user, loose, checkout>>
  BY <1>1 DEF ReadRefUpdates, Grows, TypeOK
<1>11. Session(p, s)
  BY <1>2 DEF cmds, step
<1> HIDE DEF s
<1> QED BY <1>1, <1>7, <1>9, <1>10, <1>11, SessionFrame

LEMMA UnpackStep ==
  ASSUME IInv, NEW p \in Pushes, Unpack(p) \/ UnpackFails(p)
  PROVE  IInv'
<1>1. TypeOK /\ push[p] \in Sessions /\ HEAD \in Names
  BY RefTypes DEF IInv, TypeOK
<1>2. Needed(p) \subseteq Objects
  <2>1. Wanted(p) \subseteq Objects
    BY <1>1, SessionTypes DEF Wanted, Updates
  <2> QED BY <2>1, ReachProperties DEF Needed
<1>3. Grows /\ UNCHANGED <<user, loose, checkout>>
  BY <1>1, <1>2, ReceivePackAssumption DEF Unpack, UnpackFails, Grows, TypeOK
<1>4. CASE Unpack(p)
  <2> DEFINE s == [push[p] EXCEPT !.step = "check"]
  <2>1. s \in Sessions
    BY <1>1 DEF Sessions
  <2>2. SessionSound(push[p], objects) /\ push[p].step = "unpack"
    BY <1>4 DEF IInv, SessionsSound, Unpack
  <2>3. SessionSound(s, objects')
    BY <1>1, <2>2 DEF SessionSound, Checked, Sessions
  <2>4. Session(p, s)
    BY <1>4 DEF Unpack
  <2> HIDE DEF s
  <2> QED BY <1>1, <1>3, <2>1, <2>3, <2>4, SessionFrame
<1>5. CASE UnpackFails(p)
  <2> DEFINE s == [Idle EXCEPT !.step = "broken"]
  <2>1. "broken" \in Resting /\ Session(p, s)
    BY <1>5 DEF Resting, UnpackFails
  <2>2. s \in Sessions /\ SessionSound(s, objects')
    BY <2>1, IdleIsSound
  <2> HIDE DEF s
  <2> QED BY <1>1, <1>3, <2>1, <2>2, SessionFrame
<1> QED BY <1>4, <1>5

LEMMA ReportStep ==
  ASSUME IInv, NEW p \in Pushes, Report(p)
  PROVE  IInv'
<1> DEFINE s == [Idle EXCEPT !.step = "done"]
<1>1. TypeOK /\ HEAD \in Names
  BY RefTypes DEF IInv
<1>2. "done" \in Resting /\ Session(p, s)
  BY DEF Resting, Report
<1>3. s \in Sessions /\ SessionSound(s, objects')
  BY <1>2, IdleIsSound
<1>4. Grows /\ UNCHANGED <<user, loose, checkout>>
  BY <1>1 DEF Report, Grows, TypeOK
<1> HIDE DEF s
<1> QED BY <1>1, <1>2, <1>3, <1>4, SessionFrame

LEMMA CheckStep ==
  ASSUME IInv, NEW p \in Pushes, CheckConnectivity(p)
  PROVE  IInv'
<1> DEFINE checked(c) ==
             [c EXCEPT !.ng = ~config.skipCheck /\ c.new # None /\ ~Connected(c.new)]
           cmds == [i \in DOMAIN push[p].cmds |-> checked(push[p].cmds[i])]
           step == IF \A i \in DOMAIN cmds : cmds[i].ng THEN "report" ELSE "alias"
           s == MovedTo(push[p], step, cmds, 1, push[p].head)
<1>1. TypeOK /\ push[p] \in Sessions /\ push[p].step = "check"
  BY DEF IInv, TypeOK, CheckConnectivity
<1>2. ASSUME NEW i \in DOMAIN push[p].cmds
      PROVE  /\ cmds[i] \in Updates
             /\ cmds[i].old = push[p].seen[cmds[i].name]
             /\ ~cmds[i].ng /\ cmds[i].new # None /\ ~config.skipCheck
                => Reach[cmds[i].new] \subseteq objects
  <2> DEFINE c == push[p].cmds[i]
  <2>1. c \in Updates /\ c.old = push[p].seen[c.name]
    BY <1>1, SessionTypes DEF IInv, SessionsSound, SessionSound
  <2> HIDE DEF c
  <2>2. checked(c) \in Updates
    BY <2>1 DEF Updates
  <2>3. /\ checked(c).old = c.old /\ checked(c).name = c.name /\ checked(c).new = c.new
        /\ checked(c).ng = (~config.skipCheck /\ c.new # None /\ ~Connected(c.new))
    BY <2>1 DEF Updates
  <2>4. cmds[i] = checked(c)
    BY DEF c
  <2> HIDE DEF checked, cmds
  <2> QED BY <2>1, <2>2, <2>3, <2>4 DEF Connected
<1>3. Session(p, s) /\ Grows /\ UNCHANGED <<user, loose, checkout>>
  <2>1. Session(p, [push[p] EXCEPT !.cmds = cmds, !.at = 1, !.step = step])
    BY Zenon DEF CheckConnectivity
  <2> HIDE DEF cmds, step
  <2>2. [push[p] EXCEPT !.cmds = cmds, !.at = 1, !.step = step] = s
    BY <1>1, MovedToUpdates, Zenon
  <2> QED BY <1>1, <2>1, <2>2 DEF CheckConnectivity, Grows, TypeOK
<1>4. DOMAIN cmds = DOMAIN push[p].cmds
  OBVIOUS
<1>5. step \in {"report", "alias"} /\ (step = "alias" => \E i \in DOMAIN cmds : ~cmds[i].ng)
  BY <1>2
<1>6. cmds \in [DOMAIN push[p].cmds -> Updates]
  BY <1>2
<1> HIDE DEF cmds, step, checked
<1>7. cmds \in Seq(Updates) /\ DOMAIN cmds = 1..Len(cmds) /\ Len(cmds) \in Nat
  BY <1>1, <1>6, SessionTypes, ReplaceUpdates, LenProperties
<1>8. /\ s \in Sessions /\ s.step = step /\ s.cmds = cmds /\ s.at = 1
      /\ s.seen = push[p].seen
  <2>1. push[p].head \in Branches \cup {None} /\ 1 \in Nat \ {0} /\ step \in Checked \cup {"report"}
    BY <1>1, <1>5 DEF Sessions, Checked
  <2> QED BY <1>1, <1>7, <2>1, MovedToTypes DEF MovedTo
<1>9. step = "alias" => 1 \in DOMAIN cmds
  BY <1>5, <1>7
<1> HIDE DEF s
<1>10. objects' = objects
  BY DEF CheckConnectivity
<1>11. SessionSound(s, objects')
  BY <1>2, <1>4, <1>5, <1>8, <1>9, <1>10 DEF SessionSound, Checked
<1> QED BY <1>3, <1>8, <1>11, SessionFrame

(* The updates after one round of the alias loop that found a target. *)
AliasedPair(cmds, at, j, same) ==
  [k \in DOMAIN cmds |->
    [cmds[k] EXCEPT !.skip = @ \/ k = at \/ (k = j /\ ~same),
                    !.ng = @ \/ (k \in {at, j} /\ ~same)]]

LEMMA AliasedProperties ==
  ASSUME NEW cmds \in Seq(Updates), NEW at \in DOMAIN cmds
  PROVE  /\ Aliased(cmds, at) \in Seq(Updates) /\ Len(Aliased(cmds, at)) = Len(cmds)
         /\ DOMAIN Aliased(cmds, at) = DOMAIN cmds
         /\ \A k \in DOMAIN cmds :
              /\ Aliased(cmds, at)[k].name = cmds[k].name
              /\ Aliased(cmds, at)[k].old = cmds[k].old
              /\ Aliased(cmds, at)[k].new = cmds[k].new
              /\ ~Aliased(cmds, at)[k].ng => ~cmds[k].ng
<1>1. \A k \in DOMAIN cmds : cmds[k] \in Updates
  BY LenProperties, ElementOfSeq
<1>2. CASE Aliased(cmds, at) = cmds
  BY <1>2
<1>3. CASE Aliased(cmds, at) # cmds
  <2>1. PICK j, same : Aliased(cmds, at) = AliasedPair(cmds, at, j, same)
    <3> DEFINE targets == {j \in DOMAIN cmds : cmds[j].name = ReadRef(cmds[at].name)}
               last == CHOOSE j \in targets : \A k \in targets : k <= j
               equal == cmds[at].old = cmds[last].old /\ cmds[at].new = cmds[last].new
    <3>1. Aliased(cmds, at) = IF cmds[at].ng \/ ReadRef(cmds[at].name) \notin Branches
                                 \/ targets = {}
                              THEN cmds ELSE AliasedPair(cmds, at, last, equal)
      BY Zenon DEF Aliased, AliasedPair
    <3> HIDE DEF targets, last, equal
    <3>2. Aliased(cmds, at) = AliasedPair(cmds, at, last, equal)
      BY <1>3, <3>1
    <3> QED BY <3>2
  <2>2. ASSUME NEW k \in DOMAIN cmds
        PROVE  /\ Aliased(cmds, at)[k] \in Updates
               /\ Aliased(cmds, at)[k].name = cmds[k].name
               /\ Aliased(cmds, at)[k].old = cmds[k].old
               /\ Aliased(cmds, at)[k].new = cmds[k].new
               /\ ~Aliased(cmds, at)[k].ng => ~cmds[k].ng
    <3> DEFINE skip == cmds[k].skip \/ k = at \/ (k = j /\ ~same)
               ng == cmds[k].ng \/ (k \in {at, j} /\ ~same)
    <3>1. Aliased(cmds, at)[k] = [cmds[k] EXCEPT !.skip = skip, !.ng = ng]
      BY <2>1 DEF AliasedPair
    <3>2. cmds[k] \in Updates /\ skip \in BOOLEAN /\ ng \in BOOLEAN /\ (~ng => ~cmds[k].ng)
      BY <1>1
    <3> HIDE DEF skip, ng
    <3> QED BY <3>1, <3>2 DEF Updates
  <2>3. Aliased(cmds, at) \in [DOMAIN cmds -> Updates]
    BY <2>1, <2>2 DEF AliasedPair
  <2> QED BY <2>2, <2>3, ReplaceUpdates
<1> QED BY <1>2, <1>3

LEMMA AliasStep ==
  ASSUME IInv, NEW p \in Pushes, FindAlias(p)
  PROVE  IInv'
<1> DEFINE cmds == Aliased(push[p].cmds, push[p].at)
           step == AfterLast(p, "alias", "head")
           s == MovedTo(push[p], step, cmds, push[p].at + 1, push[p].head)
<1>1. TypeOK /\ push[p] \in Sessions /\ push[p].step = "alias"
  BY DEF IInv, TypeOK, FindAlias
<1>2. push[p].at \in DOMAIN push[p].cmds /\ SessionSound(push[p], objects)
  BY <1>1 DEF IInv, SessionsSound, SessionSound
<1>3. /\ cmds \in Seq(Updates) /\ Len(cmds) = Len(push[p].cmds)
      /\ DOMAIN cmds = DOMAIN push[p].cmds
      /\ \A k \in DOMAIN cmds :
           /\ cmds[k].name = push[p].cmds[k].name /\ cmds[k].old = push[p].cmds[k].old
           /\ cmds[k].new = push[p].cmds[k].new
           /\ ~cmds[k].ng => ~push[p].cmds[k].ng
  <2>1. push[p].cmds \in Seq(Updates)
    BY <1>1, SessionTypes
  <2> QED BY <1>2, <2>1, AliasedProperties, Zenon
<1>4. Session(p, s) /\ Grows /\ UNCHANGED <<user, loose, checkout, objects>>
  <2>1. Session(p, [push[p] EXCEPT !.cmds = cmds, !.at = push[p].at + 1, !.step = step])
    BY Zenon DEF FindAlias
  <2> HIDE DEF cmds, step
  <2>2. [push[p] EXCEPT !.cmds = cmds, !.at = push[p].at + 1, !.step = step] = s
    BY <1>1, MovedToUpdates, Zenon
  <2> QED BY <1>1, <2>1, <2>2 DEF FindAlias, Grows, TypeOK
<1>5. DOMAIN cmds = 1..Len(cmds) /\ Len(cmds) \in Nat /\ push[p].at \in Nat \ {0}
  BY <1>1, <1>3, SessionTypes
<1>6. /\ step \in {"alias", "head"}
      /\ step = "alias" => push[p].at + 1 \in DOMAIN cmds
  BY <1>2, <1>3, <1>5 DEF AfterLast
<1> HIDE DEF cmds, step
<1>7. cmds # <<>>
  BY <1>2, <1>3
<1>8. /\ s \in Sessions /\ s.step = step /\ s.cmds = cmds /\ s.at = push[p].at + 1
      /\ s.seen = push[p].seen
  <2>1. /\ push[p].head \in Branches \cup {None} /\ push[p].at + 1 \in Nat \ {0}
        /\ step \in Checked \cup {"report"}
    BY <1>1, <1>5, <1>6 DEF Sessions, Checked
  <2> QED BY <1>1, <1>3, <2>1, MovedToTypes DEF MovedTo
<1> HIDE DEF s
<1>9. SessionSound(s, objects')
  BY <1>1, <1>2, <1>3, <1>4, <1>6, <1>7, <1>8 DEF SessionSound, Checked
<1> QED BY <1>4, <1>8, <1>9, SessionFrame

LEMMA HeadStep ==
  ASSUME IInv, NEW p \in Pushes, ReadHead(p)
  PROVE  IInv'
<1> DEFINE head == IF ReadRef(HEAD) \in Branches THEN ReadRef(HEAD) ELSE None
           s == MovedTo(push[p], "apply", push[p].cmds, 1, head)
<1>1. TypeOK /\ push[p] \in Sessions /\ push[p].step = "head"
  BY DEF IInv, TypeOK, ReadHead
<1>2. SessionSound(push[p], objects) /\ push[p].cmds # <<>>
  BY <1>1 DEF IInv, SessionsSound, SessionSound
<1>3. head \in Branches \cup {None}
  OBVIOUS
<1>4. Session(p, s) /\ Grows /\ UNCHANGED <<user, loose, checkout, objects>>
  <2>1. Session(p, [push[p] EXCEPT !.at = 1, !.step = "apply", !.head = head])
    BY Zenon DEF ReadHead
  <2> HIDE DEF head
  <2>2. \A step, h : [push[p] EXCEPT !.at = 1, !.step = step, !.head = h]
                       = MovedTo(push[p], step, push[p].cmds, 1, h)
    BY <1>1, MovedToHead
  <2> QED BY <1>1, <2>1, <2>2 DEF ReadHead, Grows, TypeOK
<1> HIDE DEF head
<1>5. /\ s \in Sessions /\ s.step = "apply" /\ s.cmds = push[p].cmds /\ s.at = 1
      /\ s.seen = push[p].seen
  <2>1. 1 \in Nat \ {0} /\ "apply" \in Checked \cup {"report"} /\ push[p].cmds \in Seq(Updates)
    BY <1>1, SessionTypes DEF Checked
  <2> QED BY <1>1, <1>3, <2>1, MovedToTypes DEF MovedTo
<1>6. 1 \in DOMAIN push[p].cmds
  BY <1>1, <1>2, SessionTypes, EmptySeq
<1> HIDE DEF s
<1>7. SessionSound(s, objects')
  BY <1>1, <1>2, <1>4, <1>5, <1>6 DEF SessionSound, Checked
<1> QED BY <1>4, <1>5, <1>7, SessionFrame
-----------------------------------------------------------------------------
(* The end of an update: its verdict is recorded, the others stay. *)
Judged(cmds, at, ng) == [cmds EXCEPT ![at].ng = ng]

LEMMA JudgedProperties ==
  ASSUME NEW cmds \in Seq(Updates), NEW at \in DOMAIN cmds, NEW ng \in BOOLEAN
  PROVE  /\ Judged(cmds, at, ng) \in Seq(Updates) /\ Len(Judged(cmds, at, ng)) = Len(cmds)
         /\ DOMAIN Judged(cmds, at, ng) = DOMAIN cmds
         /\ \A k \in DOMAIN cmds :
              /\ Judged(cmds, at, ng)[k].name = cmds[k].name
              /\ Judged(cmds, at, ng)[k].old = cmds[k].old
              /\ Judged(cmds, at, ng)[k].new = cmds[k].new
              /\ Judged(cmds, at, ng)[k].ng = IF k = at THEN ng ELSE cmds[k].ng
              /\ Judged(cmds, at, ng)[k].skip = cmds[k].skip
<1>1. \A k \in DOMAIN cmds : cmds[k] \in Updates
  BY LenProperties, ElementOfSeq
<1>2. [cmds[at] EXCEPT !.ng = ng] \in Updates
  BY <1>1 DEF Updates
<1>3. \A k \in DOMAIN cmds :
        Judged(cmds, at, ng)[k] = IF k = at THEN [cmds[at] EXCEPT !.ng = ng] ELSE cmds[k]
  BY DEF Judged
<1>4. Judged(cmds, at, ng) \in [DOMAIN cmds -> Updates]
  <2>1. DOMAIN Judged(cmds, at, ng) = DOMAIN cmds
    BY DEF Judged
  <2>2. Judged(cmds, at, ng) = [k \in DOMAIN cmds |-> Judged(cmds, at, ng)[k]]
    BY DEF Judged
  <2> QED BY <1>1, <1>2, <1>3, <2>1, <2>2
<1>5. ASSUME NEW k \in DOMAIN cmds
      PROVE  /\ Judged(cmds, at, ng)[k].name = cmds[k].name
             /\ Judged(cmds, at, ng)[k].old = cmds[k].old
             /\ Judged(cmds, at, ng)[k].new = cmds[k].new
             /\ Judged(cmds, at, ng)[k].ng = IF k = at THEN ng ELSE cmds[k].ng
             /\ Judged(cmds, at, ng)[k].skip = cmds[k].skip
  <2>1. CASE k = at
    BY <1>1, <1>3, <2>1 DEF Updates
  <2>2. CASE k # at
    BY <1>3, <2>2
  <2> QED BY <2>1, <2>2
<1> QED BY <1>4, <1>5, ReplaceUpdates

LEMMA FinishMoves ==
  ASSUME IInv, NEW p \in Pushes, push[p].step \in {"apply", "write"},
         NEW ng \in BOOLEAN, Finish(p, ng)
  PROVE  \E s \in Sessions :
           /\ Session(p, s)
           /\ s.step = AfterLast(p, "apply", "report") /\ s.at = push[p].at + 1
           /\ s.cmds = Judged(push[p].cmds, push[p].at, ng)
           /\ s.seen = push[p].seen /\ s.head = push[p].head
           /\ DOMAIN s.cmds = DOMAIN push[p].cmds
           /\ s.step \in {"apply", "report"}
           /\ s.step = "apply" => s.at \in DOMAIN s.cmds
<1> DEFINE cmds == Judged(push[p].cmds, push[p].at, ng)
           step == AfterLast(p, "apply", "report")
           s == MovedTo(push[p], step, cmds, push[p].at + 1, push[p].head)
<1>1. TypeOK /\ push[p] \in Sessions
  BY DEF IInv, TypeOK
<1>2. push[p].at \in DOMAIN push[p].cmds /\ SessionSound(push[p], objects)
  BY DEF IInv, SessionsSound, SessionSound
<1>3. /\ cmds \in Seq(Updates) /\ Len(cmds) = Len(push[p].cmds)
      /\ DOMAIN cmds = DOMAIN push[p].cmds
  <2>1. push[p].cmds \in Seq(Updates)
    BY <1>1, SessionTypes
  <2> QED BY <1>2, <2>1, JudgedProperties
<1>4. Session(p, s)
  <2>1. Session(p, [push[p] EXCEPT !.cmds[push[p].at].ng = ng, !.at = @ + 1, !.step = step])
    BY Zenon DEF Finish
  <2>2. ASSUME NEW t,
               t = [push[p] EXCEPT !.cmds[push[p].at].ng = ng, !.at = @ + 1, !.step = step]
        PROVE  t = s
    <3> HIDE DEF step
    <3> QED BY <1>1, <2>2 DEF MovedTo, Sessions, Judged
  <2> HIDE DEF s, step
  <2> QED BY <2>1, <2>2, Zenon
<1>5. DOMAIN cmds = 1..Len(cmds) /\ Len(cmds) \in Nat /\ push[p].at \in Nat \ {0}
  BY <1>1, <1>3, SessionTypes
<1>6. /\ step \in {"apply", "report"}
      /\ step = "apply" => push[p].at + 1 \in DOMAIN cmds
  BY <1>2, <1>3, <1>5 DEF AfterLast
<1>7. /\ s.step = step /\ s.cmds = cmds /\ s.at = push[p].at + 1
      /\ s.seen = push[p].seen /\ s.head = push[p].head
  BY DEF MovedTo
<1> HIDE DEF cmds, step
<1>8. s \in Sessions
  <2>1. /\ push[p].head \in Branches \cup {None} /\ push[p].at + 1 \in Nat \ {0}
        /\ step \in Checked \cup {"report"}
    BY <1>1, <1>5, <1>6 DEF Sessions, Checked
  <2> QED BY <1>1, <1>3, <2>1, MovedToTypes
<1> HIDE DEF s
<1> QED BY <1>3, <1>4, <1>6, <1>7, <1>8 DEF cmds, step

LEMMA FinishSound ==
  ASSUME IInv, Grows, NEW p \in Pushes, push[p].step \in {"apply", "write"},
         NEW ng \in BOOLEAN, Finish(p, ng), ng \/ ~Current(p).ng
  PROVE  \E s \in Sessions : Session(p, s) /\ SessionSound(s, objects')
<1>1. PICK s \in Sessions :
        /\ Session(p, s)
        /\ s.cmds = Judged(push[p].cmds, push[p].at, ng) /\ s.seen = push[p].seen
        /\ DOMAIN s.cmds = DOMAIN push[p].cmds
        /\ s.step \in {"apply", "report"}
        /\ s.step = "apply" => s.at \in DOMAIN s.cmds
  BY FinishMoves
<1>2. push[p].at \in DOMAIN push[p].cmds /\ SessionSound(push[p], objects)
  BY DEF IInv, SessionsSound, SessionSound
<1>3. \A k \in DOMAIN push[p].cmds :
        /\ s.cmds[k].name = push[p].cmds[k].name /\ s.cmds[k].old = push[p].cmds[k].old
        /\ s.cmds[k].new = push[p].cmds[k].new
        /\ s.cmds[k].ng = IF k = push[p].at THEN ng ELSE push[p].cmds[k].ng
  <2>1. push[p].cmds \in Seq(Updates)
    BY SessionTypes DEF IInv
  <2> QED BY <1>1, <1>2, <2>1, JudgedProperties
<1>4. \A k \in DOMAIN s.cmds : ~s.cmds[k].ng => ~push[p].cmds[k].ng
  BY <1>1, <1>3 DEF Current
<1>5. SessionSound(s, objects')
  <2>1. \A k \in DOMAIN s.cmds : s.cmds[k].old = s.seen[s.cmds[k].name]
    BY <1>1, <1>2, <1>3 DEF SessionSound, Checked
  <2>2. \A k \in DOMAIN s.cmds : ~s.cmds[k].ng /\ s.cmds[k].new # None /\ ~config.skipCheck
                                 => Reach[s.cmds[k].new] \subseteq objects'
    BY <1>1, <1>2, <1>3, <1>4 DEF SessionSound, Checked, Grows
  <2> QED BY <1>1, <2>1, <2>2 DEF SessionSound, Checked
<1> QED BY <1>1, <1>5

LEMMA FinishFrame ==
  ASSUME IInv, Grows, UNCHANGED user,
         NEW p \in Pushes, push[p].step \in {"apply", "write"},
         NEW ng \in BOOLEAN, Finish(p, ng), ng \/ ~Current(p).ng,
         NEW n \in Names, NEW v \in Values, v \in Objects => Sound(v, objects'),
         loose' = loose \/ loose' = [loose EXCEPT ![n] = v],
         checkout' \in Values \cup {Unknown}
  PROVE  IInv'
<1>1. PICK s \in Sessions : Session(p, s) /\ SessionSound(s, objects')
  BY FinishSound
<1> QED BY <1>1, PushFrame

(* The update at hand. *)
LEMMA CurrentTypes ==
  ASSUME IInv, NEW p \in Pushes, push[p].step \in {"apply", "write"}
  PROVE  /\ push[p].at \in DOMAIN push[p].cmds
         /\ Current(p) \in Updates
         /\ Current(p).ng \in BOOLEAN /\ Current(p).name \in Names
         /\ Current(p).new \in Objects \cup {None} /\ Current(p).new \in Values
         /\ Current(p).old = push[p].seen[Current(p).name]
         /\ ~Current(p).ng /\ Current(p).new # None /\ ~config.skipCheck
            => Reach[Current(p).new] \subseteq objects
         /\ push[p].step = "write" =>
              ~Current(p).ng /\ ~Rewinds(Current(p)) /\ Current(p).new \in Commits \cap objects
<1>1. TypeOK /\ SessionSound(push[p], objects)
  BY DEF IInv, SessionsSound
<1>2. push[p].at \in DOMAIN push[p].cmds
  BY <1>1 DEF SessionSound
<1>3. Current(p) \in Updates
  BY <1>1, <1>2, SessionTypes DEF Current
<1>4. /\ Current(p).ng \in BOOLEAN /\ Current(p).name \in Names
      /\ Current(p).new \in Objects \cup {None}
  BY <1>3 DEF Updates
<1> QED BY <1>1, <1>2, <1>3, <1>4 DEF Current, SessionSound, Checked, Values

LEMMA VerdictStep ==
  ASSUME IInv, NEW p \in Pushes,
         PassOver(p) \/ Refuse(p) \/ UpdateFails(p) \/ ResetFails(p)
  PROVE  IInv'
<1>1. /\ TypeOK /\ HEAD \in Names /\ None \in Values /\ None \notin Objects
      /\ push[p].step \in {"apply", "write"}
  BY RefTypes, ReceivePackAssumption
     DEF IInv, Values, Names, PassOver, Refuse, UpdateFails, ResetFails, ReadyToWrite, Applying
<1>2. Grows /\ UNCHANGED <<user, loose>> /\ checkout' \in Values \cup {Unknown}
  BY <1>1 DEF PassOver, Refuse, UpdateFails, ResetFails, Grows, TypeOK
<1>3. Current(p).ng \in BOOLEAN
  BY <1>1, CurrentTypes
<1>4. \E ng \in BOOLEAN : Finish(p, ng) /\ (ng \/ ~Current(p).ng)
  BY <1>3 DEF PassOver, Refuse, UpdateFails, ResetFails
<1> QED BY <1>1, <1>2, <1>4, FinishFrame

LEMMA UpdateStep ==
  ASSUME IInv, NEW p \in Pushes, UpdateRef(p)
  PROVE  IInv'
<1>1. TypeOK /\ push[p].step \in {"apply", "write"} /\ ~Current(p).ng
  BY CurrentTypes DEF IInv, UpdateRef, ReadyToWrite, Applying, PassedOver
<1>2. /\ Grows /\ UNCHANGED <<user, objects>> /\ checkout' \in Values \cup {Unknown}
      /\ Finish(p, FALSE)
      /\ loose' = [loose EXCEPT ![Current(p).name] = Current(p).new]
  BY <1>1 DEF UpdateRef, Grows, TypeOK
<1>3. Current(p).name \in Names /\ Current(p).new \in Values
  BY <1>1, CurrentTypes
<1>4. ASSUME Current(p).new \in Objects PROVE Sound(Current(p).new, objects')
  <2>1. Current(p).new # None
    BY <1>4, ReceivePackAssumption
  <2>2. Current(p).new \in objects
    BY <1>1, <2>1, CurrentTypes DEF UpdateRef, ReadyToWrite, Refused
  <2> QED BY <1>1, <1>2, <2>1, <2>2, CurrentTypes DEF Sound
<1>5. FALSE \in BOOLEAN
  OBVIOUS
<1> QED BY <1>1, <1>2, <1>3, <1>4, <1>5, FinishFrame

LEMMA ResetStep ==
  ASSUME IInv, NEW p \in Pushes, ResetWorkTree(p)
  PROVE  IInv'
<1> DEFINE new == Current(p).new
           s == MovedTo(push[p], "write", push[p].cmds, push[p].at, push[p].head)
<1>1. /\ TypeOK /\ push[p] \in Sessions /\ push[p].step = "apply" /\ ~Current(p).ng
      /\ HeadName \in Names
  BY RefTypes DEF IInv, TypeOK, ResetWorkTree, Applying, PassedOver
<1>2. /\ new \in Commits \cap objects /\ new \in Values /\ new # None
      /\ ~Rewinds(Current(p)) /\ Sound(new, objects)
  <2>1. new \in Commits /\ new \in Objects /\ new # None
    BY ReceivePackAssumption, ObjectGraphAssumption DEF ResetWorkTree
  <2>2. new \in objects /\ ~Rewinds(Current(p))
    BY <2>1 DEF ResetWorkTree, Refused, RefusedRewind, Rewinds
  <2> QED BY <1>1, <2>1, <2>2, CurrentTypes DEF Sound, Values
<1>3. /\ Grows /\ UNCHANGED <<user, objects>> /\ checkout' \in Values \cup {Unknown}
      /\ loose' = [loose EXCEPT ![HeadName] = new]
  BY <1>1, <1>2 DEF ResetWorkTree, Grows, TypeOK
<1>4. Session(p, s)
  <2>1. Session(p, [push[p] EXCEPT !.step = "write"])
    BY DEF ResetWorkTree
  <2>2. \A step : [push[p] EXCEPT !.step = step]
                    = MovedTo(push[p], step, push[p].cmds, push[p].at, push[p].head)
    BY <1>1, MovedToStep
  <2> QED BY <2>1, <2>2
<1>5. /\ s \in Sessions /\ s.step = "write" /\ s.cmds = push[p].cmds /\ s.at = push[p].at
      /\ s.seen = push[p].seen
  <2>1. /\ push[p].head \in Branches \cup {None} /\ "write" \in Checked \cup {"report"}
        /\ push[p].at \in Nat \ {0} /\ push[p].cmds \in Seq(Updates)
    BY <1>1, SessionTypes DEF Sessions, Checked
  <2> QED BY <1>1, <2>1, MovedToTypes DEF MovedTo
<1> HIDE DEF s
<1>6. SessionSound(s, objects')
  <2>1. SessionSound(push[p], objects)
    BY DEF IInv, SessionsSound
  <2> QED BY <1>1, <1>2, <1>3, <1>5, <2>1 DEF SessionSound, Checked, Current
<1> HIDE DEF new
<1> QED BY <1>1, <1>2, <1>3, <1>4, <1>5, <1>6, PushFrame
-----------------------------------------------------------------------------
(* The steps of the local user. *)
LEMMA UserFrame ==
  ASSUME IInv, Grows, UNCHANGED push,
         NEW n \in Names, NEW v \in Values, v \in Objects => Sound(v, objects'),
         loose' = loose \/ loose' = [loose EXCEPT ![n] = v],
         checkout' \in Values \cup {Unknown},
         user' \in [cmd : LocalCommands, left : Nat], CommandSound'
  PROVE  IInv'
<1>1. config' \in Configs /\ packed' \in [Names -> Objects \cup {None}] /\ objects' \subseteq Objects
  BY DEF IInv, TypeOK, Grows
<1> QED BY <1>1, PushesFrame, RefsFrame DEF IInv, TypeOK

LEMMA BeginTypes ==
  ASSUME TypeOK, NEW op \in {"branch", "branch-write", "remove", "tag-write", "commit-write"},
         NEW n \in Names, NEW oid \in Objects \cup {None}, Begin(op, n, oid)
  PROVE  /\ user' \in [cmd : LocalCommands, left : Nat]
         /\ user'.cmd.op = op /\ user'.cmd.oid = oid
<1>1. user'.left = user.left - 1 /\ user.left - 1 \in Nat
  BY DEF TypeOK, Begin
<1>2. [op |-> op, name |-> n, oid |-> oid] \in LocalCommands
  BY DEF LocalCommands
<1> QED BY <1>1, <1>2 DEF Begin

LEMMA EndTypes ==
  ASSUME IInv, EndCommand
  PROVE  user' \in [cmd : LocalCommands, left : Nat] /\ CommandSound'
<1>1. NoCommand \in LocalCommands /\ NoCommand.op = "none"
  BY DEF NoCommand, LocalCommands, Names
<1> QED BY <1>1 DEF EndCommand, IInv, TypeOK, CommandSound

LEMMA CheckingStep ==
  ASSUME IInv, (\E b \in Branches : AddBranchCheck(b) \/ RemoveBranchCheck(b))
               \/ (\E t \in Tags : RemoveTag(t))
  PROVE  IInv'
<1>1. /\ TypeOK /\ HEAD \in Names /\ None \in Values /\ None \notin Objects
  BY RefTypes, ReceivePackAssumption DEF IInv, Values, Names
<1>2. PICK op \in {"branch", "remove"}, n \in Names : Begin(op, n, None)
  BY DEF AddBranchCheck, RemoveBranchCheck, RemoveTag, Names
<1>3. user' \in [cmd : LocalCommands, left : Nat] /\ CommandSound'
  BY <1>1, <1>2, BeginTypes DEF CommandSound
<1>4. Grows /\ UNCHANGED <<push, loose>> /\ checkout' \in Values \cup {Unknown}
  BY <1>1 DEF AddBranchCheck, RemoveBranchCheck, RemoveTag, Grows, TypeOK
<1> QED BY <1>1, <1>3, <1>4, UserFrame

LEMMA BranchStep ==
  ASSUME IInv, AddBranchRead
  PROVE  IInv'
<1>1. /\ TypeOK /\ HEAD \in Names /\ None \in Values /\ None \notin Objects
      /\ HeadCommit \in Objects \cup {None}
      /\ HeadCommit \in Objects => Sound(HeadCommit, objects)
  BY RefTypes, ResolvedIsSound, ReceivePackAssumption DEF IInv, Values, HeadCommit
<1>2. Grows /\ UNCHANGED <<push, loose, objects>> /\ checkout' \in Values \cup {Unknown}
  BY <1>1 DEF AddBranchRead, Grows, TypeOK
<1>3. user' \in [cmd : LocalCommands, left : Nat] /\ CommandSound'
  <2>1. CASE HeadCommit = None
    BY <2>1, EndTypes DEF AddBranchRead
  <2>2. CASE HeadCommit # None
    <3>1. user' = [user EXCEPT !.cmd.op = "branch-write", !.cmd.oid = HeadCommit]
      BY <2>2 DEF AddBranchRead
    <3>2. user'.cmd = [user.cmd EXCEPT !.op = "branch-write", !.oid = HeadCommit]
          /\ user'.left = user.left
      BY <1>1, <3>1 DEF TypeOK, LocalCommands
    <3>3. user'.cmd \in LocalCommands /\ user'.cmd.oid = HeadCommit
      BY <1>1, <3>2 DEF TypeOK, LocalCommands
    <3>4. user' \in [cmd : LocalCommands, left : Nat]
      BY <1>1, <3>1, <3>3 DEF TypeOK
    <3> QED BY <1>1, <1>2, <3>3, <3>4 DEF CommandSound, Sound, Grows
  <2> QED BY <2>1, <2>2
<1> QED BY <1>1, <1>2, <1>3, UserFrame

(* A tag object names the commit HEAD leads to, which is sound. *)
LEMMA TagStep ==
  ASSUME IInv, NEW t \in Tags, NEW o \in Objects, AddTagObject(t, o)
  PROVE  IInv'
<1>1. /\ TypeOK /\ HEAD \in Names /\ t \in Names /\ None \in Values /\ None \notin Objects
      /\ objects \subseteq Objects /\ config' = config
  BY ReceivePackAssumption DEF IInv, TypeOK, Values, Names, AddTagObject
<1>2. Grows /\ UNCHANGED <<push, loose>> /\ checkout' \in Values \cup {Unknown}
  BY <1>1 DEF AddTagObject, Grows, TypeOK
<1>3. Sound(o, objects')
  <2>1. HeadCommit \in Objects
    BY ObjectGraphAssumption DEF AddTagObject
  <2>2. Sound(HeadCommit, objects)
    BY <1>1, <2>1, ResolvedIsSound DEF IInv, HeadCommit
  <2>3. objects' = objects \cup {o} /\ \A l \in Links[o] : l = HeadCommit
    BY DEF AddTagObject
  <2> QED BY <1>1, <2>2, <2>3, ConnectedThroughLinks DEF Sound
<1>4. Begin("tag-write", t, o)
  BY DEF AddTagObject
<1>5. user' \in [cmd : LocalCommands, left : Nat] /\ user'.cmd.oid = o
  BY <1>1, <1>4, BeginTypes
<1>6. CommandSound'
  BY <1>1, <1>3, <1>5 DEF CommandSound, Sound
<1> QED BY <1>1, <1>2, <1>5, <1>6, UserFrame

(* A new commit names its tree, which is stored with it, and the commit    *)
(* HEAD leads to.                                                          *)
LEMMA CommitStep ==
  ASSUME IInv, NEW c \in Commits, CommitObject(c)
  PROVE  IInv'
<1>1. /\ TypeOK /\ HEAD \in Names /\ None \in Values /\ None \notin Objects
      /\ c \in Objects /\ objects \subseteq Objects /\ config' = config
      /\ Links[c] \subseteq Objects
  BY ReceivePackAssumption, ObjectGraphAssumption
     DEF IInv, TypeOK, Values, Names, CommitObject
<1> DEFINE added == UNION {Reach[o] : o \in Links[c] \ Parents[c]}
<1>2. objects' = objects \cup {c} \cup added
  BY DEF CommitObject
<1>3. added \subseteq Objects
  BY <1>1, ReachProperties
<1>4. \A o \in Links[c] \ Parents[c] : Reach[o] \subseteq objects'
  BY <1>2
<1> HIDE DEF added
<1>5. Grows /\ UNCHANGED <<push, loose>> /\ checkout' \in Values \cup {Unknown}
  BY <1>1, <1>2, <1>3 DEF CommitObject, Grows, TypeOK
<1>6. Sound(c, objects')
  <2>1. c \in objects' /\ objects' \subseteq Objects
    BY <1>2, <1>5 DEF Grows
  <2>2. ASSUME ~config.skipCheck, NEW l \in Parents[c] PROVE Reach[l] \subseteq objects'
    <3>1. l = HeadCommit /\ l \in Objects
      BY <1>1, ObjectGraphAssumption DEF CommitObject
    <3>2. Sound(l, objects)
      BY <1>1, <3>1, ResolvedIsSound DEF IInv, HeadCommit
    <3> QED BY <1>2, <2>2, <3>2 DEF Sound
  <2> QED BY <1>1, <1>4, <2>1, <2>2, ConnectedThroughLinks DEF Sound
<1>7. Begin("commit-write", HEAD, c)
  BY DEF CommitObject
<1>8. user' \in [cmd : LocalCommands, left : Nat] /\ user'.cmd.oid = c
  BY <1>1, <1>7, BeginTypes
<1>9. CommandSound'
  BY <1>1, <1>6, <1>8 DEF CommandSound, Sound
<1> QED BY <1>1, <1>5, <1>8, <1>9, UserFrame

LEMMA WritingStep ==
  ASSUME IInv, WriteRef \/ UpdateHead \/ RemoveFile
  PROVE  IInv'
<1>1. /\ TypeOK /\ HeadName \in Names /\ None \in Values /\ None \notin Objects
      /\ user.cmd.name \in Names /\ user.cmd.oid \in Objects \cup {None}
      /\ user.cmd.oid \in Values
  BY RefTypes, ReceivePackAssumption DEF IInv, TypeOK, Values, LocalCommands
<1>2. Grows /\ UNCHANGED <<push, objects>> /\ checkout' \in Values \cup {Unknown}
  BY <1>1 DEF WriteRef, UpdateHead, RemoveFile, Grows, TypeOK
<1>3. EndCommand
  BY DEF WriteRef, UpdateHead, RemoveFile
<1>4. \E n \in Names, v \in Values :
        loose' = [loose EXCEPT ![n] = v] /\ (v \in Objects => Sound(v, objects'))
  <2>1. CASE RemoveFile
    BY <1>1, <2>1 DEF RemoveFile
  <2>2. CASE WriteRef \/ UpdateHead
    BY <1>1, <1>2, <2>2 DEF IInv, CommandSound, WriteRef, UpdateHead
  <2> QED BY <2>1, <2>2
<1> QED BY <1>2, <1>3, <1>4, EndTypes, UserFrame

LEMMA SwitchStep ==
  ASSUME IInv, NEW b \in Branches, Switch(b)
  PROVE  IInv'
<1>1. /\ TypeOK /\ HEAD \in Names /\ b \in Values /\ b \notin Objects
      /\ Resolve(b) \in Values
  BY ReceivePackAssumption, RefTypes DEF IInv, Values, Names
<1>2. Grows /\ UNCHANGED <<push, objects>> /\ checkout' \in Values \cup {Unknown}
      /\ loose' = [loose EXCEPT ![HEAD] = b]
  BY <1>1 DEF Switch, Grows, TypeOK
<1>3. user'.cmd = user.cmd /\ user' \in [cmd : LocalCommands, left : Nat]
  BY <1>1 DEF Switch, TypeOK
<1>4. CommandSound'
  BY <1>2, <1>3 DEF IInv, CommandSound, Sound, Grows
<1> QED BY <1>1, <1>2, <1>3, <1>4, UserFrame
-----------------------------------------------------------------------------
LEMMA NextSound == IInv /\ [Next]_vars => IInv'
<1> SUFFICES ASSUME IInv, [Next]_vars PROVE IInv'
  OBVIOUS
<1>1. CASE UNCHANGED vars
  <2>1. Grows /\ UNCHANGED <<push, user, loose, checkout>>
    BY <1>1 DEF vars, Grows, IInv, TypeOK
  <2>2. HEAD \in Names /\ None \in Values /\ None \notin Objects
    BY ReceivePackAssumption DEF Names, Values
  <2>3. checkout' \in Values \cup {Unknown}
    BY <2>1 DEF IInv, TypeOK
  <2> QED BY <2>1, <2>2, <2>3, CommandFrame, UserFrame
<1>2. ASSUME NEW p \in Pushes, PushStep(p) PROVE IInv'
  BY <1>2, AnnouncedStep, ReadStep, UnpackStep, CheckStep, AliasStep, HeadStep, VerdictStep,
     ResetStep, UpdateStep, ReportStep DEF PushStep, ServerStep
<1>3. CASE UserStarts
  BY <1>3, CheckingStep, SwitchStep, TagStep, CommitStep DEF UserStarts
<1>4. CASE UserStep
  BY <1>4, BranchStep, WritingStep DEF UserStep
<1> QED BY <1>1, <1>2, <1>3, <1>4 DEF Next

THEOREM Invariant == Spec => []IInv
BY InitSound, NextSound, PTL DEF Spec

(* TypeOK for every instance: sessions, refs and commands keep their form, *)
(* and no step of a session is about an update that is not there.          *)
THEOREM TypeCorrect == Spec => []TypeOK
<1>1. IInv => TypeOK
  BY DEF IInv
<1> QED BY <1>1, Invariant, PTL

(* RefsAreConnected for every instance: whatever the object graph, however *)
(* many pushes and commands overlap and whichever of their writes fail, a  *)
(* ref names an object from which nothing missing can be reached.          *)
THEOREM RefsStayConnected == Spec => []RefsAreConnected
<1>1. IInv => RefsAreConnected
  BY RefTypes DEF IInv, RefsSound, RefsAreConnected, Sound, Connected
<1> QED BY <1>1, Invariant, PTL

(* FastForwardOnly for every instance: with denyNonFastForwards a push     *)
(* rewinds a branch only when its value is not the one the client was      *)
(* told, because it has moved or was never announced, or when HEAD is no   *)
(* longer what the server has read.                                        *)
THEOREM PushesFastForward == Spec => FastForwardOnly
<1> DEFINE Forward ==
      \A p \in Pushes, b \in Branches :
        (/\ config.denyNonFastForwards
         /\ push'[p] # push[p] /\ loose'[b] # ReadRef(b)
         /\ ReadRef(b) = push[p].seen[b]
         /\ push[p].head \in {None, loose[HEAD]}
         /\ {ReadRef(b), loose'[b]} \subseteq Objects)
        => loose'[b] \in Commits /\ ReadRef(b) \in Ancestry[loose'[b]]
<1>1. IInv /\ [Next]_vars => [Forward]_vars
  <2> SUFFICES ASSUME IInv, Next,
                      NEW p \in Pushes, NEW b \in Branches,
                      config.denyNonFastForwards,
                      push'[p] # push[p], loose'[b] # ReadRef(b),
                      ReadRef(b) = push[p].seen[b],
                      push[p].head \in {None, loose[HEAD]},
                      ReadRef(b) \in Objects, loose'[b] \in Objects
               PROVE  loose'[b] \in Commits /\ ReadRef(b) \in Ancestry[loose'[b]]
    BY Zenon DEF Forward
  <2>1. TypeOK /\ b \in Names /\ b # HEAD /\ None \notin Objects
    BY ReceivePackAssumption DEF IInv, Names
  <2> loose'[b] # loose[b]
    BY <2>1 DEF ReadRef
  <2>2. PICK q \in Pushes : UpdateRef(q) \/ ResetWorkTree(q)
    <3>1. ~UserStarts /\ ~UserStep
      BY DEF UserStarts, UserStep, AddBranchCheck, RemoveBranchCheck, Switch, RemoveTag,
         AddTagObject, CommitObject, AddBranchRead, WriteRef, UpdateHead, RemoveFile
    <3> QED BY <3>1 DEF Next, PushStep, ServerStep, AdvertiseRefs, ReadRefUpdates, Unpack,
           UnpackFails, CheckConnectivity, FindAlias, ReadHead, PassOver, Refuse, ResetFails,
           UpdateFails, Report
  <2>3. q = p
    <3>1. \E s : push' = [push EXCEPT ![q] = s]
      BY <2>2 DEF UpdateRef, ResetWorkTree, Finish, Session
    <3> QED BY <2>1, <3>1 DEF TypeOK
  <2>4. push[p].step \in {"apply", "write"}
    BY <2>2, <2>3 DEF UpdateRef, ResetWorkTree, ReadyToWrite, Applying
  <2>5. Current(p).name = b /\ Current(p).new = loose'[b] /\ ~Rewinds(Current(p))
    <3>1. CASE UpdateRef(p)
      <4>1. Current(p).name = b /\ Current(p).new = loose'[b]
        BY <2>1, <3>1 DEF UpdateRef, TypeOK
      <4>2. ~Rewinds(Current(p))
        BY <2>4, <3>1, CurrentTypes
           DEF UpdateRef, ReadyToWrite, Refused, RefusedRewind, Rewinds
      <4> QED BY <4>1, <4>2
    <3>2. CASE ResetWorkTree(p)
      <4>1. HeadName = b /\ Current(p).new = loose'[b]
        BY <2>1, <3>2 DEF ResetWorkTree, TypeOK
      <4>2. Current(p).name = loose[HEAD] /\ loose[HEAD] # None
        BY <3>2 DEF ResetWorkTree, UpdateInstead, CheckedOut
      <4>3. loose[HEAD] = b
        BY <2>1, <4>1, <4>2 DEF HeadName, ReadRef
      <4>4. ~Rewinds(Current(p))
        BY <3>2 DEF ResetWorkTree, Refused, RefusedRewind, Rewinds
      <4> QED BY <4>1, <4>2, <4>3, <4>4
    <3> QED BY <2>2, <2>3, <3>1, <3>2
  <2>6. Current(p).old = ReadRef(b)
    BY <2>4, <2>5, CurrentTypes
  <2> QED BY <2>1, <2>5, <2>6 DEF Rewinds, Descends
<1> QED BY <1>1, Invariant, PTL DEF Spec, FastForwardOnly

-----------------------------------------------------------------------------
(* One push or command at a time. *)

Active(p) == push[p].step \notin Resting

(* The branch HEAD names, if it names one. *)
HeadBranch == IF ReadRef(HEAD) \in Branches THEN ReadRef(HEAD) ELSE None

-----------------------------------------------------------------------------
(* The inductive invariant.  Its first three parts hold however pushes and *)
(* commands overlap: only HEAD is symbolic, a command keeps what it has    *)
(* read, and an update changes something.                                  *)
OnlyHeadSymbolic == \A n \in Branches \cup Tags : loose[n] \notin Branches

CommandMeans ==
  /\ user.cmd.op \in {"branch-write", "tag-write", "commit-write"} => user.cmd.oid \in Objects
  /\ user.cmd.op \in {"branch", "branch-write"} => user.cmd.name \in Branches
  /\ user.cmd.op = "tag-write" => user.cmd.name \in Tags
  /\ user.cmd.op = "remove" => user.cmd.name \in Branches \cup Tags

Differ(cmds) == \A i \in DOMAIN cmds : cmds[i].old # cmds[i].new

UpdatesDiffer == \A p \in Pushes : Differ(push[p].cmds)

(* The rest is what a push or a command has read and still relies on when  *)
(* nothing overlaps it.                                                    *)
Alone ==
  \A p \in Pushes : Active(p) =>
    /\ user.cmd.op = "none"
    /\ \A q \in Pushes : Active(q) => q = p

CommandAlone ==
  /\ user.cmd.op \in {"branch", "branch-write"} => ReadRef(user.cmd.name) = None
  /\ user.cmd.op \in {"branch-write", "remove"} => user.cmd.name # ReadRef(HEAD)

LastOfItsName(cmds, i) == \A j \in DOMAIN cmds : cmds[j].name = cmds[i].name => j <= i

(* The updates applied so far are in the refs, and the reset before a      *)
(* write has moved the branch the write is about.                          *)
SessionAlone(s, refs, head) ==
  /\ s.step \in {"apply", "write"} => s.head = head
  /\ s.step = "write" =>
       /\ head # None
       /\ s.cmds[s.at].name = head /\ refs[head] = s.cmds[s.at].new
  /\ s.step \in {"apply", "write", "report"} =>
       \A i \in DOMAIN s.cmds :
         (/\ i < s.at \/ s.step = "report"
          /\ ~s.cmds[i].ng /\ ~s.cmds[i].skip
          /\ LastOfItsName(s.cmds, i))
         => s.cmds[i].name \in Branches \cup Tags /\ refs[s.cmds[i].name] = s.cmds[i].new

SessionsAlone == \A p \in Pushes : SessionAlone(push[p], loose, HeadBranch)

SerialInv ==
  /\ OnlyHeadSymbolic /\ CommandMeans /\ UpdatesDiffer
  /\ ~config.overlap => Alone /\ CommandAlone /\ SessionsAlone
  /\ CheckoutInStep
-----------------------------------------------------------------------------
LEMMA InitSerial == Init => SerialInv
<1> SUFFICES ASSUME Init PROVE SerialInv
  OBVIOUS
<1>1. OnlyHeadSymbolic
  BY ReceivePackAssumption DEF Init, OnlyHeadSymbolic
<1>2. CommandMeans /\ CommandAlone
  BY DEF Init, CommandMeans, CommandAlone, NoCommand
<1>3. \A p \in Pushes : push[p] = Idle
  BY DEF Init
<1>4. UpdatesDiffer
  BY <1>3 DEF UpdatesDiffer, Differ, Idle
<1>5. Alone /\ SessionsAlone
  BY <1>3 DEF Alone, Active, SessionsAlone, SessionAlone, Idle, Resting
<1>6. CheckoutInStep
  BY DEF Init, CheckoutInStep
<1> QED BY <1>1, <1>2, <1>4, <1>5, <1>6 DEF SerialInv
-----------------------------------------------------------------------------
(* What HEAD leads to when refs are written. *)

(* A ref other than HEAD, and one HEAD does not lead through. *)
LEMMA OtherRefWritten ==
  ASSUME TypeOK, UNCHANGED packed, NEW n \in Branches \cup Tags,
         NEW v, loose' = [loose EXCEPT ![n] = v]
  PROVE  /\ UNCHANGED <<HeadBranch, ReadRef(HEAD)>>
         /\ n # ReadRef(HEAD) => UNCHANGED HeadCommit
<1>1. /\ n # HEAD /\ n \in Names /\ HEAD \in Names /\ HEAD \notin Branches
      /\ \A b \in Branches : b \in Names
  BY ReceivePackAssumption DEF Names
<1>2. \A m \in Names : m # n => ReadRef(m)' = ReadRef(m)
  BY DEF TypeOK, ReadRef
<1>3. ReadRef(HEAD)' = ReadRef(HEAD)
  BY <1>1, <1>2
<1>4. n # ReadRef(HEAD) /\ ReadRef(HEAD) \in Branches
      => ReadRef(ReadRef(HEAD))' = ReadRef(ReadRef(HEAD))
  BY <1>1, <1>2, <1>3 DEF TypeOK, ReadRef
<1> QED BY <1>3, <1>4 DEF HeadCommit, HeadBranch, Resolve, ReadRef

(* The ref HEAD leads to. *)
LEMMA HeadWritten ==
  ASSUME TypeOK, UNCHANGED packed, NEW v \in Objects,
         loose' = [loose EXCEPT ![HeadName] = v]
  PROVE  /\ HeadCommit' = v
         /\ HeadBranch # None => HeadBranch' = HeadBranch
<1>1. /\ HEAD \in Names /\ HEAD \notin Branches /\ v # None /\ v \notin Branches
      /\ None \notin Branches /\ \A b \in Branches : b \in Names
  BY ReceivePackAssumption DEF Names
<1>2. CASE ReadRef(HEAD) \in Branches
  <2>1. HeadName = ReadRef(HEAD) /\ ReadRef(HEAD) = loose[HEAD]
    <3>1. packed[HEAD] \notin Branches
      BY <1>1, ReceivePackAssumption DEF TypeOK, Names
    <3> QED BY <1>2, <3>1 DEF HeadName, ReadRef
  <2>2. loose'[HEAD] = loose[HEAD] /\ loose'[loose[HEAD]] = v
    BY <1>1, <1>2, <2>1 DEF TypeOK
  <2> QED BY <1>1, <1>2, <2>1, <2>2 DEF HeadCommit, HeadBranch, Resolve, ReadRef
<1>3. CASE ReadRef(HEAD) \notin Branches
  <2>1. loose'[HEAD] = v
    BY <1>1, <1>3 DEF HeadName, TypeOK
  <2> QED BY <1>1, <1>3, <2>1 DEF HeadCommit, HeadBranch, Resolve, ReadRef
<1> QED BY <1>2, <1>3

LEMMA HeadUnchanged ==
  ASSUME UNCHANGED <<loose, packed>>
  PROVE  UNCHANGED <<HeadCommit, HeadBranch, ReadRef(HEAD)>>
BY DEF HeadCommit, HeadBranch, Resolve, ReadRef
-----------------------------------------------------------------------------
(* Frames: what a step of a push, and one of the user, has to show. *)
LEMMA PushAlone ==
  ASSUME IInv, SerialInv, UNCHANGED <<config, packed, user>>,
         NEW p \in Pushes, NEW s \in Sessions, Session(p, s),
         Active(p) \/ UNCHANGED loose,
         s.step \in Resting \/ Active(p) \/ MayStart,
         Differ(s.cmds), OnlyHeadSymbolic', CheckoutInStep',
         ~config.overlap => SessionAlone(s, loose', HeadBranch')
  PROVE  SerialInv'
<1>1. /\ push' = [push EXCEPT ![p] = s] /\ push \in [Pushes -> Sessions]
      /\ push'[p] = s /\ \A q \in Pushes : q # p => push'[q] = push[q]
  BY DEF Session, IInv, TypeOK
<1>2. CommandMeans'
  BY DEF SerialInv, CommandMeans
<1>3. UpdatesDiffer'
  BY <1>1 DEF SerialInv, UpdatesDiffer
<1>4. ASSUME ~config'.overlap PROVE Alone' /\ CommandAlone' /\ SessionsAlone'
  <2>1. ~config.overlap /\ Alone /\ CommandAlone /\ SessionsAlone
    BY <1>4 DEF SerialInv
  <2>2. s.step \notin Resting =>
          user.cmd.op = "none" /\ \A q \in Pushes : q # p => push[q].step \in Resting
    BY <2>1 DEF Alone, Active, MayStart
  <2>3. Alone'
    BY <1>1, <2>1, <2>2 DEF Alone, Active
  <2>4. CommandAlone'
    <3>1. CASE UNCHANGED loose
      BY <2>1, <3>1 DEF CommandAlone, ReadRef
    <3>2. CASE Active(p)
      BY <2>1, <3>2 DEF CommandAlone, Alone
    <3> QED BY <3>1, <3>2
  <2>5. ASSUME NEW q \in Pushes PROVE SessionAlone(push'[q], loose', HeadBranch')
    <3>1. CASE q = p
      BY <1>1, <2>1, <3>1
    <3>2. CASE q # p /\ UNCHANGED loose
      BY <1>1, <2>1, <3>2, HeadUnchanged DEF SessionsAlone
    <3>3. CASE q # p /\ Active(p)
      BY <1>1, <2>1, <3>3 DEF Alone, Active, SessionAlone, Resting
    <3> QED BY <3>1, <3>2, <3>3
  <2>6. SessionsAlone'
    BY <2>5 DEF SessionsAlone, SessionAlone, LastOfItsName
  <2> QED BY <2>3, <2>4, <2>6
<1> QED BY <1>2, <1>3, <1>4 DEF SerialInv

LEMMA UserAlone ==
  ASSUME IInv, SerialInv, UNCHANGED <<config, packed, push>>,
         user.cmd.op # "none" \/ MayStart,
         OnlyHeadSymbolic', CommandMeans', CheckoutInStep',
         ~config.overlap => CommandAlone'
  PROVE  SerialInv'
<1>1. UpdatesDiffer'
  BY DEF SerialInv, UpdatesDiffer
<1>2. ASSUME ~config'.overlap PROVE Alone' /\ CommandAlone' /\ SessionsAlone'
  <2>1. ~config.overlap /\ Alone /\ CommandAlone'
    BY <1>2 DEF SerialInv
  <2>2. \A q \in Pushes : push[q].step \in Resting
    BY <2>1 DEF Alone, Active, MayStart
  <2>3. Alone'
    BY <2>2 DEF Alone, Active
  <2>4. SessionsAlone'
    BY <2>2 DEF SessionsAlone, SessionAlone, Resting
  <2> QED BY <2>1, <2>3, <2>4
<1> QED BY <1>1, <1>2 DEF SerialInv
-----------------------------------------------------------------------------
(* The steps of a push that write nothing. *)
LEMMA QuietStep ==
  ASSUME IInv, SerialInv, UNCHANGED <<config, packed, user, loose, checkout>>,
         NEW p \in Pushes, NEW s \in Sessions, Session(p, s),
         s.step \in Resting \/ Active(p) \/ MayStart,
         Differ(s.cmds),
         ~config.overlap => SessionAlone(s, loose, HeadBranch)
  PROVE  SerialInv'
<1>1. UNCHANGED <<HeadCommit, HeadBranch>>
  BY HeadUnchanged
<1>2. OnlyHeadSymbolic'
  BY DEF SerialInv, OnlyHeadSymbolic
<1>3. CheckoutInStep'
  BY <1>1 DEF SerialInv, CheckoutInStep, DenyCurrent
<1> QED BY <1>1, <1>2, <1>3, PushAlone

LEMMA RestingSerial ==
  ASSUME IInv, SerialInv, NEW p \in Pushes, AdvertiseRefs(p) \/ UnpackFails(p) \/ Report(p)
  PROVE  SerialInv'
<1>1. UNCHANGED <<config, packed, user, loose, checkout>> /\ push[p] \in Sessions
  BY DEF AdvertiseRefs, UnpackFails, Report, IInv, TypeOK
<1>2. PICK s \in Sessions : Session(p, s) /\ s.step \in Resting /\ Differ(s.cmds)
  <2>1. CASE AdvertiseRefs(p)
    <3> DEFINE s == [push[p] EXCEPT !.step = "announced",
                                    !.seen = [n \in Names |-> Announced(n)]]
    <3>1. [n \in Names |-> Announced(n)] \in [Names -> Values]
      BY RefTypes DEF IInv
    <3>2. s \in Sessions /\ s.step = "announced" /\ s.cmds = push[p].cmds
      BY <1>1, <3>1 DEF Sessions, Resting
    <3>3. Session(p, s) /\ Differ(push[p].cmds)
      BY <2>1 DEF AdvertiseRefs, SerialInv, UpdatesDiffer
    <3> HIDE DEF s
    <3> QED BY <3>2, <3>3 DEF Resting
  <2>2. CASE UnpackFails(p) \/ Report(p)
    <3>1. PICK step \in Resting : Session(p, [Idle EXCEPT !.step = step])
      BY <2>2 DEF UnpackFails, Report, Resting
    <3> DEFINE s == [Idle EXCEPT !.step = step]
    <3>2. s \in Sessions
      BY IdleIsSound
    <3>3. s.step = step /\ s.cmds = <<>>
      BY DEF Idle
    <3>4. Session(p, s)
      BY <3>1
    <3> HIDE DEF s
    <3>5. Differ(s.cmds)
      BY <3>3 DEF Differ
    <3> QED BY <3>2, <3>3, <3>4, <3>5
  <2> QED BY <2>1, <2>2
<1>3. SessionAlone(s, loose, HeadBranch)
  BY <1>2 DEF SessionAlone, Resting
<1> QED BY <1>1, <1>2, <1>3, QuietStep

(* Only what the client wants changed is in a request. *)
LEMMA ReadSerial ==
  ASSUME IInv, SerialInv, NEW p \in Pushes, ReadRefUpdates(p)
  PROVE  SerialInv'
<1>1. /\ UNCHANGED <<config, packed, user, loose, checkout>> /\ MayStart
      /\ push[p] \in Sessions /\ push \in [Pushes -> Sessions]
  BY DEF ReadRefUpdates, IInv, TypeOK
<1>2. IInv'
  BY ReadStep
<1>3. PICK req \in Requests[p] :
        LET cmds == [i \in DOMAIN req |-> Command(p, req[i][1], req[i][2])]
        IN  /\ \A i \in DOMAIN cmds : cmds[i].old # cmds[i].new
            /\ Session(p, [push[p] EXCEPT !.cmds = cmds,
                 !.step = IF \A i \in DOMAIN cmds : cmds[i].new = None
                          THEN "check" ELSE "unpack"])
  BY Zenon DEF ReadRefUpdates
<1> DEFINE cmds == [i \in DOMAIN req |-> Command(p, req[i][1], req[i][2])]
           step == IF \A i \in DOMAIN cmds : cmds[i].new = None THEN "check" ELSE "unpack"
           s == [push[p] EXCEPT !.cmds = cmds, !.step = step]
<1>4. Differ(cmds) /\ Session(p, s)
  BY <1>3, Zenon DEF Differ
<1>5. step \in {"check", "unpack"}
  OBVIOUS
<1> HIDE DEF cmds, step
<1>6. s.step = step /\ s.cmds = cmds
  BY <1>1 DEF Sessions
<1> HIDE DEF s
<1>7. s \in Sessions
  <2>1. push'[p] = s
    BY <1>1, <1>4 DEF Session
  <2> QED BY <1>2, <2>1 DEF IInv, TypeOK
<1>8. SessionAlone(s, loose, HeadBranch)
  BY <1>5, <1>6 DEF SessionAlone
<1> QED BY <1>1, <1>4, <1>6, <1>7, <1>8, QuietStep

LEMMA UnpackSerial ==
  ASSUME IInv, SerialInv, NEW p \in Pushes, Unpack(p)
  PROVE  SerialInv'
<1> DEFINE s == [push[p] EXCEPT !.step = "check"]
<1>1. /\ UNCHANGED <<config, packed, user, loose, checkout>> /\ push[p] \in Sessions
      /\ Active(p) /\ Session(p, s)
  BY DEF Unpack, IInv, TypeOK, Active, Resting
<1>2. s \in Sessions /\ s.step = "check" /\ s.cmds = push[p].cmds
  BY <1>1 DEF Sessions
<1>3. Differ(push[p].cmds)
  BY DEF SerialInv, UpdatesDiffer
<1> HIDE DEF s
<1>4. SessionAlone(s, loose, HeadBranch)
  BY <1>2 DEF SessionAlone
<1> QED BY <1>1, <1>2, <1>3, <1>4, QuietStep

LEMMA PushedSession ==
  ASSUME IInv, IInv', NEW p \in Pushes, NEW s, Session(p, s)
  PROVE  s \in Sessions
<1>1. push'[p] = s
  BY DEF Session, IInv, TypeOK
<1> QED BY <1>1 DEF IInv, TypeOK

LEMMA CheckSerial ==
  ASSUME IInv, SerialInv, NEW p \in Pushes, CheckConnectivity(p)
  PROVE  SerialInv'
<1> DEFINE checked(c) ==
             [c EXCEPT !.ng = ~config.skipCheck /\ c.new # None /\ ~Connected(c.new)]
           cmds == [i \in DOMAIN push[p].cmds |-> checked(push[p].cmds[i])]
           step == IF \A i \in DOMAIN cmds : cmds[i].ng THEN "report" ELSE "alias"
           s == [push[p] EXCEPT !.cmds = cmds, !.at = 1, !.step = step]
<1>1. /\ UNCHANGED <<config, packed, user, loose, checkout>> /\ push[p] \in Sessions
      /\ Active(p) /\ IInv'
  BY CheckStep DEF CheckConnectivity, IInv, TypeOK, Active, Resting
<1>2. Session(p, s)
  BY Zenon DEF CheckConnectivity
<1>3. step \in {"report", "alias"} /\ (step = "report" => \A i \in DOMAIN cmds : cmds[i].ng)
  OBVIOUS
<1>4. ASSUME NEW i \in DOMAIN cmds PROVE cmds[i].old # cmds[i].new
  <2>1. push[p].cmds[i] \in Updates /\ push[p].cmds[i].old # push[p].cmds[i].new
    BY SessionTypes DEF IInv, SerialInv, UpdatesDiffer, Differ
  <2>2. cmds[i] = checked(push[p].cmds[i])
    OBVIOUS
  <2>3. \A c \in Updates : checked(c).old = c.old /\ checked(c).new = c.new
    BY DEF Updates
  <2> HIDE DEF checked, cmds
  <2> QED BY <2>1, <2>2, <2>3
<1>5. Differ(cmds)
  BY <1>4 DEF Differ
<1> HIDE DEF cmds, step, checked
<1>6. s.step = step /\ s.cmds = cmds
  BY <1>1 DEF Sessions
<1>7. s \in Sessions
  BY <1>1, <1>2, PushedSession
<1> HIDE DEF s
<1>8. SessionAlone(s, loose, HeadBranch)
  BY <1>3, <1>6 DEF SessionAlone
<1> QED BY <1>1, <1>2, <1>5, <1>6, <1>7, <1>8, QuietStep

LEMMA AliasSerial ==
  ASSUME IInv, SerialInv, NEW p \in Pushes, FindAlias(p)
  PROVE  SerialInv'
<1> DEFINE cmds == Aliased(push[p].cmds, push[p].at)
           step == AfterLast(p, "alias", "head")
           s == [push[p] EXCEPT !.cmds = cmds, !.at = push[p].at + 1, !.step = step]
<1>1. /\ UNCHANGED <<config, packed, user, loose, checkout>> /\ push[p] \in Sessions
      /\ Active(p) /\ IInv'
  BY AliasStep DEF FindAlias, IInv, TypeOK, Active, Resting
<1>2. Session(p, s)
  BY Zenon DEF FindAlias
<1>3. step \in {"alias", "head"}
  BY DEF AfterLast
<1>4. Differ(cmds)
  <2>1. push[p].cmds \in Seq(Updates) /\ push[p].at \in DOMAIN push[p].cmds
    BY SessionTypes DEF IInv, SessionsSound, SessionSound, FindAlias
  <2>2. /\ DOMAIN cmds = DOMAIN push[p].cmds
        /\ \A k \in DOMAIN cmds :
             cmds[k].old = push[p].cmds[k].old /\ cmds[k].new = push[p].cmds[k].new
    BY <2>1, AliasedProperties, Zenon
  <2>3. Differ(push[p].cmds)
    BY DEF SerialInv, UpdatesDiffer
  <2> HIDE DEF cmds
  <2> QED BY <2>2, <2>3 DEF Differ
<1> HIDE DEF cmds, step
<1>5. s.step = step /\ s.cmds = cmds
  BY <1>1 DEF Sessions
<1>6. s \in Sessions
  BY <1>1, <1>2, PushedSession
<1> HIDE DEF s
<1>7. SessionAlone(s, loose, HeadBranch)
  BY <1>3, <1>5 DEF SessionAlone
<1> QED BY <1>1, <1>2, <1>4, <1>5, <1>6, <1>7, QuietStep

LEMMA HeadSerial ==
  ASSUME IInv, SerialInv, NEW p \in Pushes, ReadHead(p)
  PROVE  SerialInv'
<1> DEFINE s == [push[p] EXCEPT !.at = 1, !.step = "apply", !.head = HeadBranch]
<1>1. /\ UNCHANGED <<config, packed, user, loose, checkout>> /\ push[p] \in Sessions
      /\ Active(p) /\ IInv'
  BY HeadStep DEF ReadHead, IInv, TypeOK, Active, Resting
<1>2. Session(p, s)
  BY Zenon DEF ReadHead, HeadBranch
<1>3. s.step = "apply" /\ s.cmds = push[p].cmds /\ s.at = 1 /\ s.head = HeadBranch
  BY <1>1 DEF Sessions
<1>4. s \in Sessions
  BY <1>1, <1>2, PushedSession
<1> HIDE DEF s
<1>5. Differ(push[p].cmds)
  BY DEF SerialInv, UpdatesDiffer
<1>6. \A i \in DOMAIN push[p].cmds : ~(i < 1)
  BY SessionTypes DEF IInv
<1>7. SessionAlone(s, loose, HeadBranch)
  BY <1>3, <1>6 DEF SessionAlone
<1> QED BY <1>1, <1>2, <1>3, <1>4, <1>5, <1>7, QuietStep
-----------------------------------------------------------------------------
(* The end of an update: what has been applied is in the refs. *)
LEMMA FinishAlone ==
  ASSUME IInv, SerialInv, UNCHANGED <<config, packed, user>>,
         NEW p \in Pushes, push[p].step \in {"apply", "write"},
         NEW ng \in BOOLEAN, Finish(p, ng),
         \/ loose' = loose /\ (ng \/ Current(p).skip)
         \/ /\ loose' = [loose EXCEPT ![Current(p).name] = Current(p).new]
            /\ ~config.overlap => Current(p).name \in Branches \cup Tags,
         ~config.overlap => HeadBranch' = HeadBranch,
         CheckoutInStep'
  PROVE  SerialInv'
<1>1. PICK s \in Sessions :
        /\ Session(p, s)
        /\ s.step = AfterLast(p, "apply", "report") /\ s.at = push[p].at + 1
        /\ s.cmds = Judged(push[p].cmds, push[p].at, ng)
        /\ s.head = push[p].head
        /\ DOMAIN s.cmds = DOMAIN push[p].cmds
        /\ s.step \in {"apply", "report"}
  BY FinishMoves
<1> DEFINE cmds == push[p].cmds
           at == push[p].at
<1>2. /\ cmds \in Seq(Updates) /\ at \in DOMAIN cmds /\ at \in Nat
      /\ DOMAIN cmds = 1..Len(cmds) /\ Len(cmds) \in Nat
      /\ Current(p) \in Updates /\ Current(p) = cmds[at]
  BY SessionTypes, CurrentTypes DEF IInv, Current
<1>3. \A k \in DOMAIN cmds :
        /\ s.cmds[k].name = cmds[k].name /\ s.cmds[k].old = cmds[k].old
        /\ s.cmds[k].new = cmds[k].new /\ s.cmds[k].skip = cmds[k].skip
        /\ s.cmds[k].ng = IF k = at THEN ng ELSE cmds[k].ng
  BY <1>1, <1>2, JudgedProperties, SMTT(20)
<1>4. Differ(s.cmds)
  BY <1>1, <1>3 DEF SerialInv, UpdatesDiffer, Differ
<1>5. \A n \in Names : loose'[n] = loose[n] \/ n = Current(p).name
  BY DEF IInv, TypeOK
<1>6. OnlyHeadSymbolic'
  <2>1. Current(p).new \notin Branches
    BY <1>2, ReceivePackAssumption DEF Updates, Names
  <2> QED BY <2>1 DEF SerialInv, OnlyHeadSymbolic, IInv, TypeOK, Names
<1>7. ASSUME ~config.overlap PROVE SessionAlone(s, loose', HeadBranch')
  <2>1. SessionAlone(push[p], loose, HeadBranch) /\ HeadBranch' = HeadBranch
    BY <1>7 DEF SerialInv, SessionsAlone
  <2>2. s.head = HeadBranch'
    BY <1>1, <2>1 DEF SessionAlone
  <2>3. ASSUME NEW i \in DOMAIN cmds, i < s.at \/ s.step = "report",
               ~s.cmds[i].ng, ~s.cmds[i].skip, LastOfItsName(s.cmds, i)
        PROVE  s.cmds[i].name \in Branches \cup Tags /\ loose'[s.cmds[i].name] = s.cmds[i].new
    <3>1. i <= at
      BY <1>1, <1>2, <2>3 DEF AfterLast
    <3>2. LastOfItsName(cmds, i)
      BY <1>1, <1>3, <2>3 DEF LastOfItsName
    <3>0. /\ s.cmds[i].name = cmds[i].name /\ s.cmds[i].new = cmds[i].new
          /\ s.cmds[i].skip = cmds[i].skip
          /\ s.cmds[i].ng = IF i = at THEN ng ELSE cmds[i].ng
      BY <1>3, <2>3
    <3>3. CASE i = at
      <4>1. Current(p) = cmds[i]
        BY <1>2, <3>3
      <4> HIDE DEF cmds, at
      <4>2. /\ ~ng /\ ~Current(p).skip
            /\ s.cmds[i].name = Current(p).name /\ s.cmds[i].new = Current(p).new
        BY <2>3, <3>0, <3>3, <4>1
      <4>3. Current(p).name \in Branches \cup Tags
        BY <1>7, <4>2
      <4>4. loose'[Current(p).name] = Current(p).new
        BY <4>2, <4>3 DEF IInv, TypeOK, Names
      <4> QED BY <4>2, <4>3, <4>4
    <3>4. CASE i # at
      <4>1. i < at /\ ~cmds[i].ng /\ ~cmds[i].skip
        <5> HIDE DEF cmds, at
        <5> QED BY <1>2, <2>3, <3>0, <3>1, <3>4
      <4>2. cmds[i].name \in Branches \cup Tags /\ loose[cmds[i].name] = cmds[i].new
        BY <2>1, <3>2, <4>1 DEF SessionAlone
      <4>3. cmds[i].name # cmds[at].name
        BY <1>2, <3>2, <4>1 DEF LastOfItsName
      <4> HIDE DEF cmds, at
      <4>4. loose'[cmds[i].name] = loose[cmds[i].name]
        BY <1>2, <1>5, <4>2, <4>3 DEF Names
      <4> QED BY <3>0, <4>2, <4>4
    <3> QED BY <3>3, <3>4
  <2> QED BY <1>1, <2>2, <2>3 DEF SessionAlone
<1>8. Active(p)
  BY DEF Active, Resting
<1> QED BY <1>1, <1>4, <1>6, <1>7, <1>8, PushAlone

LEMMA VerdictSerial ==
  ASSUME IInv, SerialInv, NEW p \in Pushes,
         PassOver(p) \/ Refuse(p) \/ UpdateFails(p) \/ ResetFails(p)
  PROVE  SerialInv'
<1>1. /\ UNCHANGED <<config, packed, user, loose>> /\ checkout' \in {checkout, Unknown}
      /\ push[p].step \in {"apply", "write"}
  BY DEF PassOver, Refuse, UpdateFails, ResetFails, ReadyToWrite, Applying
<1>2. UNCHANGED <<HeadCommit, HeadBranch>>
  BY <1>1, HeadUnchanged
<1>3. CheckoutInStep'
  BY <1>1, <1>2 DEF SerialInv, CheckoutInStep, DenyCurrent
<1>4. Current(p).ng \in BOOLEAN
  BY <1>1, CurrentTypes
<1>5. \E ng \in BOOLEAN : Finish(p, ng) /\ (ng \/ Current(p).skip)
  BY <1>4 DEF PassOver, PassedOver, Refuse, UpdateFails, ResetFails
<1> QED BY <1>1, <1>2, <1>3, <1>5, FinishAlone

(* An update that is written is about a branch or a tag, and about the     *)
(* branch HEAD names only when the server is told to let it through, or    *)
(* the reset has moved it already.                                         *)
LEMMA WrittenRef ==
  ASSUME IInv, SerialInv, NEW p \in Pushes, ReadyToWrite(p)
  PROVE  /\ push[p].step \in {"apply", "write"} /\ Active(p)
         /\ ~config.overlap => Current(p).name \in Branches \cup Tags
         /\ ~config.overlap /\ Current(p).name = ReadRef(HEAD) =>
              \/ push[p].step = "write" /\ loose[Current(p).name] = Current(p).new
              \/ CheckedOut(p) /\ ~Refused(p) /\ ~UpdateInstead(p)
<1>1. push[p].step \in {"apply", "write"} /\ Active(p)
  BY DEF ReadyToWrite, Applying, Active, Resting
<1>2. CASE config.overlap
  BY <1>1, <1>2
<1>3. CASE ~config.overlap
  <2>1. SessionAlone(push[p], loose, HeadBranch) /\ push[p].head = HeadBranch
    BY <1>1, <1>3 DEF SerialInv, SessionsAlone, SessionAlone
  <2>2. CASE push[p].step = "write"
    BY <1>1, <2>1, <2>2 DEF SessionAlone, HeadBranch, Current
  <2>3. CASE push[p].step # "write"
    <3>1. ~Refused(p) /\ ~UpdateInstead(p) /\ Current(p).name \in Branches \cup Tags
      BY <2>3 DEF ReadyToWrite, Refused, RefusedName
    <3>2. ASSUME Current(p).name = ReadRef(HEAD) PROVE CheckedOut(p)
      <4>1. HEAD \in Names /\ ReadRef(HEAD) \in Values
        BY RefTypes DEF IInv
      <4>2. ReadRef(HEAD) \in Branches /\ ReadRef(HEAD) # None
        BY <3>1, <3>2, <4>1, ReceivePackAssumption DEF Values, Names
      <4> QED BY <2>1, <3>2, <4>2 DEF CheckedOut, HeadBranch
    <3> QED BY <1>1, <3>1, <3>2
  <2> QED BY <2>2, <2>3
<1> QED BY <1>2, <1>3

LEMMA UpdateSerial ==
  ASSUME IInv, SerialInv, NEW p \in Pushes, UpdateRef(p)
  PROVE  SerialInv'
<1>1. /\ UNCHANGED <<config, packed, user, checkout>> /\ ReadyToWrite(p) /\ Finish(p, FALSE)
      /\ loose' = [loose EXCEPT ![Current(p).name] = Current(p).new]
      /\ TypeOK
  BY DEF UpdateRef, IInv
<1>2. push[p].step \in {"apply", "write"}
  BY <1>1, WrittenRef
<1>3. ASSUME ~config.overlap
      PROVE  HeadBranch' = HeadBranch /\ CheckoutInStep'
  <2>1. Current(p).name \in Branches \cup Tags
    BY <1>1, <1>3, WrittenRef
  <2>2. HeadBranch' = HeadBranch
    BY <1>1, <2>1, OtherRefWritten
  <2>3. CASE Current(p).name # ReadRef(HEAD)
    <3>1. HeadCommit' = HeadCommit
      BY <1>1, <2>1, <2>3, OtherRefWritten
    <3> QED BY <1>1, <2>2, <3>1 DEF SerialInv, CheckoutInStep, DenyCurrent
  <2>4. CASE Current(p).name = ReadRef(HEAD) /\ loose[Current(p).name] = Current(p).new
    <3>1. loose' = loose
      BY <1>1, <2>4 DEF TypeOK
    <3>2. HeadCommit' = HeadCommit
      BY <1>1, <3>1, HeadUnchanged
    <3> QED BY <1>1, <2>2, <3>2 DEF SerialInv, CheckoutInStep, DenyCurrent
  <2>5. CASE CheckedOut(p) /\ ~Refused(p) /\ ~UpdateInstead(p)
    <3>1. DenyCurrent \in {"unconfigured", "ignore", "warn", "refuse", "updateinstead"}
      BY <1>1 DEF DenyCurrent, DenyPolicy, TypeOK, Configs, Settings
    <3>2. DenyCurrent \in {"ignore", "warn"}
      BY <2>5, <3>1 DEF Refused, RefusedCurrent, UpdateInstead
    <3> QED BY <1>1, <2>2, <3>2 DEF CheckoutInStep, DenyCurrent
  <2> QED BY <1>1, <1>3, <2>3, <2>4, <2>5, WrittenRef
<1>4. CheckoutInStep'
  BY <1>1, <1>3 DEF CheckoutInStep
<1>5. FALSE \in BOOLEAN /\ (~config.overlap => Current(p).name \in Branches \cup Tags)
  BY <1>1, WrittenRef
<1> QED BY <1>1, <1>2, <1>3, <1>4, <1>5, FinishAlone

LEMMA ResetSerial ==
  ASSUME IInv, SerialInv, NEW p \in Pushes, ResetWorkTree(p)
  PROVE  SerialInv'
<1> DEFINE new == Current(p).new
           s == [push[p] EXCEPT !.step = "write"]
<1>1. /\ UNCHANGED <<config, packed, user>> /\ TypeOK /\ push[p] \in Sessions
      /\ push[p].step = "apply" /\ Active(p) /\ IInv'
      /\ checkout' = IF HeadCommit = new THEN checkout ELSE new
      /\ loose' = [loose EXCEPT ![HeadName] = new] /\ CheckedOut(p)
  BY ResetStep DEF ResetWorkTree, IInv, TypeOK, Applying, Active, Resting, UpdateInstead
<1>2. new \in Objects /\ new \notin Branches
  BY ReceivePackAssumption, ObjectGraphAssumption DEF ResetWorkTree, Names
<1>3. Session(p, s)
  BY DEF ResetWorkTree
<1>4. s \in Sessions
  BY <1>1, <1>3, PushedSession
<1>5. /\ s.step = "write" /\ s.cmds = push[p].cmds /\ s.at = push[p].at
      /\ s.head = push[p].head
  BY <1>1 DEF Sessions
<1> HIDE DEF s, new
<1>6. HeadCommit' = new /\ (HeadBranch # None => HeadBranch' = HeadBranch)
  BY <1>1, <1>2, HeadWritten
<1>7. OnlyHeadSymbolic'
  BY <1>1, <1>2 DEF SerialInv, OnlyHeadSymbolic, TypeOK, Names
<1>8. CheckoutInStep'
  BY <1>1, <1>6 DEF SerialInv, CheckoutInStep, DenyCurrent
<1>9. Differ(push[p].cmds)
  BY DEF SerialInv, UpdatesDiffer
<1>10. ASSUME ~config.overlap PROVE SessionAlone(s, loose', HeadBranch')
  <2>1. SessionAlone(push[p], loose, HeadBranch)
    BY <1>10 DEF SerialInv, SessionsAlone
  <2>2. /\ push[p].head = HeadBranch /\ HeadBranch # None /\ HeadName = HeadBranch
        /\ Current(p).name = HeadBranch /\ HeadBranch' = HeadBranch
        /\ HeadBranch \in Names
    BY <1>1, <1>6, <2>1 DEF SessionAlone, CheckedOut, HeadBranch, HeadName, Names
  <2>3. loose'[HeadBranch] = new /\ \A n \in Names : n # HeadBranch => loose'[n] = loose[n]
    BY <1>1, <2>2 DEF TypeOK
  <2>4. push[p].at \in DOMAIN push[p].cmds /\ DOMAIN push[p].cmds = 1..Len(push[p].cmds)
        /\ Len(push[p].cmds) \in Nat
    BY <1>1, CurrentTypes, SessionTypes
  <2>5. ASSUME NEW i \in DOMAIN push[p].cmds, i < push[p].at,
               ~push[p].cmds[i].ng, ~push[p].cmds[i].skip, LastOfItsName(push[p].cmds, i)
        PROVE  /\ push[p].cmds[i].name \in Branches \cup Tags
               /\ loose'[push[p].cmds[i].name] = push[p].cmds[i].new
    <3>1. /\ push[p].cmds[i].name \in Branches \cup Tags
          /\ loose[push[p].cmds[i].name] = push[p].cmds[i].new
      BY <1>1, <2>1, <2>5 DEF SessionAlone
    <3>2. push[p].cmds[i].name # HeadBranch
      BY <2>2, <2>4, <2>5 DEF LastOfItsName, Current
    <3> QED BY <2>3, <3>1, <3>2 DEF Names
  <2> QED BY <1>5, <2>2, <2>3, <2>5 DEF SessionAlone, Current, new
<1> QED BY <1>1, <1>3, <1>4, <1>5, <1>7, <1>8, <1>9, <1>10, PushAlone
-----------------------------------------------------------------------------
(* The steps of the local user. *)
LEMMA BeginSerial ==
  ASSUME IInv, SerialInv,
         \/ \E b \in Branches : AddBranchCheck(b) \/ RemoveBranchCheck(b)
         \/ \E t \in Tags : RemoveTag(t)
         \/ \E t \in Tags, o \in Objects : AddTagObject(t, o)
         \/ \E c \in Commits : CommitObject(c)
  PROVE  SerialInv'
<1>1. /\ UNCHANGED <<config, packed, push, loose, checkout>> /\ MayStart
  BY DEF AddBranchCheck, RemoveBranchCheck, RemoveTag, AddTagObject, CommitObject, Begin
<1>2. UNCHANGED <<HeadCommit, ReadRef(HEAD)>>
  BY <1>1, HeadUnchanged
<1>3. OnlyHeadSymbolic' /\ CheckoutInStep'
  BY <1>1, <1>2 DEF SerialInv, OnlyHeadSymbolic, CheckoutInStep, DenyCurrent
<1>4. PICK op, n, oid :
        /\ Begin(op, n, oid)
        /\ \/ op = "branch" /\ n \in Branches /\ ReadRef(n) = None
           \/ op = "remove" /\ n \in Branches \cup Tags /\ n # ReadRef(HEAD)
           \/ op = "tag-write" /\ n \in Tags /\ oid \in Objects
           \/ op = "commit-write" /\ oid \in Objects
  <2>1. HEAD \in Names /\ ReadRef(HEAD) \in Values /\ Tags \cap Values = {}
        /\ Commits \subseteq Objects
    BY RefTypes, ReceivePackAssumption, ObjectGraphAssumption DEF IInv, Values, Names
  <2> QED BY <2>1 DEF AddBranchCheck, RemoveBranchCheck, RemoveTag, AddTagObject, CommitObject
<1>5. user'.cmd.op = op /\ user'.cmd.name = n /\ user'.cmd.oid = oid
  BY <1>4 DEF Begin
<1>6. CommandMeans'
  BY <1>4, <1>5 DEF CommandMeans
<1>7. CommandAlone'
  BY <1>1, <1>2, <1>4, <1>5 DEF CommandAlone, ReadRef
<1> QED BY <1>1, <1>3, <1>6, <1>7, UserAlone

(* Only a branch that is not there is added, so HEAD, which leads to a     *)
(* commit, does not name it.                                               *)
LEMMA BranchSerial ==
  ASSUME IInv, SerialInv, AddBranchRead
  PROVE  SerialInv'
<1>1. /\ UNCHANGED <<config, packed, push, loose, checkout>> /\ user.cmd.op = "branch"
      /\ TypeOK
  BY DEF AddBranchRead, IInv
<1>2. UNCHANGED <<HeadCommit, ReadRef(HEAD)>>
  BY <1>1, HeadUnchanged
<1>3. OnlyHeadSymbolic' /\ CheckoutInStep'
  BY <1>1, <1>2 DEF SerialInv, OnlyHeadSymbolic, CheckoutInStep, DenyCurrent
<1>4. CASE HeadCommit = None
  <2>1. user'.cmd.op = "none"
    BY <1>1, <1>4 DEF AddBranchRead, EndCommand, NoCommand, TypeOK
  <2> QED BY <1>1, <1>3, <2>1, UserAlone DEF CommandMeans, CommandAlone
<1>5. CASE HeadCommit # None
  <2>1. /\ user'.cmd.op = "branch-write" /\ user'.cmd.oid = HeadCommit
        /\ user'.cmd.name = user.cmd.name
    <3>1. user' = [user EXCEPT !.cmd.op = "branch-write", !.cmd.oid = HeadCommit]
      BY <1>5 DEF AddBranchRead
    <3>2. user'.cmd = [user.cmd EXCEPT !.op = "branch-write", !.oid = HeadCommit]
      BY <1>1, <3>1 DEF TypeOK, LocalCommands
    <3> QED BY <1>1, <3>2 DEF TypeOK, LocalCommands
  <2>2. HeadCommit \in Objects
    BY <1>1, <1>5, RefTypes DEF HeadCommit
  <2>3. CommandMeans'
    BY <1>1, <2>1, <2>2 DEF SerialInv, CommandMeans
  <2>4. ASSUME ~config.overlap PROVE CommandAlone'
    <3>1. ReadRef(user.cmd.name) = None /\ user.cmd.name \in Branches
      BY <1>1, <2>4 DEF SerialInv, CommandAlone, CommandMeans
    <3>2. user.cmd.name # ReadRef(HEAD)
      BY <1>5, <3>1, ReceivePackAssumption DEF HeadCommit, Resolve, Names
    <3> QED BY <1>1, <1>2, <2>1, <3>1, <3>2 DEF CommandAlone, ReadRef
  <2> QED BY <1>1, <1>3, <2>3, <2>4, UserAlone
<1> QED BY <1>4, <1>5

LEMMA WriteSerial ==
  ASSUME IInv, SerialInv, WriteRef \/ RemoveFile
  PROVE  /\ SerialInv'
         /\ ~config.overlap => HeadCommit' = HeadCommit
<1>1. /\ UNCHANGED <<config, packed, push, checkout>> /\ TypeOK /\ EndCommand
      /\ user.cmd.op \in {"branch-write", "tag-write", "remove"}
  BY DEF WriteRef, RemoveFile, IInv
<1>2. user.cmd.name \in Branches \cup Tags
  BY <1>1 DEF SerialInv, CommandMeans
<1>3. PICK v \in Objects \cup {None} : loose' = [loose EXCEPT ![user.cmd.name] = v]
  BY <1>1 DEF WriteRef, RemoveFile, TypeOK, LocalCommands
<1>4. OnlyHeadSymbolic'
  <2>1. v \notin Branches
    BY ReceivePackAssumption DEF Names
  <2> QED BY <1>1, <1>3, <2>1 DEF SerialInv, OnlyHeadSymbolic, TypeOK, Names
<1>5. user'.cmd.op = "none"
  BY <1>1 DEF EndCommand, NoCommand, TypeOK
<1>6. ASSUME ~config.overlap PROVE HeadCommit' = HeadCommit
  <2>1. user.cmd.name # ReadRef(HEAD)
    <3>1. CASE user.cmd.op = "tag-write"
      <4>1. HEAD \in Names /\ ReadRef(HEAD) \in Values /\ Tags \cap Values = {}
        BY <1>1, RefTypes, ReceivePackAssumption DEF Values, Names
      <4> QED BY <3>1, <4>1 DEF SerialInv, CommandMeans
    <3>2. CASE user.cmd.op # "tag-write"
      BY <1>1, <1>6, <3>2 DEF SerialInv, CommandAlone
    <3> QED BY <3>1, <3>2
  <2> QED BY <1>1, <1>2, <1>3, <2>1, OtherRefWritten
<1>7. CheckoutInStep'
  BY <1>1, <1>6 DEF SerialInv, CheckoutInStep, DenyCurrent
<1>8. CommandMeans' /\ CommandAlone'
  BY <1>5 DEF CommandMeans, CommandAlone
<1>9. SerialInv'
  BY <1>1, <1>4, <1>7, <1>8, UserAlone
<1> QED BY <1>6, <1>9

LEMMA UpdateHeadSerial ==
  ASSUME IInv, SerialInv, UpdateHead
  PROVE  SerialInv' /\ HeadCommit' \in Objects
<1>1. /\ UNCHANGED <<config, packed, push>> /\ TypeOK /\ EndCommand
      /\ user.cmd.op = "commit-write" /\ checkout' = user.cmd.oid
      /\ loose' = [loose EXCEPT ![HeadName] = user.cmd.oid]
  BY DEF UpdateHead, IInv
<1>2. user.cmd.oid \in Objects /\ user.cmd.oid \notin Branches
  BY <1>1, ReceivePackAssumption DEF SerialInv, CommandMeans, Names
<1>3. HeadCommit' = user.cmd.oid
  BY <1>1, <1>2, HeadWritten
<1>4. OnlyHeadSymbolic' /\ CheckoutInStep'
  BY <1>1, <1>2, <1>3 DEF SerialInv, OnlyHeadSymbolic, CheckoutInStep, TypeOK, Names
<1>5. user'.cmd.op = "none"
  BY <1>1 DEF EndCommand, NoCommand, TypeOK
<1>6. CommandMeans' /\ CommandAlone'
  BY <1>5 DEF CommandMeans, CommandAlone
<1>7. SerialInv'
  BY <1>1, <1>4, <1>6, UserAlone
<1> QED BY <1>2, <1>3, <1>7

LEMMA SwitchSerial ==
  ASSUME IInv, SerialInv, NEW b \in Branches, Switch(b)
  PROVE  SerialInv' /\ HeadCommit' \in Objects
<1>1. /\ UNCHANGED <<config, packed, push>> /\ TypeOK /\ MayStart
      /\ user.cmd.op = "none" /\ checkout' = Resolve(b)
      /\ loose' = [loose EXCEPT ![HEAD] = b] /\ Resolve(b) \in Commits
  BY DEF Switch, IInv
<1>2. user'.cmd.op = "none"
  BY <1>1 DEF Switch, TypeOK
<1>3. /\ HEAD \in Names /\ b \in Names /\ b # HEAD /\ b # None
      /\ \A n \in Names : packed[n] \notin Branches
      /\ HEAD \notin Branches \cup Tags
  BY <1>1, ReceivePackAssumption DEF Names, TypeOK
<1>4. HeadCommit' = Resolve(b)
  <2>1. loose'[HEAD] = b /\ loose'[b] = loose[b]
    BY <1>1, <1>3 DEF TypeOK
  <2>2. ReadRef(b) \notin Branches
    BY <1>3 DEF SerialInv, OnlyHeadSymbolic, ReadRef
  <2> QED BY <1>1, <1>3, <2>1, <2>2 DEF HeadCommit, Resolve, ReadRef
<1>5. OnlyHeadSymbolic' /\ CheckoutInStep'
  BY <1>1, <1>3, <1>4 DEF SerialInv, OnlyHeadSymbolic, CheckoutInStep, TypeOK, Names
<1>6. CommandMeans' /\ CommandAlone'
  BY <1>2 DEF CommandMeans, CommandAlone
<1>7. SerialInv'
  BY <1>1, <1>5, <1>6, UserAlone
<1> QED BY <1>1, <1>4, <1>7, ObjectGraphAssumption
-----------------------------------------------------------------------------
LEMMA NextSerial == IInv /\ SerialInv /\ [Next]_vars => SerialInv'
<1> SUFFICES ASSUME IInv, SerialInv, [Next]_vars PROVE SerialInv'
  OBVIOUS
<1>1. CASE UNCHANGED vars
  BY <1>1 DEF vars, SerialInv, OnlyHeadSymbolic, CommandMeans, UpdatesDiffer, Alone, Active,
     CommandAlone, SessionsAlone, SessionAlone, LastOfItsName, HeadBranch, ReadRef,
     CheckoutInStep, DenyCurrent, HeadCommit, Resolve
<1>2. ASSUME NEW p \in Pushes, PushStep(p) PROVE SerialInv'
  BY <1>2, RestingSerial, ReadSerial, UnpackSerial, CheckSerial, AliasSerial, HeadSerial,
     VerdictSerial, UpdateSerial, ResetSerial DEF PushStep, ServerStep
<1>3. CASE UserStarts
  BY <1>3, BeginSerial, SwitchSerial DEF UserStarts
<1>4. CASE UserStep
  BY <1>4, BranchSerial, WriteSerial, UpdateHeadSerial DEF UserStep
<1> QED BY <1>1, <1>2, <1>3, <1>4 DEF Next

THEOREM SerialInvariant == Spec => [](IInv /\ SerialInv)
BY Invariant, InitSerial, NextSerial, PTL DEF Spec

(* CheckoutInStep for every instance: one command at a time, index and     *)
(* work dir never fall behind the branch a push moves.                     *)
THEOREM CheckoutStaysInStep == Spec => []CheckoutInStep
<1>1. SerialInv => CheckoutInStep
  BY DEF SerialInv
<1> QED BY <1>1, SerialInvariant, PTL

(* ReportIsTrue for every instance: what a push of any length reports as   *)
(* ok is in the refs.                                                      *)
THEOREM ReportsAreTrue == Spec => []ReportIsTrue
<1>1. IInv /\ SerialInv => ReportIsTrue
  <2> SUFFICES ASSUME IInv, SerialInv, NEW p \in Pushes, ~config.overlap,
                      push[p].step = "report", NEW i \in DOMAIN push[p].cmds,
                      ~push[p].cmds[i].ng, ~push[p].cmds[i].skip,
                      push[p].cmds[i].new = None => packed[push[p].cmds[i].name] = None,
                      LastOfItsName(push[p].cmds, i)
               PROVE  Resolve(push[p].cmds[i].name) = push[p].cmds[i].new
    BY DEF ReportIsTrue, LastOfItsName
  <2>1. SessionAlone(push[p], loose, HeadBranch)
    BY DEF SerialInv, SessionsAlone
  <2>2. loose[push[p].cmds[i].name] = push[p].cmds[i].new
    BY <2>1 DEF SessionAlone
  <2>3. push[p].cmds[i].new \in Objects \cup {None}
    BY SessionTypes DEF IInv, Updates
  <2>4. push[p].cmds[i].new \notin Branches
    BY <2>3, ReceivePackAssumption DEF Names
  <2> QED BY <2>2, <2>3, <2>4 DEF Resolve, ReadRef
<1> QED BY <1>1, SerialInvariant, PTL

(* An update that is about the branch HEAD names puts a commit there, or   *)
(* some other object, unless the server is told to let it be deleted.      *)
LEMMA UpdateKeepsHead ==
  ASSUME IInv, SerialInv, NEW p \in Pushes, UpdateRef(p), ~config.overlap,
         DenyDeleteCurrent \notin {"ignore", "warn"}
  PROVE  HeadCommit' = HeadCommit \/ HeadCommit' \in Objects
<1>1. /\ UNCHANGED <<config, packed>> /\ TypeOK /\ ReadyToWrite(p)
      /\ loose' = [loose EXCEPT ![Current(p).name] = Current(p).new]
  BY DEF UpdateRef, IInv
<1>2. push[p].step \in {"apply", "write"} /\ Current(p).name \in Branches \cup Tags
  BY <1>1, WrittenRef
<1>3. CASE Current(p).name # ReadRef(HEAD)
  BY <1>1, <1>2, <1>3, OtherRefWritten
<1>4. CASE loose[Current(p).name] = Current(p).new
  <2>1. loose' = loose
    BY <1>1, <1>4 DEF TypeOK
  <2> QED BY <1>1, <2>1, HeadUnchanged
<1>5. CASE CheckedOut(p) /\ ~Refused(p) /\ Current(p).name = ReadRef(HEAD)
  <2>1. Current(p).name \in Branches
    BY <1>1, <1>5, SessionTypes DEF CheckedOut, Sessions
  <2>2. HeadName = Current(p).name
    BY <1>5, <2>1 DEF HeadName
  <2>3. Current(p).old # Current(p).new
    BY <1>2, CurrentTypes DEF SerialInv, UpdatesDiffer, Differ, Current
  <2>4. Current(p).new # None
    BY <1>5, <2>3 DEF Refused, RefusedDeletion
  <2>5. Current(p).new \in Objects
    BY <1>2, <2>4, CurrentTypes
  <2> QED BY <1>1, <2>2, <2>5, HeadWritten
<1> QED BY <1>1, <1>3, <1>4, <1>5, WrittenRef

(* CurrentBranchSurvives for every instance: no push and no command, one   *)
(* at a time, leaves HEAD without a commit.                                *)
THEOREM HeadSurvives == Spec => CurrentBranchSurvives
<1> DEFINE Survives ==
      (/\ ~config.overlap
       /\ DenyDeleteCurrent \notin {"ignore", "warn"}
       /\ HeadCommit \in Objects)
      => HeadCommit' \in Objects
<1>1. IInv /\ SerialInv /\ [Next]_vars => [Survives]_vars
  <2> SUFFICES ASSUME IInv, SerialInv, Next, ~config.overlap,
                      DenyDeleteCurrent \notin {"ignore", "warn"}, HeadCommit \in Objects
               PROVE  HeadCommit' \in Objects
    BY Zenon DEF Survives
  <2>1. CASE UNCHANGED <<loose, packed>>
    BY <2>1, HeadUnchanged
  <2>2. ASSUME NEW p \in Pushes, UpdateRef(p) PROVE HeadCommit' \in Objects
    BY <2>2, UpdateKeepsHead
  <2>3. ASSUME NEW p \in Pushes, ResetWorkTree(p) PROVE HeadCommit' \in Objects
    <3>1. /\ UNCHANGED packed /\ loose' = [loose EXCEPT ![HeadName] = Current(p).new]
          /\ Current(p).new \in Objects
      BY <2>3, ObjectGraphAssumption DEF ResetWorkTree
    <3> QED BY <3>1, HeadWritten DEF IInv
  <2>4. CASE WriteRef \/ RemoveFile
    BY <2>4, WriteSerial
  <2>5. CASE UpdateHead \/ \E b \in Branches : Switch(b)
    BY <2>5, UpdateHeadSerial, SwitchSerial
  <2>6. \/ UNCHANGED <<loose, packed>>
        \/ \E p \in Pushes : UpdateRef(p) \/ ResetWorkTree(p)
        \/ WriteRef \/ RemoveFile \/ UpdateHead \/ \E b \in Branches : Switch(b)
    <3>1. ASSUME NEW p \in Pushes, PushStep(p)
          PROVE  UNCHANGED <<loose, packed>> \/ UpdateRef(p) \/ ResetWorkTree(p)
      BY <3>1 DEF PushStep, ServerStep, AdvertiseRefs, ReadRefUpdates, Unpack, UnpackFails,
         CheckConnectivity, FindAlias, ReadHead, PassOver, Refuse, ResetFails, UpdateFails,
         Report
    <3>2. CASE UserStarts
      BY <3>2 DEF UserStarts, AddBranchCheck, RemoveBranchCheck, RemoveTag, AddTagObject,
         CommitObject
    <3>3. CASE UserStep
      BY <3>3 DEF UserStep, AddBranchRead
    <3> QED BY <3>1, <3>2, <3>3 DEF Next
  <2> QED BY <2>1, <2>2, <2>3, <2>4, <2>5, <2>6
<1> QED BY <1>1, SerialInvariant, PTL DEF Spec, CurrentBranchSurvives
=============================================================================
