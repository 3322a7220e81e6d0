----------------------------- MODULE UploadPack -----------------------------
(***************************************************************************)
(* net_server_upload_pack.go: the server side of a fetch, in protocol v0   *)
(* (and v1, which differs by its first line) and v2.  The client is the    *)
(* environment: it sends any request of Needs or Fetches and then any      *)
(* lines.  A step handles one request or one line; reply is what the       *)
(* server writes in it.                                                    *)
(***************************************************************************)
EXTENDS ObjectIterator

CONSTANTS
  Store,      \* the objects the server has; the client may know others
  RefNames,   \* the names of the refs below refs/heads and refs/tags
  Setups,     \* the refs a repository has: [head: what HEAD names, value: the oids]
  None,       \* no object
  Commands,   \* the v2 commands the configuration lets the server advertise
  Time,       \* Time[c]: the time stamp of the commit c
  Needs,      \* what a v0 client may ask up to its first flush
  Fetches,    \* the fetch requests of a v2 client
  Haves,      \* the objects a v0 client may say it has
  InfiniteDepth,  \* math.MaxInt: a history has fewer levels
  Lines       \* BOUND: how many lines of negotiation, or v2 requests, a client sends

(* What a fetch asks: wants, want-refs, and how deep; then the client's    *)
(* capabilities (v0) and what else a v2 request holds.  A ref to leave out *)
(* that does not exist is None.                                            *)
Asked ==
  [wants : SUBSET Objects, wantRefs : SUBSET RefNames, shallow : SUBSET Objects,
   depth : Nat, since : Nat, nots : SUBSET (Store \cup {None}), relative : BOOLEAN,
   sideband : BOOLEAN, multiAck : {"none", "basic", "detailed"}, noDone : BOOLEAN,
   stateless : BOOLEAN, done : BOOLEAN, waitForDone : BOOLEAN, haves : Seq(Objects)]

ASSUME UploadPackAssumption ==
  /\ Store \subseteq Objects /\ Closed(Store)
  /\ Setups \subseteq [head : RefNames, value : [RefNames -> Store \cup {None}]]
  /\ Commands \subseteq {"ls-refs", "fetch", "object-info"}
  /\ Time \in [Commits -> Nat]
  /\ IsFiniteSet(RefNames) /\ None \notin Objects
  /\ Needs \cup Fetches \subseteq Asked
  /\ Haves \subseteq Objects
  /\ InfiniteDepth \in Nat /\ InfiniteDepth > Cardinality(Commits)
  /\ Lines \in Nat

VARIABLES
  refs,       \* the refs of the repository, a member of Setups
  version,    \* "v0" or "v2"
  phase,      \* where the session is
  need,       \* the request: what is wanted and how deep
  wants,      \* wantObj: grows by the parents of unshallowed commits
  haves,      \* haveObj: what both sides have, in the order it was named
  gotCommon,  \* since the last flush: a have that is here,
  gotOther,   \*   and one that is not
  ready,      \* sentReady
  boundary,   \* the commits announced as shallow
  opened,     \* the commits announced as no longer shallow
  reply,      \* the lines the server writes in this step
  pack,       \* the objects of the pack, once it is sent
  lines       \* how many lines the client has sent

vars == <<refs, version, phase, need, wants, haves, gotCommon, gotOther, ready,
          boundary, opened, reply, pack, lines>>

(* A v2 server is in "needs" between two requests. *)
Phases == {"start", "needs", "peek", "negotiate", "pack", "packed", "closed", "error"}

(* Line(kind, o): a line about the object o, or about none. *)
Line(kind, o) == [kind |-> kind, oid |-> o, peeled |-> None]

NoNeed == [wants |-> {}, wantRefs |-> {}, shallow |-> {}, depth |-> 0, since |-> 0,
           nots |-> {}, relative |-> FALSE, sideband |-> TRUE, multiAck |-> "none",
           noDone |-> FALSE, stateless |-> FALSE, done |-> FALSE,
           waitForDone |-> FALSE, haves |-> <<>>]

Init ==
  /\ refs \in Setups
  /\ version \in {"v0", "v2"}
  /\ phase = "start"
  /\ need = NoNeed
  /\ wants = {} /\ haves = <<>>
  /\ gotCommon = FALSE /\ gotOther = FALSE /\ ready = FALSE
  /\ boundary = {} /\ opened = {}
  /\ reply = <<>> /\ pack = {} /\ lines = 0

-----------------------------------------------------------------------------
(* The refs the server lists: those with a value, HEAD first.  A tag is    *)
(* followed by what it is of, peeled through up to 64 tags.                *)

(* Mutant of Known: the server takes the client's word. *)
KnownAnything(o) == o \in Objects

(* objectExists *)
Known(o) == o \in Store

Peeled(o) ==
  LET peel[i \in 0..64] ==
        IF i = 0 THEN o
        ELSE LET p == peel[i - 1]
             IN  IF p \in Annotated \cap Store THEN CHOOSE t \in Links[p] : TRUE ELSE p
  IN  peel[64]

Listed == {r \in RefNames : refs.value[r] # None}

OurRefs == {refs.value[r] : r \in Listed}

HeadOid == refs.value[refs.head]

(* The oids of the lines about HEAD, if it is among the names asked for,   *)
(* and about the refs that are.                                            *)
ListedOids(names) ==
  LET listed == SetToSeq(Listed \cap names)
  IN  (IF "HEAD" \in names /\ HeadOid # None THEN <<HeadOid>> ELSE <<>>)
        \o [i \in DOMAIN listed |-> refs.value[listed[i]]]

(* What a tag is of is said with the ref (v2), or on a line of its own. *)
RefLines(names, peel) ==
  LET oids == ListedOids(names)
  IN  [i \in DOMAIN oids |->
        [Line("ref", oids[i]) EXCEPT
           !.peeled = IF peel /\ Peeled(oids[i]) # oids[i] THEN Peeled(oids[i]) ELSE None]]

AllNames == RefNames \cup {"HEAD"}

(* v0: the advertisement.  Over HTTP it is a request of its own.           *)
AdvertiseRefs ==
  /\ version = "v0" /\ phase = "start"
  /\ reply' = IF Listed = {} THEN <<Line("capabilities", None)>> ELSE RefLines(AllNames, TRUE)
  /\ phase' = "needs"
  /\ UNCHANGED <<refs, version, need, wants, haves, gotCommon, gotOther, ready,
                 boundary, opened, pack, lines>>

More == lines < Lines /\ lines' = lines + 1

(* v2: the capabilities, then one request after the other. *)
AdvertiseCapabilities ==
  /\ version = "v2" /\ phase = "start"
  /\ reply' = <<Line("capabilities", None)>>
  /\ phase' = "needs"
  /\ UNCHANGED <<refs, version, need, wants, haves, gotCommon, gotOther, ready,
                 boundary, opened, pack, lines>>

(* A client that has its pack asks for nothing more; it may end the        *)
(* session, or name a command the server has not advertised, or none.      *)
Request(command) == version = "v2" /\ phase = "needs" /\ More /\ command \in Commands

EndRequests ==
  /\ version = "v2" /\ phase \in {"needs", "packed"}
  /\ phase' \in {"closed", "error"}
  /\ reply' = <<>>
  /\ UNCHANGED <<refs, version, need, wants, haves, gotCommon, gotOther, ready,
                 boundary, opened, pack, lines>>

(* ls-refs for the names with one of the prefixes; it can tell of a HEAD   *)
(* whose branch has no commit.                                             *)
LsRefs ==
  /\ Request("ls-refs")
  /\ \E names \in {AllNames, {"HEAD"}}, peel, unborn \in BOOLEAN :
       reply' = (IF "HEAD" \in names /\ HeadOid = None /\ unborn
                 THEN <<Line("unborn", None)>> ELSE <<>>)
                \o RefLines(names, peel) \o <<Line("flush", None)>>
  /\ UNCHANGED <<refs, version, phase, need, wants, haves, gotCommon, gotOther, ready,
                 boundary, opened, pack>>

(* object-info: a line about each object, empty for one that is not here;  *)
(* nothing at all when none is asked about.                                *)
ObjectInfo ==
  /\ Request("object-info")
  /\ \E oids \in {{}, Haves}, size \in BOOLEAN :
       LET asked == SetToSeq(oids)
       IN  reply' = IF oids = {} THEN <<>>
                    ELSE (IF size THEN <<Line("size", None)>> ELSE <<>>)
                         \o [i \in DOMAIN asked |->
                              Line(IF size /\ ~Known(asked[i]) THEN "no info" ELSE "info", asked[i])]
                         \o <<Line("flush", None)>>
  /\ UNCHANGED <<refs, version, phase, need, wants, haves, gotCommon, gotOther, ready,
                 boundary, opened, pack>>

-----------------------------------------------------------------------------
(* Deepening.                                                              *)

(* The commits a walk from the objects roots returns. *)
CommitsFrom(maxDepth, roots) ==
  Walked(IncludeAll(NewObjectIterator("commit", maxDepth), roots, 0), Store)

ReachableShallows(n, ours) ==
  n.shallow \cap (ours \cup Returned(CommitsFrom(0, ours)))

(* deepen: of the commits a walk of limited depth returns, the deepest are *)
(* the boundary and the others are whole.  The walk starts from what is    *)
(* wanted or, with deepen-relative, from the client's old boundary.  One   *)
(* level of commits asks for MaxDepth 0, which is no limit: then everything *)
(* below the wanted commits counts as whole.                               *)
DeepenRoots(n, ours) == IF n.relative THEN ReachableShallows(n, ours) ELSE n.wants

(* Mutant of DeepenLevel: the wanted commits are not a level of their own. *)
DeepenLevelBelow(n) == n.depth

DeepenLevel(n) == IF n.relative THEN n.depth ELSE n.depth - 1

(* deepenByRevList: the commits a walk from the wanted ones returns, which *)
(* stops at those the deepen-not refs reach, less those that are too old.  *)
(* The boundary are those that have a parent not among them.               *)
Recent(n) ==
  LET unwanted == CommitsFrom(0, n.nots \ {None})
      start == [NewObjectIterator("commit", 0) EXCEPT !.excludes = unwanted.excludes]
      walk == Walked(IncludeAll(start, n.wants, 0), Store)
  IN  {c \in Returned(walk) : Time[c] >= n.since}

(* Mutant of Frontier: one recent parent is enough not to be cut. *)
FrontierAllOld(recent) == {c \in recent : Parents[c] # {} /\ Parents[c] \cap recent = {}}

Frontier(recent) == {c \in recent : ~(Parents[c] \subseteq recent)}

ByRevList(n) == n.since > 0 \/ n.nots # {}

(* sendShallowList fails on both kinds of deepening at once and when       *)
(* nothing is recent enough.                                               *)
ShallowListFails(n) ==
  \/ n.depth > 0 /\ ByRevList(n)
  \/ n.depth = 0 /\ ByRevList(n) /\ Recent(n) = {}

(* What becomes the boundary, and which commits are not shallow. *)
NoList == [boundary |-> {}, whole |-> {}]

DeepenedToLevel(n, ours) ==
  LET level == DeepenLevel(n)
      out == CommitsFrom(level, DeepenRoots(n, ours)).out
      oids(S) == {e[1] : e \in S}
  IN  [boundary |-> oids({e \in Range(out) : e[2] = level}),
       whole |-> oids({e \in Range(out) : e[2] # level})]

(* Mutant of Deepened: with no limit nothing is announced. *)
DeepenedWithinLimit(n, ours) ==
  IF n.depth = InfiniteDepth THEN NoList ELSE DeepenedToLevel(n, ours)

(* Without a limit no walk is taken: all the client held to be shallow is  *)
(* whole, wanted or not.                                                   *)
Deepened(n, ours) ==
  IF n.depth = InfiniteDepth
  THEN [boundary |-> {}, whole |-> n.shallow]
  ELSE DeepenedToLevel(n, ours)

DeepenedByRevList(recent) ==
  [boundary |-> Frontier(recent), whole |-> recent \ Frontier(recent)]

ShallowList(n, ours) ==
  IF n.depth > 0
  THEN IF ByRevList(n) THEN NoList ELSE Deepened(n, ours)
  ELSE IF ByRevList(n) THEN DeepenedByRevList(Recent(n)) ELSE NoList

(* sendUnshallow: the parents of what is no longer shallow are wanted too. *)
WantedToo(open) == UNION {Parents[c] : c \in open}

(* The answer: what the client knows to be shallow is not said again. *)
SendShallowList(n, ours) ==
  LET list == ShallowList(n, ours)
      open == n.shallow \cap list.whole
  IN  /\ boundary' = list.boundary \ n.shallow
      /\ opened' = open
      /\ wants' = n.wants \cup WantedToo(open)

-----------------------------------------------------------------------------
(* Negotiation.                                                            *)

HaveSet(hs) == {hs[i] : i \in DOMAIN hs}

(* The commits behind an object. *)
Behind == [o \in Store |-> Returned(CommitsFrom(0, {o}))]

(* Mutant of AllWantsReachable: one wanted object is enough. *)
AnyWantReachable(ws, hs) ==
  hs # <<>> /\ \E o \in ws : ({o} \cup Behind[o]) \cap HaveSet(hs) # {}

(* allWantsReachable: from every wanted object the walk over commits meets *)
(* one that both sides have.                                               *)
AllWantsReachable(ws, hs) ==
  hs # <<>> /\ \A o \in ws : ({o} \cup Behind[o]) \cap HaveSet(hs) # {}

(* v0: receiveNeeds reads the request up to the flush, refuses an object   *)
(* it has not got, then answers with the shallow list.  A shallow line of  *)
(* an unknown commit is ignored.  A client must ask for a side band, which *)
(* it can only do with a want.                                             *)
ReceiveNeeds ==
  /\ version = "v0" /\ phase = "needs"
  /\ \E n \in Needs :
       LET known == [n EXCEPT !.shallow = @ \cap Store \cap Commits]
           asked == n.depth > 0 \/ ByRevList(n)
       IN  /\ need' = known
           /\ IF ~(n.wants \subseteq Store)
              THEN /\ phase' = "error" /\ reply' = <<Line("not our ref", None)>>
                   /\ UNCHANGED <<wants, boundary, opened>>
              ELSE IF ShallowListFails(known)
              THEN /\ phase' = "error" /\ reply' = <<>>
                   /\ UNCHANGED <<wants, boundary, opened>>
              ELSE /\ SendShallowList(known, OurRefs)
                   /\ phase' = IF n.sideband /\ n.wants # {} THEN "peek" ELSE "error"
                   /\ reply' = IF asked THEN <<Line("flush", None)>> ELSE <<>>
  /\ UNCHANGED <<refs, version, haves, gotCommon, gotOther, ready, pack, lines>>

(* The first line after the request decides: a client that hangs up wants  *)
(* no pack, and a flush is swallowed.                                      *)
PeekFlush ==
  /\ version = "v0" /\ phase = "peek"
  /\ More
  /\ phase' = "negotiate"
  /\ reply' = <<>>
  /\ UNCHANGED <<refs, version, need, wants, haves, gotCommon, gotOther, ready,
                 boundary, opened, pack>>

HangUp ==
  /\ version = "v0" /\ phase \in {"peek", "negotiate"}
  /\ phase' = IF phase = "peek" THEN "closed" ELSE "error"
  /\ reply' = <<>>
  /\ UNCHANGED <<refs, version, need, wants, haves, gotCommon, gotOther, ready,
                 boundary, opened, pack, lines>>

Negotiating == version = "v0" /\ phase \in {"peek", "negotiate"}

LastHave == haves[Len(haves)]

(* have: an object both sides have is acknowledged; after one the server   *)
(* has not, it says when it has heard enough.                              *)
HaveCommon(o) ==
  /\ Negotiating
  /\ More
  /\ Known(o)
  /\ haves' = Append(haves, o)
  /\ gotCommon' = TRUE
  /\ reply' = CASE need.multiAck = "detailed" -> <<Line("ACK common", o)>>
                [] need.multiAck = "basic" -> <<Line("ACK continue", o)>>
                [] OTHER -> IF haves = <<>> THEN <<Line("ACK", o)>> ELSE <<>>
  /\ phase' = "negotiate"
  /\ UNCHANGED <<refs, version, need, wants, gotOther, ready, boundary, opened, pack>>

HaveOther(o) ==
  LET enough == need.multiAck # "none" /\ AllWantsReachable(wants, haves)
  IN  /\ Negotiating
      /\ More
      /\ ~Known(o)
      /\ gotOther' = TRUE
      /\ ready' = (ready \/ (enough /\ need.multiAck = "detailed"))
      /\ reply' = IF ~enough THEN <<>>
                  ELSE IF need.multiAck = "detailed" THEN <<Line("ACK ready", o)>>
                  ELSE <<Line("ACK continue", o)>>
      /\ phase' = "negotiate"
      /\ UNCHANGED <<refs, version, need, wants, haves, gotCommon, boundary, opened, pack>>

(* A flush ends a round: the server answers it, and may stop here when it  *)
(* has said it is ready and the client can do without a done.              *)
Flush ==
  LET agreed == /\ need.multiAck = "detailed" /\ gotCommon /\ ~gotOther
                /\ AllWantsReachable(wants, haves)
      isReady == ready \/ agreed
      nak == haves = <<>> \/ need.multiAck # "none"
  IN  /\ version = "v0" /\ phase = "negotiate"
      /\ More
      /\ ready' = isReady
      /\ reply' = (IF agreed THEN <<Line("ACK ready", LastHave)>> ELSE <<>>)
                  \o (IF nak THEN <<Line("NAK", None)>> ELSE <<>>)
                  \o (IF need.noDone /\ isReady THEN <<Line("ACK", LastHave)>> ELSE <<>>)
      /\ phase' = IF need.noDone /\ isReady THEN "pack"
                  ELSE IF need.stateless THEN "error" ELSE "negotiate"
      /\ IF phase' = "negotiate" THEN gotCommon' = FALSE /\ gotOther' = FALSE
         ELSE UNCHANGED <<gotCommon, gotOther>>
      /\ UNCHANGED <<refs, version, need, wants, haves, boundary, opened, pack>>

Done ==
  /\ Negotiating
  /\ More
  /\ reply' = IF haves = <<>> THEN <<Line("NAK", None)>>
              ELSE IF need.multiAck = "none" THEN <<>>
              ELSE <<Line("ACK", LastHave)>>
  /\ phase' = "pack"
  /\ UNCHANGED <<refs, version, need, wants, haves, gotCommon, gotOther, ready,
                 boundary, opened, pack>>

-----------------------------------------------------------------------------
(* The pack, and the fetch command of v2.                                  *)

(* Mutant of PackOf: only the commits. *)
PackOfCommits(ws) == Returned(CommitsFrom(0, ws))

(* writePack: a walk over everything the wanted objects reach; what the    *)
(* client has is not left out.                                             *)
PackOf(ws) ==
  Returned(Walked(IncludeAll(NewObjectIterator("all", 0), ws, 0), Store))

WritePack ==
  /\ version = "v0" /\ phase = "pack"
  /\ pack' = PackOf(wants)
  /\ phase' = "packed"
  /\ reply' = <<Line("flush", None)>>
  /\ UNCHANGED <<refs, version, need, wants, haves, gotCommon, gotOther, ready,
                 boundary, opened, lines>>

(* What a fetch request starts from: nothing is kept from the one before.  *)
NoAnswer ==
  /\ wants' = {} /\ haves' = <<>> /\ ready' = FALSE
  /\ boundary' = {} /\ opened' = {} /\ pack' = {}

(* The haves of a request that are here, in their order. *)
NamedHaves(n) ==
  LET named[i \in 0..Len(n.haves)] ==
        IF i = 0 THEN <<>>
        ELSE IF Known(n.haves[i]) THEN Append(named[i - 1], n.haves[i]) ELSE named[i - 1]
  IN  named[Len(n.haves)]

Acknowledgments(n) ==
  <<Line("acknowledgments", None)>>
    \o (IF NamedHaves(n) = <<>> THEN <<Line("NAK", None)>>
        ELSE [i \in DOMAIN NamedHaves(n) |-> Line("ACK", NamedHaves(n)[i])])

(* With haves but without done the request is a round of negotiation. *)
IsRound(n) == n.haves # <<>> /\ ~n.done

EnoughNamed(n) == ~n.waitForDone /\ AllWantsReachable(n.wants, NamedHaves(n))

(* An object or a ref that is not here ends the session. *)
FetchRefused(n) ==
  /\ ~(n.wants \subseteq Store)
  /\ NoAnswer
  /\ phase' = "error" /\ reply' = <<Line("not our ref", None)>>

FetchNothing(n) ==
  /\ n.wants = {} /\ ~n.waitForDone
  /\ NoAnswer
  /\ phase' = "needs" /\ reply' = <<>>

Answers(n) == n.wants \subseteq Store /\ (n.wants # {} \/ n.waitForDone)

(* A round that does not suffice is answered by the acknowledgments, and a *)
(* flush too many.                                                         *)
FetchRound(n) ==
  /\ Answers(n) /\ IsRound(n) /\ ~EnoughNamed(n)
  /\ wants' = n.wants /\ haves' = NamedHaves(n) /\ ready' = FALSE
  /\ boundary' = {} /\ opened' = {} /\ pack' = {}
  /\ phase' = "needs"
  /\ reply' = Acknowledgments(n) \o <<Line("flush", None), Line("flush", None)>>

(* No ref is among those deepening starts from, and its errors are ignored. *)
FetchPack(n) ==
  LET shallowInfo == n.depth > 0 \/ ByRevList(n) \/ n.shallow # {}
      section(b, kind) == IF b THEN <<Line(kind, None)>> ELSE <<>>
  IN  /\ Answers(n) /\ (IsRound(n) => EnoughNamed(n))
      /\ haves' = NamedHaves(n) /\ ready' = IsRound(n)
      /\ SendShallowList(n, {})
      /\ pack' = PackOf(wants')
      /\ phase' = "packed"
      /\ reply' = (IF IsRound(n) THEN Acknowledgments(n) \o <<Line("ready", None)>> ELSE <<>>)
                  \o section(n.wantRefs # {}, "wanted-refs")
                  \o section(shallowInfo, "shallow-info")
                  \o <<Line("packfile", None), Line("flush", None)>>

Fetch ==
  /\ Request("fetch")
  /\ \E asked \in Fetches :
       LET n == [asked EXCEPT !.shallow = @ \cap Store \cap Commits,
                              !.wants = @ \cup {refs.value[r] : r \in asked.wantRefs}]
       IN  /\ need' = n
           /\ FetchRefused(n) \/ FetchNothing(n) \/ FetchRound(n) \/ FetchPack(n)
  /\ UNCHANGED <<refs, version, gotCommon, gotOther>>

-----------------------------------------------------------------------------
Next ==
  \/ AdvertiseRefs \/ ReceiveNeeds \/ PeekFlush \/ HangUp
  \/ \E o \in Haves : HaveCommon(o) \/ HaveOther(o)
  \/ Flush \/ Done \/ WritePack
  \/ AdvertiseCapabilities \/ EndRequests \/ LsRefs \/ ObjectInfo \/ Fetch

Spec == Init /\ [][Next]_vars

-----------------------------------------------------------------------------
(* Every variable holds a value of its kind; what is named as common is in *)
(* the store; a pack is sent only in its phase.                            *)
TypeOK ==
  /\ refs \in Setups /\ version \in {"v0", "v2"} /\ phase \in Phases
  /\ need.wants \subseteq Objects \cup {None} /\ need.shallow \subseteq Objects
  /\ wants \subseteq Store
  /\ HaveSet(haves) \subseteq Store
  /\ gotCommon \in BOOLEAN /\ gotOther \in BOOLEAN /\ ready \in BOOLEAN
  /\ boundary \subseteq Commits \cap Store
  /\ opened \subseteq Commits \cap Store
  /\ \A i \in DOMAIN reply : {reply[i].oid, reply[i].peeled} \subseteq Objects \cup {None}
  /\ pack \subseteq Store /\ (pack # {} => phase \in {"packed", "needs", "closed", "error"})
  /\ lines \in 0..Lines

(* The history of an object: that of the commit it is or, for a tag, leads *)
(* to through any number of tags.                                          *)
Named(o) ==
  {t \in Objects : \A T \in SUBSET Objects :
     o \in T /\ (\A v \in T \cap Annotated : Links[v] \subseteq T) => t \in T}

HistoryOf == [o \in Objects |-> UNION {Ancestry[c] : c \in Named(o) \cap Commits}]

(* What the client sees: from the objects it wanted, down to the commits   *)
(* it now holds to be shallow.  Tips(ws) are the wanted commits.           *)
Tips(ws) == ws \cap Commits

Level(roots, cut, n) ==
  LET further(S) == S \cup UNION {Parents[c] : c \in S \ cut}
      level[i \in 0..n] == IF i = 0 THEN roots ELSE further(level[i - 1])
  IN  level[n]

NowShallow == (need.shallow \cup boundary) \ opened

Visible(roots) == Level(roots, NowShallow, Cardinality(Commits))

(* The states in which the answer to the request has just been given.      *)
Answered == phase = IF version = "v0" THEN "peek" ELSE "packed"

(* The pack that is sent holds everything any of the wanted objects and    *)
(* refs needs, whatever the client said it has, and whatever a commit that *)
(* is no longer shallow hides (writePack, sendUnshallow).                  *)
PackIsComplete ==
  phase = "packed" =>
    /\ \A o \in need.wants : Reach[o] \subseteq pack
    /\ \A c \in opened : \A p \in Parents[c] : Reach[p] \subseteq pack

(* The two sides share enough of the history of the objects ws: each is   *)
(* one of the haves or has one in its history.                             *)
HeardEnough(ws) == \A o \in ws : ({o} \cup HistoryOf[o]) \cap HaveSet(haves) # {}

(* A session becomes ready to send a pack the client did not ask for by    *)
(* done only when it has heard enough of every wanted object.  In v0 the   *)
(* parents of unshallowed commits are wanted by then; in v2 they are added *)
(* after the decision (sendAcksV2 before sendShallowList).                 *)
ReadyIsJustified ==
  ready => HeardEnough(IF version = "v0" THEN wants ELSE need.wants)

(* The server acknowledges an object it has and the client has named.  It  *)
(* acknowledges one it lacks too, to stop the client, but only with the    *)
(* words continue and ready and when it has heard enough; whatever it says *)
(* ready about, it has heard enough (getCommonCommits, appendIfExists).    *)
AcksAreJustified ==
  \A i \in DOMAIN reply :
    /\ reply[i].kind \in {"ACK", "ACK common", "ACK continue", "ACK ready"} =>
         \/ reply[i].oid \in Store \cap HaveSet(haves)
         \/ reply[i].kind \in {"ACK continue", "ACK ready"} /\ HeardEnough(wants)
    /\ reply[i].kind = "ACK ready" => HeardEnough(wants)

(* Every walk a session may take from what it wants, over commits or over  *)
(* everything, to any depth, with or without what the client holds being   *)
(* excluded, returns what is reachable, once, nearest first                *)
(* (ObjectIterator.Next).                                                  *)
WalksAreExact ==
  phase = "peek" =>
    \A kind \in {"all", "commit"}, depth \in 0..2, without \in {{}, need.shallow} :
      WalkIsExact(kind, depth, wants, without, Store)

(* After a fetch of wanted commits with depth n the client sees exactly    *)
(* their history of n levels, whatever it held to be shallow before; with  *)
(* deepen-relative (v0) its old boundary as far as the refs reach it, and  *)
(* n levels below (deepen, sendUnshallow).                                 *)
DepthIsExact ==
  (Answered /\ need.depth > 0 /\ ~ByRevList(need) /\ need.wants \subseteq Commits) =>
    IF ~need.relative
    THEN Visible(need.wants) = Level(need.wants, {}, need.depth - 1)
    ELSE version = "v0" =>
      LET held == need.shallow \cap UNION {HistoryOf[o] : o \in OurRefs}
      IN  Visible(held) = Level(held, {}, need.depth)

(* After a fetch by date or by refs left out, the history of a wanted      *)
(* commit that is recent enough shows only commits that are recent and     *)
(* behind none of the refs left out (deepenByRevList).                     *)
CutIsClean ==
  (Answered /\ ByRevList(need) /\ ~ShallowListFails(need)) =>
    LET left == UNION {HistoryOf[o] : o \in need.nots \ {None}}
        fresh(c) == Time[c] >= need.since /\ c \notin left
    IN  \A c \in Visible({w \in Tips(need.wants) : fresh(w)}) : fresh(c)
=============================================================================
