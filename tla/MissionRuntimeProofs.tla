------------------------ MODULE MissionRuntimeProofs ------------------------
(***************************************************************************)
(* The safety of the Mission Runtime, for every value of the constants.    *)
(*                                                                         *)
(* A handler is built from calls that map a world to the worlds they may   *)
(* leave behind, so the proof is too: each call keeps a world well formed  *)
(* (World, InStep) and relates it to the worlds after it (Follows, which   *)
(* is reflexive and transitive).  A handler composes its calls.            *)
(***************************************************************************)
EXTENDS MissionRuntime, TLAPS

LEMMA Limits == /\ MaxEpoch \in Nat \ {0} /\ MaxMission \in Nat \ {0} /\ MaxSteps \in Nat \ {0}
                /\ MaxGate \in Nat \ {0} /\ MaxSeq \in Nat
BY RuntimeAssumption

-----------------------------------------------------------------------------
(***************************************************************************)
(* Worlds.                                                                 *)
(***************************************************************************)
Registry == UNION {[T -> Entry] : T \in SUBSET Token}
Outcomes == [Mission -> Code \cup {"none", "running"}]

World == [core : Core, fence : Fence, port : Port, registry : Registry, auth : Snapshot,
          samples : SUBSET Snapshot, outcome : Outcomes, safe : BOOLEAN]

\* The epoch of the core is the epoch of the fence, or the one before while
\* the callback of a raised fence is due.
InStep(w) ==
  /\ \/ w.fence.epoch = w.core.epoch
     \/ w.fence.epoch = w.core.epoch + 1 /\ w.fence.pending
  /\ w.fence.pending => w.fence.blocked

\* The Mission that owns the slot is the one that is running, at one of its
\* steps.
Single(w) ==
  /\ \A m \in Mission : w.outcome[m] = "running" <=> w.core.active.mission = m
  /\ w.core.active # None => w.core.active.step <= w.core.active.of

\* Its child has an owner in the registry, and runs or has left an answer.
Backed(w) ==
  LET t == TokenOf(w.core.active) IN
  w.core.active # None =>
    t \in DOMAIN w.registry /\ (w.port.active = t \/ w.registry[t] # "open")

\* The epoch moves, or a fence is about to move it.
Costs(w, v) ==
  v.core.epoch > w.core.epoch \/ v.fence.pending \/ w.core.epoch = MaxEpoch

\* What no call takes back, and what it has to pay for.
Ahead(w, v) ==
  /\ w.core.epoch <= v.core.epoch
  /\ w.fence.blocked => v.fence.blocked
  /\ w.fence.pending => v.fence.pending
  /\ v.fence.blocked => w.fence.blocked \/ v.fence.pending
  /\ w.core.bound => v.core.bound
  /\ w.core.bound /\ ~w.core.handled /\ v.core.handled => Costs(w, v)
  /\ w.port.sticky /\ ~v.port.sticky => Costs(w, v)

\* The Mission stays with its child and its answer, or ends without success.
Holds(w, v) ==
  \/ /\ v.core.active = w.core.active /\ v.outcome = w.outcome
     /\ v.core.active # None => v.port.active = w.port.active /\ v.registry = w.registry
  \/ /\ w.core.active # None /\ v.core.active = None
     /\ v.outcome = [w.outcome EXCEPT ![w.core.active.mission] = "other"]

Follows(w, v) == v \in World /\ InStep(v) /\ Ahead(w, v) /\ Holds(w, v)

LEMMA FollowsSelf ==
  ASSUME NEW w \in World, InStep(w)
  PROVE  Follows(w, w)
BY Limits DEF Follows, Ahead, Holds, World, Core, Epoch

LEMMA FollowsOn ==
  ASSUME NEW w \in World, NEW u \in World, NEW v \in World, Follows(w, u), Follows(u, v)
  PROVE  Follows(w, v)
<1>1. w.core.epoch \in 1..MaxEpoch /\ u.core.epoch \in 1..MaxEpoch /\ v.core.epoch \in 1..MaxEpoch
  BY DEF World, Core, Epoch
<1>2. Ahead(w, v)
  BY <1>1, Limits DEF Follows, Ahead, Costs
<1>3. Holds(w, v)
  BY DEF Follows, Holds
<1> QED
  BY <1>2, <1>3 DEF Follows

-----------------------------------------------------------------------------
(***************************************************************************)
(* The fence.                                                              *)
(***************************************************************************)
LEMMA RaisedType ==
  ASSUME NEW f \in Fence
  PROVE  /\ Raised(f) \in Fence /\ Raised(f).blocked
         /\ f.blocked => Raised(f) = f
         /\ ~f.blocked => Raised(f).pending
         /\ f.pending => Raised(f).pending \/ ~f.blocked
         /\ ~f.blocked => Raised(f).epoch = f.epoch \/ Raised(f).epoch = f.epoch + 1
BY Limits DEF Raised, Fence, Epoch

LEMMA RaisedFollows ==
  ASSUME NEW w \in World, InStep(w)
  PROVE  Follows(w, [w EXCEPT !.fence = Raised(w.fence)])
<1> DEFINE v == [w EXCEPT !.fence = Raised(w.fence)]
<1>1. w.fence \in Fence /\ w.core \in Core /\ w.core.epoch \in Nat /\ w.fence.epoch \in Nat
  BY Limits DEF World, Core, Fence, Epoch
<1>2. v \in World /\ v.fence = Raised(w.fence)
  BY <1>1, RaisedType DEF World
<1>3. v.core = w.core /\ v.port = w.port /\ v.registry = w.registry /\ v.outcome = w.outcome
  BY DEF World
<1> HIDE DEF v
<1>4. InStep(v)
  BY <1>1, <1>2, <1>3, RaisedType, Limits DEF InStep
<1>5. Ahead(w, v) /\ Holds(w, v)
  BY <1>1, <1>2, <1>3, RaisedType DEF Ahead, Holds, InStep
<1> QED
  BY <1>2, <1>4, <1>5 DEF Follows, v

LEMMA UnsettledFollows ==
  ASSUME NEW w \in World, InStep(w), NEW v \in Unsettled(w)
  PROVE  Follows(w, v)
BY FollowsSelf, RaisedFollows DEF Unsettled

LEMMA SampledFollows ==
  ASSUME NEW w \in World, InStep(w), NEW s \in Snapshot
  PROVE  Follows(w, Sampled(w, s))
<1> DEFINE v == [w EXCEPT !.samples = w.samples \cup {s}]
<1>1. v \in World /\ v.fence = w.fence
      /\ v.core = w.core /\ v.port = w.port /\ v.registry = w.registry /\ v.outcome = w.outcome
  BY DEF World
<1>2. Follows(w, v)
  <2> HIDE DEF v
  <2>1. w.core.epoch \in Nat
    BY Limits DEF World, Core, Epoch
  <2> QED
    BY <1>1, <2>1 DEF Follows, InStep, Ahead, Holds
<1> QED
  BY <1>2, FollowsSelf, RaisedFollows DEF Sampled

LEMMA WatermarkFollows ==
  ASSUME NEW w \in World, InStep(w), NEW s \in Snapshot
  PROVE  Follows(w, Watermark(w, s))
<1> DEFINE v == [w EXCEPT !.auth = s]
<1>1. v \in World /\ v.fence = w.fence
      /\ v.core = w.core /\ v.port = w.port /\ v.registry = w.registry /\ v.outcome = w.outcome
  BY DEF World
<1>2. w.core.epoch \in Nat
  BY Limits DEF World, Core, Epoch
<1>3. CASE w.auth = s
  BY <1>3, FollowsSelf DEF Watermark
<1>4. CASE w.auth # s
  <2>1. Watermark(w, s) = Sampled(v, s)
    BY <1>4 DEF Watermark
  <2> HIDE DEF v
  <2>2. Follows(w, v)
    BY <1>1, <1>2 DEF Follows, InStep, Ahead, Holds
  <2>3. Follows(v, Sampled(v, s))
    BY <2>2, SampledFollows DEF Follows
  <2> QED
    BY <2>1, <2>2, <2>3, FollowsOn DEF Follows
<1> QED
  BY <1>3, <1>4

-----------------------------------------------------------------------------
(***************************************************************************)
(* The calls that change the core alone.                                   *)
(***************************************************************************)
\* A call that leaves the slot, the epoch and the latch to others.
LEMMA CoreFollows ==
  ASSUME NEW w \in World, InStep(w), NEW c \in Core,
         c.epoch = w.core.epoch, c.active = w.core.active,
         w.core.bound => c.bound, w.core.bound /\ c.handled => w.core.handled
  PROVE  Follows(w, [w EXCEPT !.core = c])
<1> DEFINE v == [w EXCEPT !.core = c]
<1>1. /\ v \in World /\ v.core = c /\ v.fence = w.fence /\ v.port = w.port
      /\ v.registry = w.registry /\ v.outcome = w.outcome
  BY DEF World
<1>2. w.core.epoch \in Nat
  BY Limits DEF World, Core, Epoch
<1> HIDE DEF v
<1> QED
  BY <1>1, <1>2 DEF Follows, InStep, Ahead, Holds, v

LEMMA FaultedFollows ==
  ASSUME NEW w \in World, InStep(w)
  PROVE  Follows(w, Faulted(w)) /\ Faulted(w).core.availability = "faulted"
<1> DEFINE c == [w.core EXCEPT !.availability = "faulted"]
<1>1. w.core \in Core
  BY DEF World
<1>2. c \in Core
  BY <1>1 DEF Core, Availability
<1>3. /\ c.epoch = w.core.epoch /\ c.active = w.core.active
      /\ c.bound = w.core.bound /\ c.handled = w.core.handled /\ c.availability = "faulted"
  BY <1>1 DEF Core
<1>4. Faulted(w) = [w EXCEPT !.core = c]
  BY DEF Faulted
<1> HIDE DEF c
<1> QED
  BY <1>2, <1>3, <1>4, CoreFollows DEF World

LEMMA AvailabilityType ==
  ASSUME NEW s \in Snapshot, NEW p
  PROVE  AvailabilityFor(s, p) \in Availability
BY DEF AvailabilityFor, Availability

LEMMA AdvertisedFollows ==
  ASSUME NEW w \in World, InStep(w), NEW s \in Snapshot
  PROVE  /\ Follows(w, Advertised(w, s))
         /\ Advertised(w, s).core.active = w.core.active /\ Advertised(w, s).core.epoch = w.core.epoch
         /\ Advertised(w, s).core.handled = w.core.handled
         /\ Advertised(w, s).fence = w.fence /\ Advertised(w, s).port = w.port
         /\ Advertised(w, s).outcome = w.outcome /\ Advertised(w, s).safe = w.safe
<1>1. w.core \in Core
  BY DEF World
<1>2. PICK c \in Core : /\ Advertised(w, s) = [w EXCEPT !.core = c]
                        /\ c.epoch = w.core.epoch /\ c.active = w.core.active
                        /\ c.bound = w.core.bound /\ c.handled = w.core.handled
  <2> DEFINE busy == [w.core EXCEPT !.availability = "busy"]
             faulted == [w.core EXCEPT !.availability = "faulted"]
             other == [w.core EXCEPT !.gate = s, !.availability = AvailabilityFor(s, w.port)]
  <2>1. busy \in Core /\ faulted \in Core /\ other \in Core
    BY <1>1, AvailabilityType DEF Core, Availability
  <2>2. \A c \in {busy, faulted, other} :
          /\ c.epoch = w.core.epoch /\ c.active = w.core.active
          /\ c.bound = w.core.bound /\ c.handled = w.core.handled
    BY <1>1 DEF Core
  <2>3. Advertised(w, s) \in {[w EXCEPT !.core = c] : c \in {busy, faulted, other}}
    BY DEF Advertised, World
  <2> HIDE DEF busy, faulted, other
  <2> QED
    BY <2>1, <2>2, <2>3
<1>3. Follows(w, [w EXCEPT !.core = c])
  BY <1>2, CoreFollows
<1> QED
  BY <1>2, <1>3 DEF World

LEMMA SettledFollows ==
  ASSUME NEW w \in World, InStep(w)
  PROVE  /\ Follows(w, Settled(w))
         /\ Settled(w).core.active = w.core.active /\ Settled(w).core.epoch = w.core.epoch
         /\ Settled(w).core.handled = w.core.handled
         /\ Settled(w).fence = w.fence /\ Settled(w).port = w.port
         /\ Settled(w).outcome = w.outcome /\ Settled(w).safe = w.safe
         /\ w.core.availability = "faulted" => Settled(w) = w
<1>1. w.auth \in Snapshot
  BY DEF World
<1> QED
  BY <1>1, FollowsSelf, AdvertisedFollows DEF Settled

\* commit_next_epoch moves the core and the fence together, or breaks the core.
LEMMA CommitFollows ==
  ASSUME NEW w \in World, InStep(w)
  PROVE  /\ Follows(w, CommitNextEpoch(w))
         /\ CommitNextEpoch(w).core.active = w.core.active
         /\ CommitNextEpoch(w).port = w.port /\ CommitNextEpoch(w).outcome = w.outcome
         /\ CommitNextEpoch(w).registry = w.registry /\ CommitNextEpoch(w).auth = w.auth
         /\ CommitNextEpoch(w).safe = w.safe
         /\ CommitNextEpoch(w).core.handled = w.core.handled
         /\ CommitNextEpoch(w).core.bound = w.core.bound
         /\ Advanced(w) => /\ CommitNextEpoch(w).core.epoch = w.core.epoch + 1
                           /\ CommitNextEpoch(w).fence.epoch = w.core.epoch + 1
         /\ ~Advanced(w) => CommitNextEpoch(w) = Faulted(w)
<1> DEFINE c == [w.core EXCEPT !.epoch = w.core.epoch + 1]
           f == [w.fence EXCEPT !.epoch = w.fence.epoch + 1]
           v == [w EXCEPT !.core = c, !.fence = f]
<1>1. /\ w.core \in Core /\ w.fence \in Fence
      /\ w.core.epoch \in 1..MaxEpoch /\ w.fence.epoch \in 1..MaxEpoch
  BY DEF World, Core, Fence, Epoch
<1>2. CASE Advanced(w)
  <2>1. /\ ~w.fence.blocked /\ ~w.fence.pending /\ w.fence.epoch = w.core.epoch
        /\ w.core.epoch # MaxEpoch
    BY <1>2 DEF Advanced, CanAdvance
  <2>2. w.core.epoch + 1 \in Epoch
    BY <1>1, <2>1, Limits DEF Epoch
  <2>3. /\ c \in Core /\ c.epoch = w.core.epoch + 1 /\ c.active = w.core.active
        /\ c.bound = w.core.bound /\ c.handled = w.core.handled
    BY <1>1, <2>2 DEF Core
  <2>4. /\ f \in Fence /\ f.epoch = w.core.epoch + 1 /\ f.blocked = w.fence.blocked
        /\ f.pending = w.fence.pending
    BY <1>1, <2>1, <2>2 DEF Fence
  <2>5. CommitNextEpoch(w) = v
    BY <1>2 DEF CommitNextEpoch
  <2> HIDE DEF c, f
  <2>6. /\ v \in World /\ v.core = c /\ v.fence = f /\ v.port = w.port /\ v.outcome = w.outcome
        /\ v.registry = w.registry /\ v.auth = w.auth /\ v.safe = w.safe
    BY <2>3, <2>4 DEF World
  <2> HIDE DEF v
  <2>7. InStep(v)
    BY <1>1, <2>1, <2>3, <2>4, <2>6 DEF InStep
  <2>8. Ahead(w, v) /\ Holds(w, v)
    BY <1>1, <2>1, <2>3, <2>4, <2>6 DEF Ahead, Holds
  <2> QED
    BY <1>2, <2>3, <2>4, <2>5, <2>6, <2>7, <2>8 DEF Follows
<1>3. CASE ~Advanced(w)
  <2>1. CommitNextEpoch(w) = Faulted(w)
    BY <1>3 DEF CommitNextEpoch, Faulted
  <2>2. /\ Faulted(w).core.active = w.core.active /\ Faulted(w).port = w.port
        /\ Faulted(w).outcome = w.outcome /\ Faulted(w).registry = w.registry
        /\ Faulted(w).auth = w.auth /\ Faulted(w).safe = w.safe
        /\ Faulted(w).core.handled = w.core.handled /\ Faulted(w).core.bound = w.core.bound
    BY <1>1 DEF Faulted, World, Core
  <2> QED
    BY <1>3, <2>1, <2>2, FaultedFollows
<1> QED
  BY <1>2, <1>3

\* Where the epochs differ, or the fence is up, or no epoch is left.
LEMMA CommitCosts ==
  ASSUME NEW w \in World, InStep(w)
  PROVE  w.fence.blocked \/ Costs(w, CommitNextEpoch(w))
<1>1. w.core.epoch \in Nat
  BY Limits DEF World, Core, Epoch
<1> QED
  BY <1>1, CommitFollows DEF InStep, Costs, Advanced, CanAdvance, Follows, Ahead

-----------------------------------------------------------------------------
(***************************************************************************)
(* The port, and the terminal of a Mission.                                *)
(***************************************************************************)
LEMMA TornType ==
  ASSUME NEW p \in Port, NEW q \in {TornSafely(p)} \cup TornBadly(p)
  PROVE  q \in Port /\ q.active = None /\ (p.sticky => q.sticky)
<1>1. CASE q = TornSafely(p)
  BY <1>1 DEF TornSafely, Port
<1>2. CASE q \in TornBadly(p)
  <2>1. PICK s \in BOOLEAN, r \in BOOLEAN :
          q = [p EXCEPT !.active = None, !.safe = s, !.sticky = TRUE, !.rearm = @ \/ r]
    <3>1. PICK r \in BOOLEAN :
            q \in {[p EXCEPT !.active = None, !.safe = s, !.sticky = TRUE, !.rearm = @ \/ r] :
                    s \in BOOLEAN}
      BY <1>2, Zenon DEF TornBadly
    <3> QED
      BY <3>1, Zenon
  <2> DEFINE m == p.rearm \/ r
  <2>2. m \in BOOLEAN /\ q = [p EXCEPT !.active = None, !.safe = s, !.sticky = TRUE, !.rearm = m]
    BY <2>1
  <2> HIDE DEF m
  <2> QED
    BY <2>2 DEF Port
<1> QED
  BY <1>1, <1>2

LEMMA RecordedType ==
  ASSUME NEW g \in Registry, NEW t, NEW code \in Entry
  PROVE  /\ Recorded(g, t, code) \in Registry /\ DOMAIN Recorded(g, t, code) = DOMAIN g
         /\ \A u \in DOMAIN g : Recorded(g, t, code)[u] = IF u = t THEN code ELSE g[u]
BY DEF Recorded, Registry

\* cancel says that it is safe only with the child gone and the zero proven.
LEMMA CancelsEffect ==
  ASSUME NEW w \in World, NEW t, NEW u \in Cancels(w, t)
  PROVE  /\ u \in World /\ u.core = w.core /\ u.fence = w.fence /\ u.outcome = w.outcome
         /\ u.auth = w.auth
         /\ w.port.sticky => u.port.sticky
         /\ u.safe = TRUE => u.port.active = None /\ u.port.safe = TRUE
<1> DEFINE torn == {TornSafely(w.port)} \cup TornBadly(w.port)
           late == {w.registry} \cup {Recorded(w.registry, t, c) : c \in ChildCode}
           down == [w.port EXCEPT !.safe = FALSE]
<1>1. w.port \in Port /\ w.registry \in Registry
  BY DEF World
<1>2. \A q \in torn : q \in Port /\ q.active = None /\ (w.port.sticky => q.sticky)
  BY <1>1, TornType
<1>3. \A g \in late : g \in Registry
  BY <1>1, RecordedType DEF Entry, ChildCode
<1>4. down \in Port /\ (w.port.sticky => down.sticky)
  BY <1>1 DEF Port
<1>5. \/ u = [w EXCEPT !.safe = TRUE] /\ w.port.active = None /\ w.port.safe
      \/ \E q \in torn : u = [w EXCEPT !.safe = q.safe, !.port = q]
      \/ \E q \in torn, g \in late : u = [w EXCEPT !.safe = q.safe, !.port = q, !.registry = g]
      \/ u = [w EXCEPT !.safe = FALSE, !.port = down]
      \/ u = [w EXCEPT !.safe = FALSE]
  <2> DEFINE over == [w EXCEPT !.safe = FALSE, !.port.safe = FALSE]
             still == {[w EXCEPT !.safe = TRUE]}
             some == {[w EXCEPT !.safe = q.safe, !.port = q] : q \in torn} \cup {over}
             other == {[w EXCEPT !.safe = FALSE]}
             each == {over} \cup
                     UNION {{[w EXCEPT !.safe = q.safe, !.port = q, !.registry = g] : g \in late} :
                              q \in torn}
  <2>1. Cancels(w, t) =
          CASE w.port.active = None /\ w.port.safe -> still
            [] w.port.active = None /\ ~w.port.safe -> some
            [] w.port.active \notin {None, t} -> other
            [] w.port.active = t /\ t # None -> each
    BY DEF Cancels
  <2>2. over = [w EXCEPT !.safe = FALSE, !.port = down]
    BY DEF World, Port
  <2>3. u \in each => u = over \/ \E q \in torn, g \in late :
                          u = [w EXCEPT !.safe = q.safe, !.port = q, !.registry = g]
    <3> HIDE DEF over, torn, late
    <3> SUFFICES ASSUME u \in each, u # over
                 PROVE  \E q \in torn, g \in late :
                          u = [w EXCEPT !.safe = q.safe, !.port = q, !.registry = g]
      OBVIOUS
    <3>1. PICK q \in torn :
            u \in {[w EXCEPT !.safe = q.safe, !.port = q, !.registry = g] : g \in late}
      BY Zenon DEF each
    <3>2. PICK g \in late : u = [w EXCEPT !.safe = q.safe, !.port = q, !.registry = g]
      BY <3>1, Zenon
    <3> QED
      BY <3>2
  <2>4. u \in some => u = over \/ \E q \in torn : u = [w EXCEPT !.safe = q.safe, !.port = q]
    <3> HIDE DEF over
    <3> QED
      BY Zenon DEF some
  <2>5. u \in still => u = [w EXCEPT !.safe = TRUE]
    OBVIOUS
  <2>6. u \in other => u = [w EXCEPT !.safe = FALSE]
    OBVIOUS
  <2> HIDE DEF still, some, other, each, over, down
  <2>7. \/ u \in still /\ w.port.active = None /\ w.port.safe
        \/ u \in some \/ u \in each \/ u \in other
    BY <2>1
  <2> QED
    BY <2>2, <2>3, <2>4, <2>5, <2>6, <2>7
<1>6. \A q \in torn : q.safe \in BOOLEAN
  BY <1>2 DEF Port
<1> HIDE DEF torn, late, down
<1>7. CASE u = [w EXCEPT !.safe = TRUE] /\ w.port.active = None /\ w.port.safe
  BY <1>1, <1>7 DEF World, Port
<1>8. CASE \E q \in torn : u = [w EXCEPT !.safe = q.safe, !.port = q]
  BY <1>2, <1>6, <1>8 DEF World
<1>9. CASE \E q \in torn, g \in late : u = [w EXCEPT !.safe = q.safe, !.port = q, !.registry = g]
  BY <1>2, <1>3, <1>6, <1>9 DEF World
<1>10. CASE u = [w EXCEPT !.safe = FALSE, !.port = down] \/ u = [w EXCEPT !.safe = FALSE]
  BY <1>4, <1>10 DEF World
<1> QED
  BY <1>5, <1>7, <1>8, <1>9, <1>10

\* finish_active gives the slot back with a result.
LEMMA FinishedEffect ==
  ASSUME NEW w \in World, InStep(w), w.core.active # None, NEW code \in Code
  PROVE  /\ Finished(w, code) \in World /\ InStep(Finished(w, code)) /\ Ahead(w, Finished(w, code))
         /\ Finished(w, code).core.active = None
         /\ Finished(w, code).core.epoch = w.core.epoch
         /\ Finished(w, code).outcome = [w.outcome EXCEPT ![w.core.active.mission] = code]
         /\ Finished(w, code).fence = w.fence /\ Finished(w, code).port = w.port
         /\ Finished(w, code).safe = w.safe
<1> DEFINE c == [w.core EXCEPT !.active = None]
           o == [w.outcome EXCEPT ![w.core.active.mission] = code]
           v == [w EXCEPT !.outcome = o, !.core = c]
<1>1. w.core \in Core /\ w.outcome \in Outcomes /\ w.core.epoch \in Nat
  BY Limits DEF World, Core, Epoch
<1>2. /\ c \in Core /\ c.epoch = w.core.epoch /\ c.active = None
      /\ c.bound = w.core.bound /\ c.handled = w.core.handled
  BY <1>1 DEF Core
<1>3. o \in Outcomes
  BY <1>1 DEF Outcomes
<1>4. Finished(w, code) = Settled(v)
  BY DEF Finished
<1> HIDE DEF c, o
<1>5. /\ v \in World /\ v.core = c /\ v.outcome = o /\ v.fence = w.fence /\ v.port = w.port
      /\ v.safe = w.safe
  BY <1>2, <1>3 DEF World
<1> HIDE DEF v
<1>6. InStep(v) /\ Ahead(w, v)
  BY <1>1, <1>2, <1>5 DEF InStep, Ahead
<1>7. /\ Follows(v, Settled(v)) /\ Settled(v).core.active = v.core.active
      /\ Settled(v).core.handled = v.core.handled
      /\ Settled(v).fence = v.fence /\ Settled(v).port = v.port
      /\ Settled(v).outcome = v.outcome /\ Settled(v).safe = v.safe
      /\ Settled(v).core.epoch = v.core.epoch
  BY <1>5, <1>6, SettledFollows
<1>8. Ahead(w, Settled(v))
  BY <1>1, <1>2, <1>5, <1>6, <1>7 DEF Ahead, Follows, Costs
<1> QED
  BY <1>2, <1>4, <1>5, <1>7, <1>8 DEF Follows, o

\* What select_terminal_and_stop leaves: no Mission, and the result that was
\* selected only with the child gone and the zero proven.
Ends(w, v, code, rotate) ==
  /\ v \in World /\ InStep(v) /\ Ahead(w, v)
  /\ v.core.active = None
  /\ \/ v.outcome = [w.outcome EXCEPT ![w.core.active.mission] = "other"]
     \/ /\ v.outcome = [w.outcome EXCEPT ![w.core.active.mission] = code]
        /\ v.port.active = None /\ v.port.safe = TRUE
  /\ v.safe = TRUE =>
       /\ v.port.active = None /\ v.port.safe = TRUE
       /\ rotate => v.core.epoch = w.core.epoch + 1 /\ v.fence.epoch = v.core.epoch

LEMMA TerminalEnds ==
  ASSUME NEW w \in World, InStep(w), w.core.active # None, NEW t, NEW code \in Code,
         NEW rotate \in BOOLEAN, NEW v \in Terminal(w, t, code, rotate)
  PROVE  Ends(w, v, code, rotate)
<1> DEFINE y == IF rotate THEN CommitNextEpoch(w) ELSE w
           stuck == rotate /\ ~Advanced(w)
<1>1. /\ Follows(w, y) /\ y.core.active = w.core.active /\ y.outcome = w.outcome
      /\ rotate /\ ~stuck => y.core.epoch = w.core.epoch + 1 /\ y.fence.epoch = w.core.epoch + 1
  BY FollowsSelf, CommitFollows
<1>2. PICK u \in Cancels(y, t) :
        v = LET x == IF u.safe THEN u ELSE Faulted(u)
            IN  [Finished(x, IF u.safe /\ ~stuck THEN code ELSE "other")
                   EXCEPT !.safe = u.safe /\ ~stuck]
  BY DEF Terminal
<1> HIDE DEF y
<1>3. /\ u \in World /\ u.core = y.core /\ u.fence = y.fence /\ u.outcome = y.outcome
      /\ y.port.sticky => u.port.sticky
      /\ u.safe = TRUE => u.port.active = None /\ u.port.safe = TRUE
  BY <1>1, <1>2, CancelsEffect DEF Follows
<1>4. InStep(u) /\ Ahead(w, u) /\ u.core.active = w.core.active /\ u.outcome = w.outcome
  <2>1. w.core.epoch \in Nat /\ u.core.epoch \in Nat
    BY <1>3, Limits DEF World, Core, Epoch
  <2> QED
    BY <1>1, <1>3, <2>1 DEF Follows, InStep, Ahead, Costs
<1> DEFINE x == IF u.safe THEN u ELSE Faulted(u)
           res == IF u.safe /\ ~stuck THEN code ELSE "other"
           z == Finished(x, res)
<1>5. /\ x \in World /\ InStep(x) /\ Ahead(u, x) /\ x.core.active = u.core.active
      /\ x.outcome = u.outcome /\ x.fence = u.fence /\ x.core.epoch = u.core.epoch
      /\ u.safe = TRUE => x = u
  <2>1. CASE u.safe
    BY <1>3, <1>4, <2>1, FollowsSelf DEF Follows
  <2>2. CASE ~u.safe
    <3>1. Follows(u, Faulted(u)) /\ x = Faulted(u)
      BY <1>3, <1>4, <2>2, FaultedFollows
    <3>2. /\ Faulted(u).core.active = u.core.active /\ Faulted(u).outcome = u.outcome
          /\ Faulted(u).fence = u.fence /\ Faulted(u).core.epoch = u.core.epoch
      BY <1>3 DEF Faulted, World, Core
    <3> QED
      BY <2>2, <3>1, <3>2 DEF Follows
  <2> QED
    BY <2>1, <2>2
<1>6. res \in Code
  BY DEF Code
<1> HIDE DEF x, res
<1>7. /\ z \in World /\ InStep(z) /\ Ahead(x, z) /\ z.core.active = None
      /\ z.outcome = [x.outcome EXCEPT ![x.core.active.mission] = res]
      /\ z.fence = x.fence /\ z.port = x.port /\ z.core.epoch = x.core.epoch
  BY <1>4, <1>5, <1>6, FinishedEffect
<1>8. v = [z EXCEPT !.safe = u.safe /\ ~stuck]
  BY <1>2 DEF x, res
<1> HIDE DEF z
<1> DEFINE b == u.safe /\ ~stuck
<1>9. b \in BOOLEAN /\ (b = TRUE => u.safe = TRUE /\ ~stuck)
  OBVIOUS
<1>10. v = [z EXCEPT !.safe = b]
  BY <1>8
<1>11. res # "other" => res = code /\ u.safe = TRUE
  BY <1>3 DEF res, World
<1> HIDE DEF b, stuck
<1>12. /\ v \in World /\ v.core = z.core /\ v.fence = z.fence /\ v.port = z.port
       /\ v.outcome = z.outcome /\ v.safe = b
  BY <1>7, <1>9, <1>10 DEF World
<1>13. Ahead(w, v) /\ InStep(v)
  <2>1. /\ w.core.epoch \in Nat /\ u.core.epoch \in Nat /\ x.core.epoch \in Nat
        /\ z.core.epoch \in Nat
    BY <1>3, <1>5, <1>7, Limits DEF World, Core, Epoch
  <2>2. Ahead(w, x)
    BY <1>4, <1>5, <2>1 DEF Ahead, Costs
  <2>3. Ahead(w, z)
    BY <2>1, <2>2, <1>7 DEF Ahead, Costs
  <2> QED
    BY <1>7, <1>12, <2>3 DEF Ahead, Costs, InStep
<1>14. v.safe = TRUE => /\ v.port.active = None /\ v.port.safe = TRUE
                        /\ rotate => v.core.epoch = w.core.epoch + 1 /\ v.fence.epoch = v.core.epoch
  BY <1>1, <1>3, <1>5, <1>7, <1>9, <1>12
<1>15. \/ v.outcome = [w.outcome EXCEPT ![w.core.active.mission] = "other"]
       \/ /\ v.outcome = [w.outcome EXCEPT ![w.core.active.mission] = code]
          /\ v.port.active = None /\ v.port.safe = TRUE
  BY <1>3, <1>4, <1>5, <1>7, <1>11, <1>12
<1> QED
  BY <1>7, <1>12, <1>13, <1>14, <1>15 DEF Ends

LEMMA EndsFollows ==
  ASSUME NEW w \in World, InStep(w), w.core.active # None, NEW t, NEW rotate \in BOOLEAN,
         NEW v \in Terminal(w, t, "other", rotate)
  PROVE  Follows(w, v)
<1>1. Ends(w, v, "other", rotate)
  BY TerminalEnds DEF Code
<1> QED
  BY <1>1 DEF Ends, Follows, Holds

-----------------------------------------------------------------------------
(***************************************************************************)
(* The calls that lead to the child of a step.                             *)
(***************************************************************************)
\* What start_step leaves: the Mission with its child or its answer, or no
\* Mission and no success.
Starts(w, v) ==
  /\ v \in World /\ InStep(v) /\ Ahead(w, v)
  /\ \/ /\ v.core.active = w.core.active /\ v.outcome = w.outcome
        /\ Backed(v)
     \/ /\ v.core.active = None
        /\ v.outcome = [w.outcome EXCEPT ![w.core.active.mission] = "other"]

LEMMA TokenType ==
  ASSUME NEW a \in Active
  PROVE  TokenOf(a) \in Token /\ TokenOf(a) # None /\ a # None
<1>1. TokenOf(a) \in Token /\ TokenOf(a).mission # 0
  BY Limits DEF TokenOf, Token, Active, Mission
<1>2. a.mission # 0 /\ None.mission = 0
  BY Limits DEF Active, Mission, None
<1> QED
  BY <1>1, <1>2

LEMMA PortStartsEffect ==
  ASSUME NEW w \in World, InStep(w), NEW t \in Token, t \in DOMAIN w.registry,
         NEW v \in PortStarts(w, t)
  PROVE  /\ v \in World /\ InStep(v) /\ Ahead(w, v)
         /\ v.core = w.core /\ v.outcome = w.outcome
         /\ t \in DOMAIN v.registry /\ (v.port.active = t \/ v.registry[t] # "open")
<1> DEFINE p == [w.port EXCEPT !.active = t, !.safe = FALSE]
           g(code) == Recorded(w.registry, t, code)
<1>1. w.port \in Port /\ w.registry \in Registry /\ w.core.epoch \in Nat
  BY Limits DEF World, Core, Epoch
<1>2. p \in Port /\ p.active = t /\ p.sticky = w.port.sticky
  BY <1>1 DEF Port
<1>3. \A code \in {"safety", "failed"} :
        g(code) \in Registry /\ t \in DOMAIN g(code) /\ g(code)[t] = code
  BY <1>1, RecordedType DEF Entry, ChildCode
<1>4. \/ v = [w EXCEPT !.port = p]
      \/ \E code \in {"safety", "failed"} : v = [w EXCEPT !.registry = g(code)]
  BY DEF PortStarts
<1> HIDE DEF p, g
<1>5. CASE v = [w EXCEPT !.port = p]
  <2>1. /\ v \in World /\ v.core = w.core /\ v.fence = w.fence /\ v.outcome = w.outcome
        /\ v.port = p /\ v.registry = w.registry
    BY <1>2, <1>5 DEF World
  <2> QED
    BY <1>1, <1>2, <2>1 DEF InStep, Ahead
<1>6. ASSUME NEW code \in {"safety", "failed"}, v = [w EXCEPT !.registry = g(code)]
      PROVE  /\ v \in World /\ InStep(v) /\ Ahead(w, v)
             /\ v.core = w.core /\ v.outcome = w.outcome
             /\ t \in DOMAIN v.registry /\ (v.port.active = t \/ v.registry[t] # "open")
  <2>1. /\ v \in World /\ v.core = w.core /\ v.fence = w.fence /\ v.outcome = w.outcome
        /\ v.port = w.port /\ v.registry = g(code)
    BY <1>3, <1>6 DEF World
  <2> QED
    BY <1>1, <1>3, <2>1 DEF InStep, Ahead
<1> QED
  BY <1>4, <1>5, <1>6

LEMMA AheadOn ==
  ASSUME NEW w \in World, NEW u \in World, NEW v \in World, Ahead(w, u), Ahead(u, v)
  PROVE  Ahead(w, v)
<1>1. w.core.epoch \in Nat /\ u.core.epoch \in Nat /\ v.core.epoch \in Nat
      /\ w.core.epoch <= MaxEpoch /\ u.core.epoch <= MaxEpoch /\ v.core.epoch <= MaxEpoch
  BY Limits DEF World, Core, Epoch
<1> QED
  BY <1>1, Limits DEF Ahead, Costs

LEMMA RegisterStarts ==
  ASSUME NEW w \in World, InStep(w), w.core.active # None, NEW v \in RegisterAndStart(w)
  PROVE  Starts(w, v)
<1> DEFINE t == TokenOf(w.core.active)
           g == [x \in {t} \cup DOMAIN w.registry |-> IF x = t THEN "open" ELSE w.registry[x]]
           x == [w EXCEPT !.registry = g]
<1>1. w.core.active \in Active /\ w.registry \in Registry /\ w.core.epoch \in Nat
  BY Limits DEF World, Core, Epoch
<1>2. t \in Token
  BY <1>1, TokenType
<1>3. g \in Registry /\ t \in DOMAIN g
  <2>1. PICK T \in SUBSET Token : w.registry \in [T -> Entry]
    BY <1>1 DEF Registry
  <2>2. DOMAIN g = {t} \cup T /\ g \in [{t} \cup T -> Entry]
    BY <2>1 DEF Entry
  <2> QED
    BY <1>2, <2>2 DEF Registry
<1>4. CASE v \in TerminalBeforeChild(w)
  <2>1. Ends(w, v, "other", FALSE)
    BY <1>4, TerminalEnds DEF TerminalBeforeChild, Code
  <2> QED
    BY <2>1 DEF Ends, Starts
<1>5. CASE \E y \in Unsettled(x) : v \in PortStarts(y, t)
  <2>1. PICK y \in Unsettled(x) : v \in PortStarts(y, t)
    BY <1>5
  <2> HIDE DEF g
  <2>2. /\ x \in World /\ x.core = w.core /\ x.fence = w.fence /\ x.port = w.port
        /\ x.outcome = w.outcome /\ x.registry = g
    BY <1>3 DEF World
  <2> HIDE DEF x
  <2>3. InStep(x) /\ Ahead(w, x)
    BY <1>1, <2>2 DEF InStep, Ahead
  <2>4. Follows(x, y) /\ y.core = x.core /\ y.registry = x.registry /\ y.outcome = x.outcome
    <3>1. Follows(x, y)
      BY <2>1, <2>2, <2>3, UnsettledFollows
    <3>2. y = x \/ y = [x EXCEPT !.fence = Raised(x.fence)]
      BY <2>1 DEF Unsettled
    <3>3. y.core = x.core /\ y.registry = x.registry /\ y.outcome = x.outcome
      BY <2>2, <3>2 DEF World
    <3> QED
      BY <3>1, <3>3
  <2> HIDE DEF t
  <2>5. /\ v \in World /\ InStep(v) /\ Ahead(y, v)
        /\ v.core = y.core /\ v.outcome = y.outcome
        /\ t \in DOMAIN v.registry /\ (v.port.active = t \/ v.registry[t] # "open")
    BY <1>2, <1>3, <2>1, <2>2, <2>4, PortStartsEffect DEF Follows
  <2>6. Ahead(w, v)
    BY <2>2, <2>3, <2>4, <2>5, AheadOn DEF Follows
  <2>7. Backed(v)
    BY <2>2, <2>4, <2>5 DEF Backed, t
  <2> QED
    BY <2>2, <2>4, <2>5, <2>6, <2>7 DEF Starts
<1> QED
  BY <1>4, <1>5 DEF RegisterAndStart

LEMMA StartsAfter ==
  ASSUME NEW w \in World, NEW u \in World, NEW v \in World, Ahead(w, u), Starts(u, v),
         u.core.active = w.core.active, u.outcome = w.outcome
  PROVE  Starts(w, v)
BY AheadOn DEF Starts

LEMMA UnsettledKeeps ==
  ASSUME NEW w \in World, NEW v \in Unsettled(w)
  PROVE  /\ v.core = w.core /\ v.port = w.port /\ v.registry = w.registry
         /\ v.outcome = w.outcome /\ v.auth = w.auth /\ v.safe = w.safe
BY DEF Unsettled, World

LEMMA StartStepStarts ==
  ASSUME NEW w \in World, InStep(w), w.core.active # None, NEW v \in StartStep(w)
  PROVE  Starts(w, v)
<1>1. PICK u \in Unsettled(w) :
        v \in IF Allows(u.fence, u.core.active.epoch)
              THEN RegisterAndStart(u) ELSE TerminalBeforeChild(u)
  BY DEF StartStep
<1>2. Follows(w, u) /\ u.core = w.core /\ u.outcome = w.outcome
  BY <1>1, UnsettledFollows, UnsettledKeeps
<1>3. u \in World /\ InStep(u) /\ u.core.active # None /\ Ahead(w, u)
  BY <1>2 DEF Follows
<1>4. Starts(u, v)
  <2>1. CASE v \in RegisterAndStart(u)
    BY <1>3, <2>1, RegisterStarts
  <2>2. CASE v \in TerminalBeforeChild(u)
    <3>1. Ends(u, v, "other", FALSE)
      BY <1>3, <2>2, TerminalEnds DEF TerminalBeforeChild, Code
    <3> QED
      BY <3>1 DEF Ends, Starts
  <2> QED
    BY <1>1, <2>1, <2>2
<1> QED
  BY <1>2, <1>3, <1>4, StartsAfter DEF Starts

\* The Mission that saves a map ends within its step.
LEMMA SaveMapEnds ==
  ASSUME NEW w \in World, InStep(w), w.core.active # None, NEW v \in SaveMap(w)
  PROVE  /\ v \in World /\ InStep(v) /\ Ahead(w, v) /\ v.core.active = None
         /\ \E code \in Code : v.outcome = [w.outcome EXCEPT ![w.core.active.mission] = code]
<1>1. PICK u \in Unsettled(w) :
        \/ v \in TerminalBeforeChild(u)
        \/ \E c \in ChildCode :
             v \in Terminal(IF c = "safety" THEN Faulted(u) ELSE u,
                            None, IF c = "succeeded" THEN c ELSE "other", FALSE)
  <2> DEFINE saved(u) ==
               UNION {Terminal(IF c = "safety" THEN Faulted(u) ELSE u,
                               None, IF c = "succeeded" THEN c ELSE "other", FALSE) :
                        c \in ChildCode}
             after(u) == IF Allows(u.fence, u.core.active.epoch)
                         THEN saved(u) ELSE TerminalBeforeChild(u)
  <2>1. SaveMap(w) = UNION {after(u) : u \in Unsettled(w)}
    BY DEF SaveMap
  <2>2. \A u : v \in after(u) => v \in saved(u) \/ v \in TerminalBeforeChild(u)
    OBVIOUS
  <2>3. \A u : v \in saved(u) =>
          \E c \in ChildCode :
             v \in Terminal(IF c = "safety" THEN Faulted(u) ELSE u,
                            None, IF c = "succeeded" THEN c ELSE "other", FALSE)
    OBVIOUS
  <2> HIDE DEF saved, after
  <2>4. PICK u \in Unsettled(w) : v \in after(u)
    BY <2>1
  <2> QED
    BY <2>2, <2>3, <2>4
<1>2. Follows(w, u) /\ u.core = w.core /\ u.outcome = w.outcome
  BY <1>1, UnsettledFollows, UnsettledKeeps
<1>3. u \in World /\ InStep(u) /\ u.core.active # None /\ Ahead(w, u)
  BY <1>2 DEF Follows
<1>4. PICK y \in World, code \in Code :
        /\ InStep(y) /\ Ahead(u, y) /\ y.core.active = u.core.active /\ y.outcome = u.outcome
        /\ v \in Terminal(y, None, code, FALSE)
  <2>1. CASE v \in TerminalBeforeChild(u)
    BY <1>3, <2>1, FollowsSelf DEF TerminalBeforeChild, Follows, Code
  <2>2. ASSUME NEW c \in ChildCode,
               v \in Terminal(IF c = "safety" THEN Faulted(u) ELSE u,
                              None, IF c = "succeeded" THEN c ELSE "other", FALSE)
        PROVE  \E y \in World, code \in Code :
                 /\ InStep(y) /\ Ahead(u, y) /\ y.core.active = u.core.active
                 /\ y.outcome = u.outcome /\ v \in Terminal(y, None, code, FALSE)
    <3> DEFINE y == IF c = "safety" THEN Faulted(u) ELSE u
               code == IF c = "succeeded" THEN c ELSE "other"
    <3>1. Follows(u, Faulted(u)) /\ Follows(u, u)
      BY <1>3, FaultedFollows, FollowsSelf
    <3>2. Faulted(u).core.active = u.core.active /\ Faulted(u).outcome = u.outcome
      BY <1>3 DEF Faulted, World, Core
    <3>3. /\ y \in World /\ InStep(y) /\ Ahead(u, y) /\ y.core.active = u.core.active
          /\ y.outcome = u.outcome
      BY <3>1, <3>2 DEF Follows
    <3>4. code \in Code /\ v \in Terminal(y, None, code, FALSE)
      BY <2>2 DEF Code
    <3> HIDE DEF y, code
    <3> QED
      BY <3>3, <3>4
  <2> QED
    BY <1>1, <2>1, <2>2
<1>5. Ends(y, v, code, FALSE)
  BY <1>3, <1>4, TerminalEnds
<1>6. Ahead(w, v)
  BY <1>3, <1>4, <1>5, AheadOn DEF Ends
<1> QED
  BY <1>2, <1>4, <1>5, <1>6 DEF Ends, Code

-----------------------------------------------------------------------------
(***************************************************************************)
(* The calls of the Gate: an INHIBIT, and the rearm of a replacement.      *)
(***************************************************************************)
\* A change of the core and of what is told to the caller.
LEMMA ChangeFollows ==
  ASSUME NEW w \in World, InStep(w), NEW c \in Core, NEW b \in BOOLEAN,
         c.epoch = w.core.epoch, c.active = w.core.active,
         w.core.bound => c.bound, w.core.bound /\ c.handled => w.core.handled
  PROVE  Follows(w, [w EXCEPT !.core = c, !.safe = b])
<1> DEFINE v == [w EXCEPT !.core = c, !.safe = b]
<1>1. /\ v \in World /\ v.core = c /\ v.fence = w.fence /\ v.port = w.port
      /\ v.registry = w.registry /\ v.outcome = w.outcome
  BY DEF World
<1>2. w.core.epoch \in Nat
  BY Limits DEF World, Core, Epoch
<1> HIDE DEF v
<1> QED
  BY <1>1, <1>2 DEF Follows, InStep, Ahead, Holds, v

LEMMA SafeFollows ==
  ASSUME NEW w \in World, InStep(w), NEW b \in BOOLEAN
  PROVE  /\ Follows(w, [w EXCEPT !.safe = b])
         /\ [w EXCEPT !.safe = b].core = w.core /\ [w EXCEPT !.safe = b].fence = w.fence
         /\ [w EXCEPT !.safe = b].port = w.port /\ [w EXCEPT !.safe = b].safe = b
         /\ [w EXCEPT !.safe = b].outcome = w.outcome /\ [w EXCEPT !.safe = b].auth = w.auth
<1>1. w.core \in Core /\ [w EXCEPT !.safe = b] = [w EXCEPT !.core = w.core, !.safe = b]
  BY DEF World
<1> QED
  BY <1>1, ChangeFollows DEF World

\* The core looks at a snapshot.
LEMMA SeenFollows ==
  ASSUME NEW w \in World, InStep(w), NEW s \in Snapshot
  PROVE  /\ Follows(w, Seen(w, s))
         /\ Seen(w, s).core.active = w.core.active /\ Seen(w, s).core.bound = w.core.bound
         /\ Seen(w, s).core.epoch = w.core.epoch /\ Seen(w, s).core.handled = w.core.handled
         /\ Seen(w, s).port = w.port /\ Seen(w, s).fence = w.fence /\ Seen(w, s).auth = w.auth
<1> DEFINE c == [w.core EXCEPT !.gate = s]
<1>1. w.core \in Core
  BY DEF World
<1>2. /\ c \in Core /\ c.epoch = w.core.epoch /\ c.active = w.core.active
      /\ c.bound = w.core.bound /\ c.handled = w.core.handled
  BY <1>1 DEF Core
<1>3. Seen(w, s) = [w EXCEPT !.core = c]
  BY DEF Seen
<1> HIDE DEF c
<1> QED
  BY <1>2, <1>3, CoreFollows DEF World

LEMMA InhibitFollows ==
  ASSUME NEW w \in World, InStep(w), NEW v \in InhibitAndProve(w)
  PROVE  Follows(w, v) /\ v.core.active = w.core.active /\ v.core.bound = w.core.bound
<1> DEFINE s == w.auth
           n == IF s.seq < MaxSeq THEN s.seq + 1 ELSE s.seq
           down == [s EXCEPT !.seq = n, !.kind = "idle"]
           u == Watermark(w, down)
<1>1. s \in Snapshot /\ w.core \in Core
  BY DEF World
<1>2. down \in Snapshot
  <2>1. n \in 0..MaxSeq
    BY <1>1, Limits DEF Snapshot
  <2> HIDE DEF n
  <2> QED
    BY <1>1, <2>1 DEF Snapshot, Kind
<1>3. \/ v = [w EXCEPT !.core.gate = s, !.safe = FALSE]
      \/ v = [u EXCEPT !.core.gate = down, !.safe = TRUE]
  BY DEF InhibitAndProve
<1> HIDE DEF down, s
<1>4. Follows(w, u) /\ u.core = w.core
  <2>1. Follows(w, u)
    BY <1>2, WatermarkFollows
  <2>2. u.core = w.core
    BY DEF Watermark, Sampled, World
  <2> QED
    BY <2>1, <2>2
<1> HIDE DEF u
<1>5. ASSUME NEW x \in World, InStep(x), x.core = w.core, NEW g \in Snapshot, NEW b \in BOOLEAN,
             v = [x EXCEPT !.core.gate = g, !.safe = b], Follows(w, x)
      PROVE  Follows(w, v) /\ v.core.active = w.core.active /\ v.core.bound = w.core.bound
  <2> DEFINE c == [x.core EXCEPT !.gate = g]
  <2>1. /\ c \in Core /\ c.epoch = x.core.epoch /\ c.active = x.core.active
        /\ c.bound = x.core.bound /\ c.handled = x.core.handled
    BY <1>1, <1>5 DEF Core
  <2>2. v = [x EXCEPT !.core = c, !.safe = b]
    BY <1>5
  <2> HIDE DEF c
  <2>3. Follows(x, v)
    <3>1. Follows(x, [x EXCEPT !.core = c, !.safe = b])
      BY ONLY <1>5, <2>1, ChangeFollows
    <3> QED
      BY <2>2, <3>1
  <2>4. v \in World /\ v.core = c
    BY <2>2, <2>3 DEF Follows, World
  <2> QED
    BY <1>5, <2>1, <2>3, <2>4, FollowsOn
<1> QED
  BY <1>1, <1>2, <1>3, <1>4, <1>5, FollowsSelf DEF Follows

\* Where the callback of a raised fence is still to come.
Due(w) == w.fence.blocked => w.fence.pending

LEMMA DueStays ==
  ASSUME NEW w, NEW v, Due(w), Ahead(w, v)
  PROVE  Due(v)
BY DEF Due, Ahead

\* A Gate whose fault is over is bound afresh.
LEMMA ClearedFollows ==
  ASSUME NEW w \in World, InStep(w)
  PROVE  Follows(w, Cleared(w)) /\ Cleared(w).core.active = w.core.active
         /\ Cleared(w).safe = w.safe /\ Cleared(w).auth = w.auth
         /\ Cleared(w).core.handled = FALSE
<1> DEFINE c == [w.core EXCEPT !.handled = FALSE, !.lost = NoLoss, !.pending = FALSE, !.bound = TRUE]
<1>1. w.core \in Core
  BY DEF World
<1>2. NoLoss \in (0..MaxGate) \X (0..MaxSeq)
  BY Limits DEF NoLoss, NoGate
<1>3. c \in Core /\ c.epoch = w.core.epoch /\ c.active = w.core.active /\ c.bound /\ ~c.handled
      /\ c.handled = FALSE
  BY <1>1, <1>2 DEF Core
<1>4. Cleared(w) = [w EXCEPT !.core = c]
  BY DEF Cleared
<1> HIDE DEF c
<1> QED
  BY <1>3, <1>4, CoreFollows DEF World

\* The fault of the Adapter is gone with a new epoch, or with a fence that is
\* about to move it.
LEMMA RearmFollows ==
  ASSUME NEW w \in World, InStep(w), Due(w), NEW v \in TryRearm(w)
  PROVE  /\ Follows(w, v) /\ v.core.active = w.core.active
         /\ ~v.safe => v.core.bound = w.core.bound /\ v.core.handled = w.core.handled
<1> DEFINE p == [w.port EXCEPT !.sticky = FALSE, !.rearm = FALSE, !.safe = TRUE]
           x == [w EXCEPT !.port = p]
           seq == {w.auth.seq, w.auth.seq + 1} \cap (0..MaxSeq)
           to(n) == [w.auth EXCEPT !.seq = n]
           out(u) == IF Advanced(u) THEN Advertised(Cleared(CommitNextEpoch(u)), u.auth)
                     ELSE [CommitNextEpoch(u) EXCEPT !.safe = FALSE]
<1>1. CASE v = [w EXCEPT !.safe = FALSE]
  BY <1>1, SafeFollows
<1>2. ASSUME w.core.active = None, NEW u \in PortRearmed(w), v = out(u)
      PROVE  /\ Follows(w, v) /\ v.core.active = w.core.active
             /\ ~v.safe => v.core.bound = w.core.bound /\ v.core.handled = w.core.handled
  <2>1. /\ w.port \in Port /\ w.auth \in Snapshot /\ w.core \in Core
        /\ w.core.epoch \in Nat /\ w.core.epoch <= MaxEpoch
    BY Limits DEF World, Core, Epoch
  <2>2. p \in Port /\ p.sticky = FALSE
    BY <2>1 DEF Port
  <2>3. PICK n \in seq : u = [Watermark(x, to(n)) EXCEPT !.safe = TRUE]
    BY <1>2 DEF PortRearmed
  <2>4. to(n) \in Snapshot
    BY <2>1 DEF Snapshot
  <2> HIDE DEF p, to
  <2>5. /\ x \in World /\ x.core = w.core /\ x.fence = w.fence /\ x.outcome = w.outcome
        /\ x.port = p
    BY <2>2 DEF World
  <2> HIDE DEF x
  <2>6. InStep(x)
    BY <2>5 DEF InStep
  <2>7. Follows(x, u) /\ u.core = x.core /\ u.safe = TRUE
    <3> DEFINE y == Watermark(x, to(n))
    <3>1. Follows(x, y)
      BY <2>4, <2>5, <2>6, WatermarkFollows
    <3>2. y.core = x.core
      BY <2>5 DEF Watermark, Sampled, World
    <3> HIDE DEF y
    <3>3. Follows(y, u) /\ u.core = y.core /\ u.safe = TRUE
      BY <2>3, <3>1, SafeFollows DEF Follows, y
    <3> QED
      BY <2>5, <3>1, <3>2, <3>3, FollowsOn DEF Follows
  <2>8. u \in World /\ InStep(u) /\ Ahead(x, u)
    BY <2>7 DEF Follows
  <2> DEFINE z == CommitNextEpoch(u)
  <2>9. /\ Follows(u, z) /\ z.core.active = u.core.active /\ z.auth = u.auth /\ z.safe = u.safe
        /\ z.core.bound = u.core.bound /\ z.core.handled = u.core.handled
        /\ u.fence.blocked \/ Costs(u, z)
    BY <2>8, CommitFollows, CommitCosts
  <2>10. z \in World /\ InStep(z) /\ u.auth \in Snapshot
    BY <2>8, <2>9 DEF Follows, World
  <2> HIDE DEF z
  <2>11. /\ Follows(z, v) /\ v.core.active = z.core.active
         /\ ~v.safe => v.core.bound = z.core.bound /\ v.core.handled = z.core.handled
    <3>1. CASE Advanced(u)
      <4>1. v = Advertised(Cleared(z), u.auth)
        BY <1>2, <3>1 DEF z
      <4> DEFINE k == Cleared(z)
      <4>2. Follows(z, k) /\ k.core.active = z.core.active /\ k.safe = z.safe
        BY <2>10, ClearedFollows
      <4>3. k \in World /\ InStep(k)
        BY <4>2 DEF Follows
      <4> HIDE DEF k
      <4>4. Follows(k, v) /\ v.core.active = k.core.active /\ v.safe = k.safe
        BY <2>10, <4>1, <4>3, AdvertisedFollows DEF k
      <4>5. v \in World
        BY <4>4 DEF Follows
      <4>6. Follows(z, v)
        BY <2>10, <4>2, <4>3, <4>4, <4>5, FollowsOn
      <4> QED
        BY <2>7, <2>9, <4>2, <4>4, <4>6
    <3>2. CASE ~Advanced(u)
      <4>1. v = [z EXCEPT !.safe = FALSE]
        BY <1>2, <3>2 DEF z
      <4> QED
        BY <2>10, <4>1, SafeFollows
    <3> QED
      BY <3>1, <3>2
  <2>12. v \in World /\ InStep(v) /\ Follows(x, v)
    <3>1. v \in World /\ InStep(v)
      BY <2>11 DEF Follows
    <3>2. Follows(x, z)
      BY <2>5, <2>7, <2>8, <2>9, <2>10, FollowsOn
    <3> QED
      BY <2>5, <2>10, <2>11, <3>1, <3>2, FollowsOn
  <2>13. Costs(x, v)
    <3>1. Ahead(u, z) /\ Ahead(z, v) /\ v.core.epoch \in Nat /\ z.core.epoch \in Nat
      BY <2>9, <2>10, <2>11, <2>12, Limits DEF Follows, World, Core, Epoch
    <3>2. u.fence.blocked => u.fence.pending
      BY <2>5, <2>8, DueStays DEF Due
    <3> QED
      BY <2>1, <2>5, <2>7, <2>9, <3>1, <3>2 DEF Costs, Ahead
  <2>14. Ahead(w, v)
    BY <2>5, <2>12, <2>13 DEF Follows, Ahead, Costs
  <2>15. Holds(w, v)
    BY <1>2, <2>5, <2>12 DEF Follows, Holds
  <2> QED
    BY <2>5, <2>7, <2>9, <2>11, <2>12, <2>14, <2>15 DEF Follows
<1>3. \/ v = [w EXCEPT !.safe = FALSE]
      \/ w.core.active = None /\ \E u \in PortRearmed(w) : v = out(u)
  BY DEF TryRearm, MayRearm
<1> HIDE DEF out
<1> QED
  BY <1>1, <1>2, <1>3

-----------------------------------------------------------------------------
(***************************************************************************)
(* What a step has to show: the invariant of the world after it, and what  *)
(* the step may not do.                                                    *)
(***************************************************************************)
\* BlockedIsTerminal, of a world.
Terminated(w) ==
  w.fence.blocked /\ ~w.fence.pending =>
    w.core.active = None /\ w.core.availability = "faulted"

Sound(w) == w \in World /\ InStep(w) /\ Single(w) /\ Backed(w) /\ Terminated(w)

\* StepsAreEarned, of two worlds.
Earns(w, v) ==
  LET a == w.core.active
      t == TokenOf(a)
  IN  \/ a = None
      \/ v.core.active = a
      \/ v.core.active = None /\ v.outcome[a.mission] = "other"
      \/ /\ t \in DOMAIN w.registry /\ w.registry[t] = "succeeded"
         /\ \/ v.core.active = [a EXCEPT !.step = @ + 1]
            \/ /\ v.core.active = None /\ a.step = a.of
               /\ v.port.active = None /\ v.port.safe

\* EpochFollowsLoss and RearmCostsAnEpoch, of two worlds.
Pays(w, v) ==
  /\ w.core.bound /\ ~w.core.handled /\ v.core.handled => Costs(w, v)
  /\ w.port.sticky /\ ~v.port.sticky => Costs(w, v)

Good(w, v) == Sound(v) /\ Earns(w, v) /\ Pays(w, v)

LEMMA FollowsKeeps ==
  ASSUME NEW w \in World, Single(w), Backed(w), NEW v, Follows(w, v), Due(w) \/ Terminated(v)
  PROVE  Good(w, v)
<1>1. /\ w \in World /\ v \in World /\ InStep(v) /\ Ahead(w, v) /\ Holds(w, v)
  BY DEF Follows
<1>2. Terminated(v)
  BY <1>1, DueStays DEF Due, Terminated
<1>3. w.core.active # None => w.core.active \in Active /\ w.core.active.mission \in Mission
  BY <1>1 DEF World, Core, Active
<1>4. w.outcome \in Outcomes
  BY <1>1 DEF World
<1>5. None.mission = 0 /\ 0 \notin Mission
  BY DEF None, Mission
<1>6. CASE /\ v.core.active = w.core.active /\ v.outcome = w.outcome
           /\ v.core.active # None => v.port.active = w.port.active /\ v.registry = w.registry
  <2>1. Single(v) /\ Backed(v)
    BY <1>6 DEF Single, Backed
  <2> QED
    BY <1>1, <1>2, <1>6, <2>1 DEF Good, Sound, Earns, Pays, Ahead
<1>7. CASE /\ w.core.active # None /\ v.core.active = None
           /\ v.outcome = [w.outcome EXCEPT ![w.core.active.mission] = "other"]
  <2>1. v.outcome[w.core.active.mission] = "other"
    BY <1>3, <1>4, <1>7 DEF Outcomes
  <2>2. Single(v)
    <3> SUFFICES ASSUME NEW m \in Mission, v.outcome[m] = "running"
                 PROVE  FALSE
      BY <1>5, <1>7 DEF Single
    <3>1. m # w.core.active.mission
      BY <2>1
    <3>2. w.outcome[m] = "running"
      BY <1>4, <1>7, <3>1 DEF Outcomes
    <3> QED
      BY <3>1, <3>2 DEF Single
  <2>3. Backed(v)
    BY <1>7 DEF Backed
  <2> QED
    BY <1>1, <1>2, <1>7, <2>1, <2>2, <2>3 DEF Good, Sound, Earns, Pays, Ahead
<1> QED
  BY <1>1, <1>6, <1>7 DEF Holds

LEMMA FollowsGood ==
  ASSUME NEW w, Sound(w), NEW v, Follows(w, v), Due(w) \/ Terminated(v)
  PROVE  Good(w, v)
BY FollowsKeeps DEF Sound

-----------------------------------------------------------------------------
(***************************************************************************)
(* Admission and cancel.                                                   *)
(***************************************************************************)
LEMMA BoundFollows ==
  ASSUME NEW w \in World, InStep(w)
  PROVE  /\ Follows(w, Bound(w)) /\ Bound(w).core.active = w.core.active
         /\ Bound(w).outcome = w.outcome /\ Bound(w).core.next = w.core.next
<1> DEFINE c == [w.core EXCEPT !.gate = w.auth, !.bound = TRUE, !.handled = FALSE, !.lost = NoLoss]
<1>1. w.core \in Core /\ w.auth \in Snapshot
  BY DEF World
<1>2. NoLoss \in (0..MaxGate) \X (0..MaxSeq)
  BY Limits DEF NoLoss, NoGate
<1>3. /\ c \in Core /\ c.epoch = w.core.epoch /\ c.active = w.core.active
      /\ c.bound /\ ~c.handled /\ c.next = w.core.next
  BY <1>1, <1>2 DEF Core
<1>4. Bound(w) = [w EXCEPT !.core = c]
  BY DEF Bound
<1> HIDE DEF c
<1> QED
  BY <1>3, <1>4, CoreFollows DEF World

\* The Mission takes the slot and a number.
LEMMA OwnedType ==
  ASSUME NEW w \in World, InStep(w), w.core.next \in Mission, NEW n \in 1..MaxSteps
  PROVE  LET v == [Owned(w, n) EXCEPT !.core.next = @ + 1]
         IN  /\ v \in World /\ InStep(v) /\ Ahead(w, v)
             /\ v.core.active \in Active /\ v.core.active.mission = w.core.next
             /\ v.core.active.step = 1 /\ v.core.active.of = n
             /\ v.outcome = [w.outcome EXCEPT ![w.core.next] = "running"]
             /\ v.fence = w.fence /\ v.port = w.port
<1> DEFINE a == [mission |-> w.core.next, epoch |-> w.core.epoch, step |-> 1, of |-> n]
           k == w.core.next + 1
           c == [w.core EXCEPT !.active = a, !.availability = "busy", !.next = k]
           o == [w.outcome EXCEPT ![w.core.next] = "running"]
           v == [w EXCEPT !.core = c, !.outcome = o]
<1>1. w.core \in Core /\ w.outcome \in Outcomes /\ w.core.epoch \in Epoch /\ w.core.epoch \in Nat
  BY Limits DEF World, Core, Epoch
<1>2. a \in Active /\ k \in 1..(MaxMission + 1)
  BY <1>1, Limits DEF Active, Mission
<1>3. a.mission = w.core.next /\ a.step = 1 /\ a.of = n
  OBVIOUS
<1> HIDE DEF a, k
<1>4. /\ c \in Core /\ c.epoch = w.core.epoch /\ c.active = a
      /\ c.bound = w.core.bound /\ c.handled = w.core.handled
  BY <1>1, <1>2 DEF Core, Availability
<1>5. o \in Outcomes
  BY <1>1 DEF Outcomes
<1>6. [Owned(w, n) EXCEPT !.core.next = @ + 1] = v
  <2>1. Owned(w, n) = [w EXCEPT !.core.active = a, !.core.availability = "busy", !.outcome = o]
    BY Zenon DEF Owned, a, o
  <2> HIDE DEF o
  <2> DEFINE d == [w.core EXCEPT !.active = a, !.availability = "busy"]
  <2>2. Owned(w, n) = [w EXCEPT !.core = d, !.outcome = o]
    BY <2>1 DEF World
  <2>3. d \in Core /\ d.next = w.core.next /\ [d EXCEPT !.next = k] = c
    BY <1>1, <1>2 DEF Core, Availability
  <2> HIDE DEF d, c
  <2>4. Owned(w, n).core = d /\ Owned(w, n) \in World
    BY <1>5, <2>2, <2>3 DEF World, o
  <2>5. [Owned(w, n) EXCEPT !.core.next = @ + 1] = [Owned(w, n) EXCEPT !.core = [d EXCEPT !.next = k]]
    BY <2>3, <2>4 DEF k
  <2> QED
    BY <2>2, <2>3, <2>5 DEF World
<1> HIDE DEF c, o
<1>7. /\ v \in World /\ v.core = c /\ v.outcome = o /\ v.fence = w.fence /\ v.port = w.port
  BY <1>4, <1>5 DEF World
<1> HIDE DEF v
<1>8. InStep(v) /\ Ahead(w, v)
  BY <1>1, <1>4, <1>7 DEF InStep, Ahead
<1> QED
  BY <1>2, <1>3, <1>4, <1>6, <1>7, <1>8 DEF o

LEMMA EnteredGood ==
  ASSUME NEW w, Sound(w), w.core.active = None, Due(w), NEW m \in Mission,
         NEW y \in World, Ahead(w, y), y.core.active.mission = m,
         y.core.active.step <= y.core.active.of,
         y.outcome = [w.outcome EXCEPT ![m] = "running"],
         NEW v \in World, InStep(v), Ahead(y, v),
         \/ v.core.active = y.core.active /\ v.outcome = y.outcome /\ Backed(v)
         \/ /\ v.core.active = None
            /\ \E code \in Code : v.outcome = [y.outcome EXCEPT ![m] = code]
  PROVE  Good(w, v)
<1>1. w \in World /\ w.outcome \in Outcomes /\ y.outcome \in Outcomes
  BY DEF Sound, World
<1>2. Ahead(w, v)
  BY <1>1, AheadOn
<1>3. Terminated(v)
  BY <1>2, DueStays DEF Due, Terminated
<1>4. \A k \in Mission : w.outcome[k] # "running"
  BY DEF Sound, Single, Mission, None
<1>5. Single(v)
  <2>1. CASE v.core.active = y.core.active /\ v.outcome = y.outcome
    BY <1>1, <1>4, <2>1 DEF Single, Outcomes
  <2>2. ASSUME v.core.active = None, NEW code \in Code, v.outcome = [y.outcome EXCEPT ![m] = code]
        PROVE  Single(v)
    <3>1. \A k \in Mission : v.outcome[k] = IF k = m THEN code ELSE w.outcome[k]
      BY <1>1, <2>2 DEF Outcomes
    <3>2. v.core.active.mission = 0 /\ 0 \notin Mission /\ code # "running"
      BY <2>2 DEF None, Mission, Code
    <3> QED
      BY <1>4, <2>2, <3>1, <3>2 DEF Single
  <2> QED
    BY <2>1, <2>2
<1>6. Backed(v)
  BY DEF Backed
<1> QED
  BY <1>2, <1>3, <1>5, <1>6 DEF Good, Sound, Earns, Pays, Ahead

LEMMA AdmittedGood ==
  ASSUME NEW w, Sound(w), w.core.active = None, ~w.fence.blocked, w.core.next \in Mission,
         NEW n \in 1..MaxSteps, NEW save \in BOOLEAN, NEW v \in Admitted(w, n, save)
  PROVE  Good(w, v)
<1> DEFINE own(u) == [Owned(u, n) EXCEPT !.core.next = @ + 1]
           off(u) == {Faulted(y) : y \in InhibitAndProve([u EXCEPT !.core.next = @ + 1])}
           enter(u) == IF Allows(u.fence, u.core.epoch)
                       THEN IF save THEN SaveMap(own(u)) ELSE StartStep(own(u))
                       ELSE off(u)
           enters(x) == UNION {enter(u) : u \in Unsettled(x)}
           begin(x) == IF ~Allows(x.fence, x.core.epoch) THEN {x} ELSE enters(x)
<1>1. w \in World /\ InStep(w) /\ Due(w)
  BY DEF Sound, Due
<1>2. Admitted(w, n, save) = UNION {begin(x) : x \in Unsettled(Bound(w))}
  BY DEF Admitted
<1> HIDE DEF begin
<1>3. PICK x \in Unsettled(Bound(w)) : v \in begin(x)
  BY <1>2
<1>4. /\ Follows(w, x) /\ x.core.active = None /\ x.outcome = w.outcome
      /\ x.core.next = w.core.next
  <2>1. /\ Follows(w, Bound(w)) /\ Bound(w).core.active = None /\ Bound(w).outcome = w.outcome
        /\ Bound(w).core.next = w.core.next
    BY <1>1, BoundFollows
  <2>2. Follows(Bound(w), x) /\ x.core = Bound(w).core /\ x.outcome = Bound(w).outcome
    BY <1>3, <2>1, UnsettledFollows, UnsettledKeeps DEF Follows
  <2> QED
    BY <1>1, <2>1, <2>2, FollowsOn DEF Follows
<1>5. CASE v = x
  BY <1>1, <1>4, <1>5, FollowsGood
<1>6. CASE \E u \in Unsettled(x) : v \in enter(u)
  <2>1. PICK u \in Unsettled(x) : v \in enter(u)
    BY <1>6
  <2>2. /\ Follows(w, u) /\ u.core.active = None /\ u.outcome = w.outcome
        /\ u.core.next = w.core.next
    <3>1. Follows(x, u) /\ u.core = x.core /\ u.outcome = x.outcome
      BY <1>4, <2>1, UnsettledFollows, UnsettledKeeps DEF Follows
    <3> QED
      BY <1>1, <1>4, <3>1, FollowsOn DEF Follows
  <2>3. u \in World /\ InStep(u) /\ Ahead(w, u)
    BY <2>2 DEF Follows
  <2> DEFINE y == own(u)
  <2>4. /\ y \in World /\ InStep(y) /\ Ahead(u, y) /\ y.core.active \in Active
        /\ y.core.active.mission = w.core.next /\ y.core.active.step <= y.core.active.of
        /\ y.outcome = [w.outcome EXCEPT ![w.core.next] = "running"]
    BY <2>2, <2>3, OwnedType, Limits
  <2>5. Ahead(w, y) /\ y.core.active # None
    BY <1>1, <2>3, <2>4, AheadOn, TokenType
  <2>6. CASE v \in SaveMap(y)
    <3> HIDE DEF own
    <3>1. /\ v \in World /\ InStep(v) /\ Ahead(y, v) /\ v.core.active = None
          /\ \E code \in Code : v.outcome = [y.outcome EXCEPT ![y.core.active.mission] = code]
      BY <2>4, <2>5, <2>6, SaveMapEnds
    <3>2. \E code \in Code : v.outcome = [y.outcome EXCEPT ![w.core.next] = code]
      BY <2>4, <3>1
    <3> HIDE DEF y
    <3> QED
      BY <1>1, <2>4, <2>5, <3>1, <3>2, EnteredGood
  <2>7. CASE v \in StartStep(y)
    <3> HIDE DEF own
    <3>1. Starts(y, v)
      BY <2>4, <2>5, <2>7, StartStepStarts
    <3>2. \/ v.core.active = y.core.active /\ v.outcome = y.outcome /\ Backed(v)
          \/ /\ v.core.active = None
             /\ \E code \in Code : v.outcome = [y.outcome EXCEPT ![w.core.next] = code]
      BY <2>4, <3>1 DEF Starts, Code
    <3>3. v \in World /\ InStep(v) /\ Ahead(y, v)
      BY <3>1 DEF Starts
    <3> HIDE DEF y
    <3> QED
      BY <1>1, <2>4, <2>5, <3>2, <3>3, EnteredGood
  <2>8. CASE v \in off(u)
    <3> DEFINE k == u.core.next + 1
               c == [u.core EXCEPT !.next = k]
               z == [u EXCEPT !.core = c]
    <3>1. PICK r \in InhibitAndProve([u EXCEPT !.core.next = @ + 1]) : v = Faulted(r)
      BY <2>8
    <3>2. [u EXCEPT !.core.next = @ + 1] = z
      OBVIOUS
    <3>3. u.core \in Core /\ k \in 1..(MaxMission + 1)
      BY <2>2, <2>3, Limits DEF World, Mission
    <3> HIDE DEF k
    <3>4. /\ c \in Core /\ c.epoch = u.core.epoch /\ c.active = u.core.active
          /\ c.bound = u.core.bound /\ c.handled = u.core.handled
      BY <3>3 DEF Core
    <3> HIDE DEF c
    <3>5. Follows(u, z)
      BY <2>3, <3>4, CoreFollows
    <3> HIDE DEF z
    <3>6. Follows(z, r)
      BY <3>1, <3>2, <3>5, InhibitFollows DEF Follows
    <3>7. Follows(r, v)
      BY <3>1, <3>6, FaultedFollows DEF Follows
    <3>8. Follows(w, v)
      <4>1. z \in World /\ r \in World /\ v \in World
        BY <3>5, <3>6, <3>7 DEF Follows
      <4>2. Follows(w, z)
        BY <1>1, <2>2, <2>3, <3>5, <4>1, FollowsOn
      <4>3. Follows(w, r)
        BY <1>1, <3>6, <4>1, <4>2, FollowsOn
      <4> QED
        BY <1>1, <3>7, <4>1, <4>3, FollowsOn
    <3> QED
      BY <1>1, <3>8, FollowsGood
  <2> HIDE DEF own, off
  <2> QED
    BY <2>1, <2>6, <2>7, <2>8
<1>7. v = x \/ \E u \in Unsettled(x) : v \in enter(u)
  <2> HIDE DEF enter
  <2> QED
    BY <1>3 DEF begin
<1> HIDE DEF enter
<1> QED
  BY <1>5, <1>6, <1>7

-----------------------------------------------------------------------------
(***************************************************************************)
(* A sample of the Gate.                                                   *)
(***************************************************************************)
LEMMA FollowsThen ==
  ASSUME NEW w \in World, NEW u, NEW v, Follows(w, u), Follows(u, v)
  PROVE  Follows(w, v)
<1>1. u \in World /\ v \in World
  BY DEF Follows
<1> QED
  BY <1>1, FollowsOn

\* An availability of its own choice.
LEMMA AdvertisesFollows ==
  ASSUME NEW w \in World, InStep(w), NEW a \in Availability
  PROVE  /\ Follows(w, [w EXCEPT !.core.availability = a])
         /\ [w EXCEPT !.core.availability = a].core.active = w.core.active
<1> DEFINE c == [w.core EXCEPT !.availability = a]
<1>1. w.core \in Core
  BY DEF World
<1>2. /\ c \in Core /\ c.epoch = w.core.epoch /\ c.active = w.core.active
      /\ c.bound = w.core.bound /\ c.handled = w.core.handled
  BY <1>1 DEF Core
<1>3. [w EXCEPT !.core.availability = a] = [w EXCEPT !.core = c]
  OBVIOUS
<1> HIDE DEF c
<1> QED
  BY <1>2, <1>3, CoreFollows DEF World

LEMMA UnboundFollows ==
  ASSUME NEW w \in World, InStep(w), ~w.core.bound, NEW s \in Snapshot,
         NEW v \in ObserveUnbound(w, s)
  PROVE  Follows(w, v)
<1> DEFINE tried == IF s.kind \in {"gone", "faulted", "idle"}
                    THEN {[Seen(w, s) EXCEPT !.safe = TRUE]}
                    ELSE {[y EXCEPT !.core.gate = y.auth] : y \in InhibitAndProve(Seen(w, s))}
           to(u, b, h) == [u EXCEPT !.core.bound = b, !.core.handled = h]
           ready(u) == StartupReady(u.core.gate)
           settled(u) == IF ~ready(u) /\ s.kind # "gone" THEN Faulted(to(u, ready(u), ~ready(u)))
                         ELSE Settled(to(u, ready(u), ~ready(u)))
<1>1. PICK u \in tried : v = IF u.safe THEN settled(u) ELSE Faulted(to(u, FALSE, TRUE))
  BY DEF ObserveUnbound
<1> DEFINE x == Seen(w, s)
<1>2. Follows(w, x) /\ ~x.core.bound
  BY SeenFollows
<1>3. x \in World /\ InStep(x)
  BY <1>2 DEF Follows
<1>4. Follows(w, u) /\ ~u.core.bound
  <2>1. CASE u = [x EXCEPT !.safe = TRUE]
    <3> HIDE DEF x
    <3> QED
      BY <1>2, <1>3, <2>1, SafeFollows, FollowsThen
  <2>2. ASSUME NEW y \in InhibitAndProve(x), u = [y EXCEPT !.core.gate = y.auth]
        PROVE  Follows(w, u) /\ ~u.core.bound
    <3> HIDE DEF x
    <3>1. Follows(x, y) /\ ~y.core.bound
      BY <1>2, <1>3, <2>2, InhibitFollows
    <3>2. y \in World /\ InStep(y) /\ y.auth \in Snapshot
      BY <3>1 DEF Follows, World
    <3>3. u = Seen(y, y.auth)
      BY <2>2 DEF Seen
    <3>4. Follows(y, u) /\ ~u.core.bound
      BY <3>1, <3>2, <3>3, SeenFollows
    <3> QED
      BY <1>2, <3>1, <3>4, FollowsThen
  <2> QED
    BY <1>1, <2>1, <2>2
<1>5. u \in World /\ InStep(u)
  BY <1>4 DEF Follows
<1>6. \A b, h \in BOOLEAN : Follows(u, to(u, b, h))
  <2> TAKE b, h \in BOOLEAN
  <2> DEFINE c == [u.core EXCEPT !.bound = b, !.handled = h]
  <2>1. u.core \in Core
    BY <1>5 DEF World
  <2>2. c \in Core /\ c.epoch = u.core.epoch /\ c.active = u.core.active
    BY <2>1 DEF Core
  <2>3. to(u, b, h) = [u EXCEPT !.core = c]
    OBVIOUS
  <2> HIDE DEF c, to
  <2> QED
    BY <1>4, <1>5, <2>2, <2>3, CoreFollows
<1>7. PICK b \in BOOLEAN, h \in BOOLEAN :
        v \in {Faulted(to(u, b, h)), Settled(to(u, b, h))}
  <2>1. ready(u) \in BOOLEAN /\ (~ready(u)) \in BOOLEAN
    BY DEF StartupReady
  <2> HIDE DEF to, ready
  <2> QED
    BY <1>1, <2>1
<1> DEFINE z == to(u, b, h)
<1> HIDE DEF to, tried
<1>8. Follows(u, z)
  BY <1>6
<1>9. z \in World /\ InStep(z)
  BY <1>8 DEF Follows
<1> HIDE DEF z
<1>10. Follows(z, v)
  BY <1>7, <1>9, FaultedFollows, SettledFollows DEF z
<1> QED
  BY <1>4, <1>8, <1>10, FollowsThen

LEMMA PendingFollows ==
  ASSUME NEW w \in World, InStep(w), NEW b \in BOOLEAN
  PROVE  /\ Follows(w, [w EXCEPT !.core.pending = b])
         /\ [w EXCEPT !.core.pending = b].core.active = w.core.active
         /\ [w EXCEPT !.core.pending = b].core.handled = w.core.handled
         /\ [w EXCEPT !.core.pending = b].core.pending = b
<1> DEFINE c == [w.core EXCEPT !.pending = b]
<1>1. w.core \in Core
  BY DEF World
<1>2. /\ c \in Core /\ c.epoch = w.core.epoch /\ c.active = w.core.active
      /\ c.bound = w.core.bound /\ c.handled = w.core.handled /\ c.pending = b
  BY <1>1 DEF Core
<1>3. [w EXCEPT !.core.pending = b] = [w EXCEPT !.core = c]
  OBVIOUS
<1> HIDE DEF c
<1> QED
  BY <1>2, <1>3, CoreFollows DEF World

LEMMA LatchedFollows ==
  ASSUME NEW w \in World, InStep(w), Due(w), NEW s \in Snapshot, NEW replaced \in BOOLEAN,
         NEW v \in ObserveLatched(w, s, replaced)
  PROVE  Follows(w, v)
<1> DEFINE x == Seen(w, s)
           b == x.core.pending \/ replaced
           y == [x EXCEPT !.core.pending = b]
           z == [Cleared(y) EXCEPT !.core.pending = FALSE]
<1>1. v \in TryRearm(y) \/ v = Settled(z) \/ v = y
  BY Zenon DEF ObserveLatched
<1>2. Follows(w, x)
  BY SeenFollows
<1>3. x \in World /\ InStep(x) /\ b \in BOOLEAN
  BY <1>2 DEF Follows, World, Core
<1> HIDE DEF x, b
<1>4. Follows(x, y)
  BY <1>3, PendingFollows
<1>5. Follows(w, y)
  BY <1>2, <1>4, FollowsThen
<1> HIDE DEF y
<1>6. y \in World /\ InStep(y) /\ Due(y)
  BY <1>5, DueStays DEF Follows
<1>7. CASE v \in TryRearm(y)
  BY <1>5, <1>6, <1>7, RearmFollows, FollowsThen
<1>8. CASE v = Settled(z)
  <2> DEFINE k == Cleared(y)
  <2>1. Follows(y, k)
    BY <1>6, ClearedFollows
  <2>2. k \in World /\ InStep(k)
    BY <2>1 DEF Follows
  <2> HIDE DEF k
  <2>3. Follows(k, z)
    BY <2>2, PendingFollows DEF k
  <2> HIDE DEF z
  <2>4. Follows(z, v)
    BY <1>8, <2>3, SettledFollows DEF Follows
  <2>5. Follows(w, k)
    BY <1>5, <2>1, FollowsThen
  <2>6. Follows(w, z)
    BY <2>3, <2>5, FollowsThen
  <2> QED
    BY <2>4, <2>6, FollowsThen
<1> QED
  BY <1>1, <1>5, <1>7, <1>8

\* The fault is latched with the epoch it costs.
LEMMA LossCosts ==
  ASSUME NEW u \in World, InStep(u), Due(u), NEW l \in (0..MaxGate) \X (0..MaxSeq)
  PROVE  LET x == CommitNextEpoch([u EXCEPT !.core.handled = TRUE, !.core.lost = l])
         IN  Follows(u, x) /\ x.core.active = u.core.active
<1> DEFINE c == [u.core EXCEPT !.handled = TRUE, !.lost = l]
           y == [u EXCEPT !.core = c]
           x == CommitNextEpoch(y)
<1>1. u.core \in Core /\ u.core.epoch \in Nat
  BY Limits DEF World, Core, Epoch
<1>2. /\ c \in Core /\ c.epoch = u.core.epoch /\ c.active = u.core.active
      /\ c.bound = u.core.bound
  BY <1>1 DEF Core
<1>3. [u EXCEPT !.core.handled = TRUE, !.core.lost = l] = y
  OBVIOUS
<1> HIDE DEF c
<1>4. /\ y \in World /\ y.core = c /\ y.fence = u.fence /\ y.port = u.port
      /\ y.registry = u.registry /\ y.outcome = u.outcome
  BY <1>2 DEF World
<1> HIDE DEF y
<1>5. InStep(y) /\ Due(y)
  BY <1>2, <1>4 DEF InStep, Due
<1>6. /\ Follows(y, x)
      /\ y.fence.blocked \/ Costs(y, x)
      /\ x.core.active = y.core.active
  BY <1>4, <1>5, CommitFollows, CommitCosts
<1> HIDE DEF x
<1>7. x \in World /\ InStep(x) /\ Ahead(y, x) /\ Holds(y, x) /\ (y.fence.blocked \/ Costs(y, x))
  BY <1>6 DEF Follows
<1>8. Costs(u, x)
  BY <1>1, <1>2, <1>4, <1>5, <1>7 DEF Costs, Due, Ahead
<1>9. Ahead(u, x)
  BY <1>2, <1>4, <1>7, <1>8 DEF Ahead, Costs
<1>10. Holds(u, x)
  BY <1>2, <1>4, <1>7 DEF Holds
<1> QED
  BY <1>2, <1>3, <1>4, <1>6, <1>7, <1>9, <1>10 DEF Follows, x

LEMMA LossFollows ==
  ASSUME NEW w \in World, InStep(w), Due(w), NEW s \in Snapshot, NEW replaced \in BOOLEAN,
         NEW v \in ObserveLoss(w, s, replaced)
  PROVE  Follows(w, v)
<1> DEFINE x == Seen(w, s)
           y == [x EXCEPT !.core.pending = replaced]
           after == IF ZeroProven(s) THEN "unavailable" ELSE "faulted"
           l == <<s.gate, s.seq>>
           lost(u) == CommitNextEpoch([u EXCEPT !.core.handled = TRUE, !.core.lost = l])
           ends(u) == IF lost(u).core.active # None
                      THEN TerminalOfChild(lost(u), "other", FALSE) ELSE {lost(u)}
           lose(u) == {[z EXCEPT !.core.availability = after] : z \in ends(u)}
<1>1. \E u \in TryRearm(y) : v \in IF u.safe THEN {u} ELSE lose(u)
  <2> DEFINE both(u) == IF u.safe THEN {u} ELSE lose(u)
  <2>1. ObserveLoss(w, s, replaced) = UNION {both(u) : u \in TryRearm(y)}
    BY DEF ObserveLoss
  <2> HIDE DEF both, y
  <2>2. \E u \in TryRearm(y) : v \in both(u)
    BY <2>1
  <2> QED
    BY <2>2 DEF both
<1>2. PICK u \in TryRearm(y) : v \in IF u.safe THEN {u} ELSE lose(u)
  BY <1>1
<1>3. Follows(w, x)
  BY SeenFollows
<1>4. x \in World /\ InStep(x)
  BY <1>3 DEF Follows
<1> HIDE DEF x, ends
<1>5. Follows(x, y)
  BY <1>4, PendingFollows
<1>6. Follows(w, y)
  BY <1>3, <1>5, FollowsThen
<1> HIDE DEF y
<1>7. y \in World /\ InStep(y) /\ Due(y)
  BY <1>6, DueStays DEF Follows
<1>8. Follows(y, u)
  BY <1>2, <1>7, RearmFollows
<1>9. u \in World /\ InStep(u) /\ Due(u) /\ Follows(w, u)
  BY <1>6, <1>7, <1>8, DueStays, FollowsThen DEF Follows
<1>10. CASE u.safe
  BY <1>2, <1>9, <1>10
<1>11. CASE ~u.safe
  <2>1. PICK z \in ends(u) : v = [z EXCEPT !.core.availability = after]
    BY <1>2, <1>11
  <2>2. l \in (0..MaxGate) \X (0..MaxSeq) /\ after \in Availability
    BY DEF Snapshot, Availability
  <2> HIDE DEF l, after
  <2>3. Follows(u, lost(u))
    BY <1>9, <2>2, LossCosts
  <2> DEFINE k == lost(u)
  <2>4. k \in World /\ InStep(k) /\ Follows(w, k)
    BY <1>9, <2>3, FollowsThen DEF Follows
  <2>5. z = k \/ (k.core.active # None /\ z \in TerminalOfChild(k, "other", FALSE))
    <3>1. z \in IF k.core.active # None THEN TerminalOfChild(k, "other", FALSE) ELSE {k}
      BY <2>1 DEF ends
    <3> QED
      BY <3>1
  <2> HIDE DEF lost, k
  <2>6. Follows(k, z)
    BY <2>4, <2>5, FollowsSelf, EndsFollows DEF TerminalOfChild
  <2>7. Follows(w, z)
    BY <2>4, <2>6, FollowsThen
  <2>8. Follows(z, v)
    BY <2>1, <2>2, <2>6, AdvertisesFollows DEF Follows
  <2> QED
    BY <2>7, <2>8, FollowsThen
<1> QED
  BY <1>10, <1>11

LEMMA ObserveFollows ==
  ASSUME NEW w \in World, InStep(w), Due(w), NEW s \in Snapshot, NEW v \in ObserveGate(w, s)
  PROVE  Follows(w, v)
<1> DEFINE replaced == w.core.bound /\ OtherGate(w.core.gate, s)
<1>1. w.core.bound \in BOOLEAN
  BY DEF World, Core
<1>2. replaced \in BOOLEAN
  BY <1>1
<1>3. \/ v = w
      \/ ~w.core.bound /\ v \in ObserveUnbound(w, s)
      \/ v \in ObserveLatched(w, s, replaced)
      \/ v \in ObserveLoss(w, s, replaced)
      \/ v = Settled(Seen(w, s))
  <2> DEFINE stale == Stale(w.core, s)
             broken == replaced \/ (GateHealthy(w.core.gate) /\ ~GateHealthy(s))
             seen == Settled(Seen(w, s))
  <2>1. ObserveGate(w, s) =
          CASE stale -> {w}
            [] ~w.core.bound -> ObserveUnbound(w, s)
            [] ~stale /\ w.core.bound /\ w.core.handled -> ObserveLatched(w, s, replaced)
            [] ~stale /\ w.core.bound /\ ~w.core.handled /\ broken -> ObserveLoss(w, s, replaced)
            [] OTHER -> {seen}
    BY DEF ObserveGate
  <2> HIDE DEF stale, broken, seen, replaced
  <2>2. \/ v = w
        \/ ~w.core.bound /\ v \in ObserveUnbound(w, s)
        \/ v \in ObserveLatched(w, s, replaced)
        \/ v \in ObserveLoss(w, s, replaced)
        \/ v = seen
    BY <2>1
  <2> QED
    BY <2>2 DEF seen
<1> HIDE DEF replaced
<1>4. CASE v = Settled(Seen(w, s))
  <2> DEFINE x == Seen(w, s)
  <2>1. Follows(w, x)
    BY SeenFollows
  <2> HIDE DEF x
  <2>2. Follows(x, v)
    BY <1>4, <2>1, SettledFollows DEF Follows, x
  <2> QED
    BY <2>1, <2>2, FollowsThen
<1> QED
  BY <1>2, <1>3, <1>4, FollowsSelf, UnboundFollows, LatchedFollows, LossFollows

-----------------------------------------------------------------------------
(***************************************************************************)
(* The timer.                                                              *)
(***************************************************************************)
LEMMA DependenciesFollow ==
  ASSUME NEW w \in World, InStep(w), NEW v \in ObserveDependencies(w)
  PROVE  Follows(w, v)
<1> DEFINE h == Healthy(w.port)
           idle == [w EXCEPT !.core.availability = IF w.port.sticky THEN "faulted" ELSE "unavailable"]
           lost == IF w.core.active # None THEN TerminalOfChild(CommitNextEpoch(w), "other", FALSE)
                   ELSE {CommitNextEpoch(idle)}
           to(u) == [u EXCEPT !.core.healthy = h]
           rest(u) == IF to(u).core.active = None THEN Settled(to(u)) ELSE to(u)
<1>1. PICK u \in (IF Dropped(w) THEN lost ELSE {w}) : v = rest(u)
  BY Zenon DEF ObserveDependencies
<1>2. Follows(w, u)
  <2>1. CASE u = w
    BY <2>1, FollowsSelf
  <2>2. CASE w.core.active # None /\ u \in TerminalOfChild(CommitNextEpoch(w), "other", FALSE)
    <3> DEFINE x == CommitNextEpoch(w)
    <3>1. Follows(w, x) /\ x.core.active = w.core.active
      BY CommitFollows
    <3> HIDE DEF x
    <3>2. Follows(x, u)
      BY <2>2, <3>1, EndsFollows DEF TerminalOfChild, Follows, x
    <3> QED
      BY <3>1, <3>2, FollowsThen
  <2>3. CASE u = CommitNextEpoch(idle)
    <3>1. Follows(w, idle)
      BY AdvertisesFollows DEF Availability
    <3> HIDE DEF idle
    <3>2. Follows(idle, u)
      BY <2>3, <3>1, CommitFollows DEF Follows
    <3> QED
      BY <3>1, <3>2, FollowsThen
  <2> HIDE DEF rest, idle
  <2> QED
    BY <1>1, <2>1, <2>2, <2>3
<1>3. u \in World /\ InStep(u)
  BY <1>2 DEF Follows
<1>4. h \in BOOLEAN
  BY DEF Healthy, World, Port
<1> HIDE DEF h, lost
<1> DEFINE x == to(u)
<1>5. Follows(u, x)
  <2> DEFINE c == [u.core EXCEPT !.healthy = h]
  <2>1. u.core \in Core
    BY <1>3 DEF World
  <2>2. /\ c \in Core /\ c.epoch = u.core.epoch /\ c.active = u.core.active
        /\ c.bound = u.core.bound /\ c.handled = u.core.handled
    BY <1>4, <2>1 DEF Core
  <2>3. x = [u EXCEPT !.core = c]
    OBVIOUS
  <2> HIDE DEF c, x, to
  <2> QED
    BY <1>3, <2>2, <2>3, CoreFollows
<1>6. v = x \/ v = Settled(x)
  <2> HIDE DEF to
  <2> QED
    BY <1>1
<1> HIDE DEF x, to
<1>7. Follows(x, v)
  BY <1>5, <1>6, FollowsSelf, SettledFollows DEF Follows
<1>8. Follows(w, x)
  BY <1>2, <1>5, FollowsThen
<1> QED
  BY <1>7, <1>8, FollowsThen

LEMMA DiscoveryFollows ==
  ASSUME NEW w \in World, InStep(w), NEW v \in DiscoveryTimeout(w)
  PROVE  Follows(w, v)
<1> DEFINE c == [w.core EXCEPT !.timedOut = TRUE, !.availability = "unavailable"]
<1>1. w.core \in Core
  BY DEF World
<1>2. /\ c \in Core /\ c.epoch = w.core.epoch /\ c.active = w.core.active
      /\ c.bound = w.core.bound /\ c.handled = w.core.handled
  BY <1>1 DEF Core, Availability
<1>3. v = w \/ v = [w EXCEPT !.core = c]
  BY DEF DiscoveryTimeout
<1> HIDE DEF c
<1> QED
  BY <1>2, <1>3, CoreFollows, FollowsSelf

LEMMA TickFollows ==
  ASSUME NEW w \in World, InStep(w), Due(w), NEW late \in BOOLEAN, NEW v \in Ticked(w, late)
  PROVE  Follows(w, v)
<1> DEFINE observe(u) == IF u.safe THEN {u} ELSE ObserveDependencies(u)
           rearmed == TryRearm(w)
           observed == UNION {observe(u) : u \in rearmed}
           discovered == UNION {DiscoveryTimeout(u) : u \in observed}
           ends(u) == IF late /\ u.core.active # None
                      THEN TerminalOfChild(u, "other", FALSE) ELSE {u}
<1>1. Ticked(w, late) = UNION {ends(u) : u \in discovered}
  BY DEF Ticked
<1> HIDE DEF ends, observe
<1>2. PICK d \in discovered : v \in ends(d)
  BY <1>1
<1>3. PICK o \in observed : d \in DiscoveryTimeout(o)
  BY <1>2
<1>4. PICK r \in rearmed : o \in observe(r)
  BY <1>3
<1>5. Follows(w, r)
  BY <1>4, RearmFollows
<1>6. Follows(r, o)
  BY <1>4, <1>5, FollowsSelf, DependenciesFollow DEF observe, Follows
<1>7. Follows(o, d)
  BY <1>3, <1>6, DiscoveryFollows DEF Follows
<1>8. Follows(d, v)
  BY <1>2, <1>7, FollowsSelf, EndsFollows DEF ends, Follows, TerminalOfChild
<1>9. Follows(w, o)
  BY <1>5, <1>6, FollowsThen
<1>10. Follows(w, d)
  BY <1>7, <1>9, FollowsThen
<1> QED
  BY <1>8, <1>10, FollowsThen

-----------------------------------------------------------------------------
(***************************************************************************)
(* STOP.                                                                   *)
(***************************************************************************)
\* A STOP that is acknowledged has ended the Mission and left no child.
Stopped(w, v, rotate) ==
  /\ v.core.active = None /\ v.port.active = None /\ v.port.safe = TRUE
  /\ rotate => v.core.epoch = w.core.epoch + 1 /\ v.fence.epoch = v.core.epoch

LEMMA BarrierStops ==
  ASSUME NEW w \in World, InStep(w), NEW rotate \in BOOLEAN, NEW v \in StopBarrier(w, rotate)
  PROVE  /\ Follows(w, v)
         /\ v.safe = TRUE => Stopped(w, v, rotate)
         /\ w.core.active = None /\ ~rotate => v.core = w.core
         /\ w.core.active = None /\ rotate /\ ~Advanced(w) => v.core = Faulted(w).core
<1>1. CASE w.core.active # None
  <2>1. v \in Terminal(w, TokenOf(w.core.active), "other", rotate)
    BY <1>1 DEF StopBarrier, TerminalOfChild
  <2>2. Ends(w, v, "other", rotate)
    BY <1>1, <2>1, TerminalEnds DEF Code
  <2> QED
    BY <1>1, <2>1, <2>2, EndsFollows DEF Ends, Stopped
<1>2. CASE w.core.active = None
  <2> DEFINE y == IF rotate THEN CommitNextEpoch(w) ELSE w
             ok == rotate => Advanced(w)
  <2>1. PICK u \in Cancels(y, None) : v = [u EXCEPT !.safe = @ /\ ok]
    BY <1>2 DEF StopBarrier
  <2>2. /\ Follows(w, y) /\ y.core.active = None
        /\ rotate /\ Advanced(w) => y.core.epoch = w.core.epoch + 1 /\ y.fence.epoch = y.core.epoch
        /\ ~rotate => y.core = w.core
        /\ rotate /\ ~Advanced(w) => y = Faulted(w)
    BY <1>2, FollowsSelf, CommitFollows
  <2>3. y \in World /\ InStep(y)
    BY <2>2 DEF Follows
  <2> HIDE DEF y
  <2>4. /\ u \in World /\ u.core = y.core /\ u.fence = y.fence /\ u.outcome = y.outcome
        /\ y.port.sticky => u.port.sticky
        /\ u.safe = TRUE => u.port.active = None /\ u.port.safe = TRUE
    BY <2>1, <2>3, CancelsEffect
  <2> DEFINE b == u.safe /\ ok
  <2>5. /\ b \in BOOLEAN /\ (b = TRUE => u.safe = TRUE /\ ok)
        /\ v = [u EXCEPT !.safe = b]
    BY <2>1, <2>4 DEF World
  <2> HIDE DEF b
  <2>6. /\ v \in World /\ v.core = u.core /\ v.fence = u.fence /\ v.port = u.port
        /\ v.outcome = u.outcome /\ v.safe = b
    BY <2>4, <2>5 DEF World
  <2>7. y.core.epoch \in Nat
    BY <2>3, Limits DEF World, Core, Epoch
  <2>8. Follows(y, v)
    BY <2>2, <2>3, <2>4, <2>6, <2>7 DEF Follows, InStep, Ahead, Holds
  <2>9. Follows(w, v)
    BY <2>2, <2>8, FollowsThen
  <2>10. v.safe = TRUE => Stopped(w, v, rotate)
    BY <2>2, <2>4, <2>5, <2>6 DEF Stopped
  <2> QED
    BY <1>2, <2>2, <2>4, <2>6, <2>9, <2>10
<1> QED
  BY <1>1, <1>2

-----------------------------------------------------------------------------
(***************************************************************************)
(* The steps.                                                              *)
(***************************************************************************)
LEMMA NowIs ==
  /\ Now.core = core /\ Now.fence = fence /\ Now.port = port /\ Now.registry = registry
  /\ Now.auth = auth /\ Now.samples = samples /\ Now.outcome = outcome /\ Now.safe = TRUE
BY DEF Now

LEMMA AdmitGood ==
  ASSUME Sound(Now), NEW n \in 1..MaxSteps, NEW save \in BOOLEAN, Admit(n, save)
  PROVE  \E v : Becomes(v) /\ Good(Now, v)
<1>1. /\ ~fence.blocked /\ core.next <= MaxMission /\ core.active = None
  BY NowIs DEF Admit, Dispatched, AdmissionOpen
<1>2. core.next \in Mission
  BY <1>1, NowIs, Limits DEF Sound, World, Core, Mission
<1>3. PICK v \in Admitted(Now, n, save) : Becomes(v)
  BY DEF Admit
<1>4. Good(Now, v)
  BY <1>1, <1>2, <1>3, NowIs, AdmittedGood
<1> QED
  BY <1>3, <1>4

LEMMA AdmitRefusedGood ==
  ASSUME Sound(Now), AdmitRefused
  PROVE  \E v : Becomes(v) /\ Good(Now, v)
<1>1. Now \in World /\ InStep(Now) /\ Due(Now)
  BY NowIs DEF AdmitRefused, Dispatched, Sound, Due
<1>2. PICK w \in Unsettled(Now) :
        \/ Becomes(Faulted(w))
        \/ Becomes(Faulted([w EXCEPT !.core.gate = auth]))
        \/ Becomes([w EXCEPT !.core.gate = auth])
  BY DEF AdmitRefused
<1>3. Follows(Now, w)
  BY <1>1, UnsettledFollows
<1>4. w \in World /\ InStep(w) /\ auth \in Snapshot
  BY <1>1, <1>3, NowIs DEF Follows, World
<1> DEFINE x == Seen(w, auth)
<1>5. Follows(w, x) /\ x = [w EXCEPT !.core.gate = auth]
  BY <1>4, SeenFollows DEF Seen
<1>6. Follows(Now, x) /\ x \in World /\ InStep(x)
  BY <1>1, <1>3, <1>5, FollowsThen DEF Follows
<1>7. Follows(w, Faulted(w)) /\ Follows(x, Faulted(x))
  BY <1>4, <1>6, FaultedFollows
<1> HIDE DEF x
<1>8. Follows(Now, Faulted(w)) /\ Follows(Now, Faulted(x))
  BY <1>1, <1>3, <1>6, <1>7, FollowsThen
<1>9. Good(Now, Faulted(w)) /\ Good(Now, Faulted(x)) /\ Good(Now, x)
  BY <1>1, <1>6, <1>8, FollowsGood
<1> QED
  BY <1>2, <1>5, <1>9

LEMMA CancelGood ==
  ASSUME Sound(Now), Cancel
  PROVE  \E v : Becomes(v) /\ Good(Now, v)
<1>1. core.active # None
  BY DEF Cancel
<1>2. PICK v \in TerminalOfChild(Now, "other", FALSE) : Becomes(v)
  BY DEF Cancel
<1>3. Follows(Now, v)
  BY <1>1, <1>2, NowIs, EndsFollows DEF Sound, TerminalOfChild
<1>4. Due(Now)
  BY <1>1, NowIs DEF Sound, Terminated, Due
<1>5. Good(Now, v)
  BY <1>3, <1>4, FollowsGood
<1> QED
  BY <1>2, <1>5

LEMMA GateSampledGood ==
  ASSUME Sound(Now), GateSampled
  PROVE  \E v : Becomes(v) /\ Good(Now, v)
<1>1. Now \in World /\ InStep(Now) /\ Due(Now)
  BY NowIs DEF GateSampled, Dispatched, Sound, Due
<1>2. PICK s \in samples :
        \E u \in Unsettled([Now EXCEPT !.samples = samples \ {s}]) :
          \E v \in ObserveGate(u, s) : Becomes(v)
  BY NowIs DEF GateSampled
<1> DEFINE x == [Now EXCEPT !.samples = samples \ {s}]
<1>3. /\ x \in World /\ x.core = core /\ x.fence = fence /\ x.port = port
      /\ x.registry = registry /\ x.outcome = outcome /\ s \in Snapshot
  BY <1>1, NowIs DEF World
<1> HIDE DEF x
<1>4. core.epoch \in Nat
  BY <1>1, NowIs, Limits DEF World, Core, Epoch
<1>5. Follows(Now, x)
  BY <1>1, <1>3, <1>4, NowIs DEF Follows, InStep, Ahead, Holds
<1>6. PICK u \in Unsettled(x) : \E v \in ObserveGate(u, s) : Becomes(v)
  BY <1>2 DEF x
<1>7. Follows(x, u)
  BY <1>5, UnsettledFollows DEF Follows
<1>8. Follows(Now, u)
  BY <1>1, <1>5, <1>7, FollowsThen
<1>9. u \in World /\ InStep(u) /\ Due(u)
  BY <1>1, <1>8, DueStays DEF Follows
<1>10. PICK v \in ObserveGate(u, s) : Becomes(v)
  BY <1>6
<1>11. Follows(Now, v)
  BY <1>1, <1>3, <1>8, <1>9, <1>10, ObserveFollows, FollowsThen
<1> QED
  BY <1>1, <1>10, <1>11, FollowsGood

LEMMA TickGood ==
  ASSUME Sound(Now), NEW late \in BOOLEAN, Tick(late)
  PROVE  \E v : Becomes(v) /\ Good(Now, v)
<1>1. Now \in World /\ InStep(Now) /\ Due(Now)
  BY NowIs DEF Tick, Dispatched, Sound, Due
<1>2. PICK u \in Unsettled(Now) : \E v \in Ticked(u, late) : Becomes(v)
  BY DEF Tick
<1>3. Follows(Now, u)
  BY <1>1, <1>2, UnsettledFollows
<1>4. u \in World /\ InStep(u) /\ Due(u)
  BY <1>1, <1>3, DueStays DEF Follows
<1>5. PICK v \in Ticked(u, late) : Becomes(v)
  BY <1>2
<1>6. Follows(Now, v)
  BY <1>1, <1>3, <1>4, <1>5, TickFollows, FollowsThen
<1> QED
  BY <1>1, <1>5, <1>6, FollowsGood

LEMMA FaultedKeeps ==
  ASSUME NEW w \in World
  PROVE  /\ Faulted(w).core.active = w.core.active /\ Faulted(w).core.epoch = w.core.epoch
         /\ Faulted(w).core.availability = "faulted" /\ Faulted(w).fence = w.fence
         /\ Faulted(w).port = w.port
BY DEF Faulted, World, Core

LEMMA StopRefusedGood ==
  ASSUME Sound(Now), StopRefused
  PROVE  \E v : Becomes(v) /\ Good(Now, v) /\ answer' = "safety"
<1>1. Now \in World /\ InStep(Now)
  BY DEF Sound
<1>2. ~Due(Now) => core.active = None
  BY NowIs DEF Sound, Terminated, Due
<1>3. PICK v \in StopBarrier(Faulted(Now), FALSE) : Becomes(v) /\ answer' = "safety"
  BY DEF StopRefused
<1> DEFINE x == Faulted(Now)
<1>4. Follows(Now, x) /\ x.core.active = core.active /\ x.core.availability = "faulted"
  BY <1>1, FaultedFollows, FaultedKeeps, NowIs
<1>5. x \in World /\ InStep(x)
  BY <1>4 DEF Follows
<1> HIDE DEF x
<1>6. Follows(x, v) /\ (x.core.active = None => v.core = x.core)
  BY <1>3, <1>5, BarrierStops DEF x
<1>7. Follows(Now, v)
  BY <1>1, <1>4, <1>6, FollowsThen
<1>8. Due(Now) \/ Terminated(v)
  BY <1>2, <1>4, <1>6 DEF Terminated
<1> QED
  BY <1>3, <1>7, <1>8, FollowsGood

LEMMA StopGood ==
  ASSUME Sound(Now), NEW id \in StopId, NEW same \in BOOLEAN, Stop(id, same)
  PROVE  \E v : /\ Becomes(v) /\ Good(Now, v)
                /\ answer' = "applied" => Stopped(Now, v, TRUE)
                /\ answer' = "duplicate" => Stopped(Now, v, FALSE)
                /\ answer' \in {"applied", "duplicate", "safety"}
<1>1. Now \in World /\ InStep(Now) /\ core \in Core
  BY NowIs DEF Sound, World
<1>2. ~Due(Now) => core.active = None /\ core.availability = "faulted" /\ fence.blocked
  BY NowIs DEF Sound, Terminated, Due
<1>3. CASE StopRefused
  BY <1>3, StopRefusedGood
<1>4. CASE StopDuplicate
  <2>1. PICK v \in StopBarrier(Now, FALSE) :
          Becomes(v) /\ answer' = IF v.safe THEN "duplicate" ELSE "safety"
    BY <1>4 DEF StopDuplicate
  <2>2. /\ Follows(Now, v)
        /\ v.safe = TRUE => Stopped(Now, v, FALSE)
        /\ core.active = None => v.core = core
    BY <1>1, <2>1, NowIs, BarrierStops
  <2>3. Due(Now) \/ Terminated(v)
    BY <1>2, <2>2 DEF Terminated
  <2>4. v.safe \in BOOLEAN
    BY <2>2 DEF Follows, World
  <2> QED
    BY <2>1, <2>2, <2>3, <2>4, FollowsGood
<1>5. CASE StopFresh(id)
  <2> DEFINE x == [Now EXCEPT !.core.stops = @ \cup {id}]
             c == [core EXCEPT !.stops = core.stops \cup {id}]
  <2>1. PICK w \in StopBarrier(x, TRUE) :
          \/ w.safe /\ Becomes(Settled(w)) /\ answer' = "applied"
          \/ ~w.safe /\ Becomes(Faulted(w)) /\ answer' = "safety"
    BY <1>5 DEF StopFresh
  <2>2. /\ c \in Core /\ c.epoch = core.epoch /\ c.active = core.active
        /\ c.bound = core.bound /\ c.handled = core.handled /\ x = [Now EXCEPT !.core = c]
    BY <1>1, NowIs DEF Core
  <2> HIDE DEF c, x
  <2>3. Follows(Now, x) /\ x.core = c /\ x.fence = fence
    BY <1>1, <2>2, NowIs, CoreFollows DEF World
  <2>4. x \in World /\ InStep(x) /\ x.core.active = core.active /\ x.core.epoch = core.epoch
    BY <2>2, <2>3 DEF Follows
  <2>5. /\ Follows(x, w)
        /\ w.safe = TRUE => Stopped(x, w, TRUE)
        /\ x.core.active = None /\ ~Advanced(x) => w.core = Faulted(x).core
    BY <2>1, <2>4, BarrierStops
  <2>6. w \in World /\ InStep(w) /\ Follows(Now, w) /\ w.safe \in BOOLEAN
    BY <1>1, <2>3, <2>5, FollowsThen DEF Follows, World
  <2>7. ~Due(Now) => w.core.active = None /\ w.core.availability = "faulted"
    <3>1. ~Due(Now) => ~Advanced(x)
      BY <1>2, <2>3 DEF Advanced, CanAdvance
    <3> QED
      BY <1>2, <2>4, <2>5, <3>1, FaultedKeeps
  <2>8. CASE w.safe /\ Becomes(Settled(w)) /\ answer' = "applied"
    <3>1. /\ Follows(w, Settled(w)) /\ Settled(w).core.active = w.core.active
          /\ Settled(w).core.epoch = w.core.epoch
          /\ Settled(w).fence = w.fence /\ Settled(w).port = w.port
          /\ w.core.availability = "faulted" => Settled(w) = w
      BY <2>6, SettledFollows
    <3>2. Follows(Now, Settled(w))
      BY <1>1, <2>6, <3>1, FollowsThen
    <3>3. Due(Now) \/ Terminated(Settled(w))
      BY <2>7, <3>1 DEF Terminated
    <3>4. Stopped(Now, Settled(w), TRUE)
      BY <2>4, <2>5, <2>6, <2>8, <3>1, NowIs DEF Stopped
    <3>5. Good(Now, Settled(w))
      BY <3>2, <3>3, FollowsGood
    <3> QED
      BY <2>8, <3>4, <3>5
  <2>9. CASE ~w.safe /\ Becomes(Faulted(w)) /\ answer' = "safety"
    <3>1. /\ Follows(w, Faulted(w)) /\ Faulted(w).core.active = w.core.active
          /\ Faulted(w).core.availability = "faulted"
      BY <2>6, FaultedFollows, FaultedKeeps
    <3>2. Follows(Now, Faulted(w))
      BY <1>1, <2>6, <3>1, FollowsThen
    <3>3. Due(Now) \/ Terminated(Faulted(w))
      BY <2>7, <3>1 DEF Terminated
    <3>4. Good(Now, Faulted(w))
      BY <3>2, <3>3, FollowsGood
    <3> QED
      BY <2>9, <3>4
  <2> QED
    BY <2>1, <2>8, <2>9
<1> QED
  BY <1>3, <1>4, <1>5 DEF Stop

LEMMA ChildResultGood ==
  ASSUME Sound(Now), ChildResult
  PROVE  \E v : Becomes(v) /\ Good(Now, v)
<1>1. PICK t \in DOMAIN registry :
        /\ registry[t] \in ChildCode
        /\ LET g == [x \in DOMAIN registry \ {t} |-> registry[x]] IN
           \E v \in OnChildResult([Now EXCEPT !.registry = g], t, registry[t]) : Becomes(v)
  BY DEF ChildResult
<1> DEFINE g == [x \in DOMAIN registry \ {t} |-> registry[x]]
           w == [Now EXCEPT !.registry = g]
           code == registry[t]
           a == core.active
<1>2. PICK v \in OnChildResult(w, t, code) : Becomes(v)
  BY <1>1
<1>3. Now \in World /\ InStep(Now) /\ registry \in Registry /\ core \in Core
  BY NowIs DEF Sound, World
<1>4. g \in Registry
  BY <1>3 DEF Registry
<1>5. DOMAIN g = DOMAIN registry \ {t} /\ \A x \in DOMAIN g : g[x] = registry[x]
  OBVIOUS
<1> HIDE DEF g
<1>6. /\ w \in World /\ w.core = core /\ w.fence = fence /\ w.port = port /\ w.outcome = outcome
      /\ w.registry = g
  BY <1>3, <1>4, NowIs DEF World
<1> HIDE DEF w
<1>7. InStep(w) /\ Ahead(Now, w) /\ Single(w)
  <2>1. core.epoch \in Nat
    BY <1>3, Limits DEF Core, Epoch
  <2> QED
    BY <1>3, <1>6, <2>1, NowIs DEF Sound, InStep, Ahead, Single
<1> DEFINE x == IF code = "safety" THEN Faulted(w) ELSE w
           next == [w EXCEPT !.core.active.step = @ + 1]
<1>8. \/ a = None /\ v = w
      \/ a # None /\ TokenOf(a) # t /\ v = w
      \/ a # None /\ TokenOf(a) = t /\ code # "succeeded" /\ v \in TerminalOfChild(x, "other", FALSE)
      \/ /\ a # None /\ TokenOf(a) = t /\ code = "succeeded" /\ a.step = a.of
         /\ v \in TerminalOfChild(w, "succeeded", FALSE)
      \/ /\ a # None /\ TokenOf(a) = t /\ code = "succeeded" /\ a.step # a.of
         /\ v \in StartStep(next)
  BY <1>2, <1>6 DEF OnChildResult
<1>9. a # None => a \in Active /\ a.mission \in Mission /\ Due(Now)
  BY <1>3, NowIs DEF Core, Active, Sound, Terminated, Due
<1>10. CASE a = None /\ v = w
  <2>1. Follows(Now, v)
    BY <1>6, <1>7, <1>10, NowIs DEF Follows, Holds
  <2>2. Terminated(v)
    BY <1>6, <1>10, NowIs DEF Sound, Terminated
  <2> QED
    BY <1>2, <2>1, <2>2, FollowsGood
<1>11. CASE a # None /\ TokenOf(a) # t /\ v = w
  <2>1. Backed(v)
    BY <1>5, <1>6, <1>11, NowIs DEF Sound, Backed
  <2>2. Terminated(v)
    BY <1>6, <1>11, NowIs DEF Sound, Terminated
  <2> QED
    BY <1>2, <1>6, <1>7, <1>11, <2>1, <2>2, NowIs DEF Good, Sound, Earns, Pays, Ahead
<1>12. CASE a # None /\ TokenOf(a) = t /\ code # "succeeded" /\ v \in TerminalOfChild(x, "other", FALSE)
  <2>1. Follows(w, x) /\ x.core.active = a /\ x.outcome = outcome
    <3>1. Faulted(w).outcome = w.outcome
      BY DEF Faulted
    <3> QED
      BY <1>6, <1>7, <3>1, FollowsSelf, FaultedFollows, FaultedKeeps
  <2> HIDE DEF x
  <2>2. Ends(x, v, "other", FALSE)
    BY <1>12, <2>1, TerminalEnds DEF Follows, TerminalOfChild, Code
  <2>3. x \in World /\ v \in World /\ Ahead(w, x) /\ Ahead(x, v)
    BY <2>1, <2>2 DEF Follows, Ends
  <2>4. Ahead(w, v)
    BY <1>6, <2>3, AheadOn
  <2>5. Ahead(Now, v)
    BY <1>3, <1>6, <1>7, <2>3, <2>4, AheadOn
  <2>6. Follows(Now, v)
    BY <1>12, <2>1, <2>2, <2>5, NowIs DEF Follows, Holds, Ends
  <2> QED
    BY <1>2, <1>9, <1>12, <2>6, FollowsGood
<1>13. CASE /\ a # None /\ TokenOf(a) = t /\ code = "succeeded" /\ a.step = a.of
            /\ v \in TerminalOfChild(w, "succeeded", FALSE)
  <2>1. Ends(w, v, "succeeded", FALSE)
    BY <1>6, <1>7, <1>13, TerminalEnds DEF TerminalOfChild, Code
  <2>2. v \in World /\ InStep(v) /\ v.core.active = None /\ Ahead(Now, v)
    BY <1>3, <1>6, <1>7, <2>1, AheadOn DEF Ends
  <2>3. PICK r \in Code : v.outcome = [outcome EXCEPT ![a.mission] = r]
    BY <1>6, <2>1 DEF Ends, Code
  <2>4. outcome \in Outcomes
    BY <1>3, NowIs DEF World
  <2>5. Single(v)
    <3>1. \A m \in Mission : v.outcome[m] = IF m = a.mission THEN r ELSE outcome[m]
      BY <1>9, <1>13, <2>3, <2>4 DEF Outcomes
    <3>2. v.core.active.mission = 0 /\ 0 \notin Mission /\ r # "running"
      BY <2>2 DEF None, Mission, Code
    <3> QED
      BY <2>2, <3>1, <3>2, NowIs DEF Sound, Single
  <2>6. Backed(v) /\ Terminated(v)
    BY <1>9, <1>13, <2>2, DueStays DEF Backed, Terminated, Due
  <2>7. Earns(Now, v)
    <3>1. v.outcome = [outcome EXCEPT ![a.mission] = "other"] => v.outcome[a.mission] = "other"
      BY <1>9, <1>13, <2>4 DEF Outcomes
    <3> QED
      BY <1>6, <1>13, <2>1, <2>2, <3>1, NowIs DEF Earns, Ends
  <2> QED
    BY <1>2, <2>2, <2>5, <2>6, <2>7 DEF Good, Sound, Pays, Ahead
<1>14. CASE /\ a # None /\ TokenOf(a) = t /\ code = "succeeded" /\ a.step # a.of
            /\ v \in StartStep(next)
  <2> DEFINE k == a.step + 1
             b == [a EXCEPT !.step = k]
             c == [core EXCEPT !.active = b]
  <2>1. a.step \in Nat /\ a.of \in Nat /\ a.step <= a.of /\ a.of <= MaxSteps
    BY <1>6, <1>7, <1>9, <1>14, Limits DEF Active, Single
  <2>2. k \in 1..MaxSteps /\ k <= a.of
    BY <1>14, <2>1, Limits
  <2>3. /\ b \in Active /\ b.mission = a.mission /\ b.step = k /\ b.of = a.of
    <3> HIDE DEF k
    <3> QED
      BY <1>9, <1>14, <2>2 DEF Active
  <2>4. next = [w EXCEPT !.core = c]
    BY <1>6
  <2> HIDE DEF b
  <2>5. /\ c \in Core /\ c.active = b /\ c.epoch = core.epoch /\ c.bound = core.bound
        /\ c.handled = core.handled
    BY <1>3, <2>3 DEF Core
  <2> HIDE DEF c, next
  <2>6. /\ next \in World /\ next.core = c /\ next.fence = fence /\ next.port = port
        /\ next.outcome = outcome
    BY <1>6, <2>4, <2>5 DEF World
  <2>7. InStep(next) /\ Ahead(Now, next)
    <3>1. core.epoch \in Nat
      BY <1>3, Limits DEF Core, Epoch
    <3> QED
      BY <1>3, <2>5, <2>6, <3>1, NowIs DEF InStep, Ahead
  <2>8. Starts(next, v)
    BY <1>14, <2>3, <2>5, <2>6, <2>7, StartStepStarts, TokenType
  <2>9. v \in World /\ InStep(v) /\ Ahead(Now, v)
    BY <1>3, <2>6, <2>7, <2>8, AheadOn DEF Starts
  <2>10. Terminated(v)
    BY <1>9, <1>14, <2>9, DueStays DEF Terminated, Due
  <2>11. outcome \in Outcomes
    BY <1>3, NowIs DEF World
  <2>12. CASE v.core.active = b /\ v.outcome = outcome /\ Backed(v)
    <3>1. Single(v)
      BY <2>2, <2>3, <2>12, NowIs DEF Sound, Single
    <3>2. Earns(Now, v)
      BY <1>1, <1>14, <2>12, NowIs DEF Earns, b
    <3> QED
      BY <1>2, <2>9, <2>10, <2>12, <3>1, <3>2 DEF Good, Sound, Pays, Ahead
  <2>13. CASE v.core.active = None /\ v.outcome = [outcome EXCEPT ![a.mission] = "other"]
    <3>1. Follows(Now, v)
      BY <1>14, <2>9, <2>13, NowIs DEF Follows, Holds
    <3> QED
      BY <1>2, <2>10, <3>1, FollowsGood
  <2> QED
    BY <2>3, <2>5, <2>6, <2>8, <2>12, <2>13 DEF Starts
<1> HIDE DEF x, next, code, a
<1> QED
  BY <1>8, <1>10, <1>11, <1>12, <1>13, <1>14

LEMMA FenceCallbackGood ==
  ASSUME Sound(Now), FenceCallback
  PROVE  \E v : Becomes(v) /\ Good(Now, v)
<1> DEFINE e == IF fence.epoch > core.epoch THEN fence.epoch ELSE core.epoch
           w == [Now EXCEPT !.fence.pending = FALSE, !.core.epoch = e]
           f == [fence EXCEPT !.pending = FALSE]
           c == [core EXCEPT !.epoch = e]
<1>1. PICK u \in (IF w.core.active # None THEN TerminalOfChild(w, "other", FALSE) ELSE {w}) :
        Becomes(Faulted(u))
  BY NowIs DEF FenceCallback
<1>2. /\ Now \in World /\ InStep(Now) /\ core \in Core /\ fence \in Fence
      /\ core.epoch \in Epoch /\ fence.epoch \in Epoch /\ core.epoch \in Nat /\ fence.epoch \in Nat
      /\ core.epoch <= MaxEpoch
  BY NowIs, Limits DEF Sound, World, Core, Fence, Epoch
<1>3. e \in Epoch /\ e = fence.epoch /\ core.epoch <= e /\ e \in Nat /\ e <= MaxEpoch
  BY <1>2, NowIs, Limits DEF InStep, Epoch
<1>4. w = [Now EXCEPT !.fence = f, !.core = c]
  BY NowIs
<1> HIDE DEF e
<1>5. /\ c \in Core /\ c.epoch = e /\ c.active = core.active /\ c.bound = core.bound
      /\ c.handled = core.handled
      /\ f \in Fence /\ f.epoch = e /\ f.pending = FALSE
  BY <1>2, <1>3 DEF Core, Fence
<1> HIDE DEF c, f, w
<1>6. /\ w \in World /\ w.core = c /\ w.fence = f /\ w.port = port /\ w.registry = registry
      /\ w.outcome = outcome
  BY <1>2, <1>4, <1>5, NowIs DEF World
<1>7. InStep(w) /\ Single(w) /\ Backed(w)
  BY <1>5, <1>6, NowIs DEF InStep, Sound, Single, Backed
<1>8. Follows(w, u) /\ u.core.active = None
  <2>1. CASE w.core.active # None
    <3>1. Ends(w, u, "other", FALSE)
      BY <1>1, <1>6, <1>7, <2>1, TerminalEnds DEF TerminalOfChild, Code
    <3> QED
      BY <1>1, <1>6, <1>7, <2>1, <3>1, EndsFollows DEF TerminalOfChild, Ends
  <2>2. CASE w.core.active = None
    BY <1>1, <1>6, <1>7, <2>2, FollowsSelf
  <2> QED
    BY <2>1, <2>2
<1> DEFINE v == Faulted(u)
<1>9. Follows(u, v) /\ v.core.active = None /\ v.core.availability = "faulted"
  BY <1>8, FaultedFollows, FaultedKeeps DEF Follows
<1> HIDE DEF v
<1>10. Follows(w, v) /\ Terminated(v)
  BY <1>6, <1>8, <1>9, FollowsThen DEF Terminated
<1>11. Good(w, v)
  BY <1>6, <1>7, <1>10, FollowsKeeps
<1>12. Earns(Now, v)
  BY <1>5, <1>6, <1>11, NowIs DEF Good, Earns
<1>13. Pays(Now, v)
  <2>1. Costs(w, v) => Costs(Now, v)
    <3>1. v.core.epoch \in Nat /\ w.core.epoch <= v.core.epoch
      BY <1>10, Limits DEF Follows, Ahead, World, Core, Epoch
    <3> QED
      BY <1>2, <1>3, <1>5, <1>6, <3>1, NowIs, Limits DEF Costs
  <2> QED
    BY <1>5, <1>6, <1>11, <2>1, NowIs DEF Good, Pays
<1> QED
  BY <1>1, <1>11, <1>12, <1>13 DEF Good, v

-----------------------------------------------------------------------------
(***************************************************************************)
(* What the worker does not do.                                            *)
(***************************************************************************)
LEMMA RaiseFenceGood ==
  ASSUME Sound(Now), RaiseFence
  PROVE  \E v : Becomes(v) /\ Good(Now, v)
<1> DEFINE v == [Now EXCEPT !.fence = Raised(fence)]
<1>1. Now \in World /\ InStep(Now) /\ Due(Now)
  BY NowIs DEF RaiseFence, Sound, Due
<1>2. Follows(Now, v)
  BY <1>1, NowIs, RaisedFollows
<1>3. Becomes(v)
  BY NowIs DEF RaiseFence, Becomes, Now
<1> QED
  BY <1>2, <1>3, <1>1, FollowsGood

\* The Adapter moves on its own: it keeps its fault, and the answer of a child
\* that it ends.
LEMMA PortGood ==
  ASSUME Sound(Now), NEW p \in Port, NEW g \in Registry, port.sticky => p.sticky,
         LET t == TokenOf(core.active) IN
         core.active # None => t \in DOMAIN g /\ (p.active = t \/ g[t] # "open")
  PROVE  Good(Now, [Now EXCEPT !.port = p, !.registry = g])
<1> DEFINE v == [Now EXCEPT !.port = p, !.registry = g]
<1>1. /\ v \in World /\ v.core = core /\ v.fence = fence /\ v.port = p /\ v.registry = g
      /\ v.outcome = outcome
  BY NowIs DEF Sound, World
<1> HIDE DEF v
<1>2. InStep(v) /\ Single(v) /\ Terminated(v)
  BY <1>1, NowIs DEF Sound, InStep, Single, Terminated
<1>3. Backed(v)
  BY <1>1 DEF Backed
<1>4. Earns(Now, v) /\ Pays(Now, v)
  BY <1>1, NowIs DEF Earns, Pays
<1> QED
  BY <1>1, <1>2, <1>3, <1>4 DEF Good, Sound, v

LEMMA PortBecomes ==
  ASSUME UNCHANGED <<core, fence, auth, samples, outcome>>
  PROVE  Becomes([Now EXCEPT !.port = port', !.registry = registry'])
BY NowIs DEF Becomes, Now

\* The child that is torn down leaves its answer.
LEMMA AnsweredGood ==
  ASSUME Sound(Now), NEW p \in {TornSafely(port)} \cup TornBadly(port), NEW code \in Entry \ {"open"},
         port.active # None
  PROVE  Good(Now, [Now EXCEPT !.port = p, !.registry = Recorded(registry, port.active, code)])
<1>1. port \in Port /\ registry \in Registry
  BY NowIs DEF Sound, World
<1>2. p \in Port /\ (port.sticky => p.sticky)
  BY <1>1, TornType
<1> DEFINE g == Recorded(registry, port.active, code)
<1>3. /\ g \in Registry /\ DOMAIN g = DOMAIN registry
      /\ \A u \in DOMAIN registry : g[u] = IF u = port.active THEN code ELSE registry[u]
  BY <1>1, RecordedType
<1> HIDE DEF g
<1>4. core.active # None =>
        /\ TokenOf(core.active) \in DOMAIN g
        /\ (p.active = TokenOf(core.active) \/ g[TokenOf(core.active)] # "open")
  BY <1>3, NowIs DEF Sound, Backed
<1> QED
  BY <1>2, <1>3, <1>4, PortGood DEF g

\* It is torn down with nobody to answer, or it is not there.
LEMMA SilentGood ==
  ASSUME Sound(Now), NEW p \in Port, port.sticky => p.sticky,
         core.active = None \/ (port.active = None \/ p.active = port.active)
  PROVE  Good(Now, [Now EXCEPT !.port = p, !.registry = registry])
<1>1. registry \in Registry /\ (core.active # None => core.active \in Active)
  BY NowIs DEF Sound, World, Core
<1>2. core.active # None =>
        /\ TokenOf(core.active) \in DOMAIN registry
        /\ (p.active = TokenOf(core.active) \/ registry[TokenOf(core.active)] # "open")
  BY <1>1, NowIs, TokenType DEF Sound, Backed
<1> QED
  BY <1>1, <1>2, PortGood

LEMMA AdapterGood ==
  ASSUME Sound(Now), EmergencyStop \/ ChildEnds \/ IdleTeardownEnds \/ Startup \/ DependenciesChange
  PROVE  \E v : Becomes(v) /\ Good(Now, v)
<1> DEFINE v == [Now EXCEPT !.port = port', !.registry = registry']
<1>1. Becomes(v)
  BY PortBecomes DEF EmergencyStop, ChildEnds, IdleTeardownEnds, Startup, DependenciesChange
<1> SUFFICES Good(Now, v)
  BY <1>1
<1>2. port \in Port
  BY NowIs DEF Sound, World
<1>3. \A q \in {TornSafely(port)} \cup TornBadly(port) :
        q \in Port /\ q.active = None /\ (port.sticky => q.sticky)
  BY <1>2, TornType
<1>4. CASE EmergencyStop
  BY <1>4, AnsweredGood DEF EmergencyStop, Entry
<1>5. CASE ChildEnds
  <2>1. CASE \E code \in {"succeeded", "failed"} :
               port' = TornSafely(port) /\ registry' = Recorded(registry, port.active, code)
    BY <1>5, <2>1, AnsweredGood DEF ChildEnds, Entry, ChildCode
  <2>2. CASE \E q \in TornBadly(port) :
               port' = q /\ registry' = Recorded(registry, port.active, "safety")
    BY <1>5, <2>2, AnsweredGood DEF ChildEnds, Entry, ChildCode
  <2>3. CASE /\ core.active = None /\ port' \in {TornSafely(port)} \cup TornBadly(port)
             /\ UNCHANGED registry
    BY <1>3, <2>3, SilentGood
  <2> QED
    BY <1>5, <2>1, <2>2, <2>3 DEF ChildEnds
<1>6. CASE IdleTeardownEnds
  BY <1>3, <1>6, SilentGood DEF IdleTeardownEnds
<1>7. CASE Startup
  <2>1. PICK safe \in BOOLEAN :
          port' \in {[port EXCEPT !.started = TRUE, !.safe = safe],
                     [port EXCEPT !.sticky = TRUE, !.safe = safe]}
    BY <1>7 DEF Startup
  <2>2. ~port.sticky
    BY <1>7 DEF Startup
  <2>3. port' \in Port /\ port'.active = port.active
    BY <1>2, <2>1 DEF Port
  <2> QED
    BY <1>7, <2>2, <2>3, SilentGood DEF Startup
<1>8. CASE DependenciesChange
  <2>1. port' \in Port /\ port'.active = port.active /\ port'.sticky = port.sticky
    <3> DEFINE b == ~port.fresh
    <3>1. b \in BOOLEAN /\ port' = [port EXCEPT !.fresh = b]
      BY <1>8 DEF DependenciesChange
    <3> HIDE DEF b
    <3> QED
      BY <1>2, <3>1 DEF Port
  <2> QED
    BY <1>8, <2>1, SilentGood DEF DependenciesChange
<1> QED
  BY <1>4, <1>5, <1>6, <1>7, <1>8

LEMMA GateMovesGood ==
  ASSUME Sound(Now), GateMoves
  PROVE  \E v : Becomes(v) /\ Good(Now, v)
<1>1. Now \in World /\ InStep(Now) /\ auth \in Snapshot
  BY NowIs DEF Sound, World
<1>2. PICK s \in Snapshot : Becomes(Watermark(Now, s))
  <2>1. PICK k \in Shown :
          \/ /\ auth.gate # NoGate /\ auth.seq < MaxSeq
             /\ Becomes(Watermark(Now, [auth EXCEPT !.seq = @ + 1, !.kind = k]))
          \/ Becomes(Watermark(Now, [auth EXCEPT !.kind = k]))
          \/ /\ auth.gate < MaxGate
             /\ \E n \in 0..MaxSeq :
                  Becomes(Watermark(Now, [gate |-> auth.gate + 1, seq |-> n, kind |-> k]))
    BY DEF GateMoves
  <2>2. k \in Kind
    BY ShownAssumption
  <2>3. auth.seq < MaxSeq => [auth EXCEPT !.seq = @ + 1, !.kind = k] \in Snapshot
    <3> DEFINE n == auth.seq + 1
    <3>1. auth.seq < MaxSeq => n \in 0..MaxSeq
      BY <1>1, Limits DEF Snapshot
    <3> HIDE DEF n
    <3>2. auth.seq < MaxSeq => [auth EXCEPT !.seq = n, !.kind = k] \in Snapshot
      BY <1>1, <2>2, <3>1 DEF Snapshot
    <3> QED
      BY <3>2 DEF n
  <2>4. [auth EXCEPT !.kind = k] \in Snapshot
    BY <1>1, <2>2 DEF Snapshot
  <2>5. ASSUME auth.gate < MaxGate, NEW n \in 0..MaxSeq
        PROVE  [gate |-> auth.gate + 1, seq |-> n, kind |-> k] \in Snapshot
    <3>1. auth.gate + 1 \in 0..MaxGate
      BY <1>1, <2>5, Limits DEF Snapshot
    <3> QED
      BY <2>2, <3>1 DEF Snapshot
  <2> QED
    BY <2>1, <2>3, <2>4, <2>5
<1> DEFINE v == Watermark(Now, s)
<1>3. Follows(Now, v)
  BY <1>1, WatermarkFollows
<1>4. v.core = core
  BY NowIs DEF Watermark, Sampled, Now
<1>5. Due(Now) \/ Terminated(v)
  BY <1>4, NowIs DEF Sound, Terminated, Due
<1> QED
  BY <1>2, <1>3, <1>5, FollowsGood

-----------------------------------------------------------------------------
(***************************************************************************)
(* The invariant, and the theorems.                                        *)
(***************************************************************************)
Answers == {"none", "applied", "duplicate", "safety"}

IInv == Sound(Now) /\ answer \in Answers

\* What the client of a STOP was told is true.
Told(v) ==
  /\ answer' = "applied" => Stopped(Now, v, TRUE)
  /\ answer' = "duplicate" => Stopped(Now, v, FALSE)
  /\ answer' \in Answers

LEMMA NextGood ==
  ASSUME Sound(Now), Next
  PROVE  \E v : Becomes(v) /\ Good(Now, v) /\ Told(v)
<1> DEFINE goal == \E v : Becomes(v) /\ Good(Now, v) /\ Told(v)
<1>1. ASSUME NoAnswer, \E v : Becomes(v) /\ Good(Now, v)
      PROVE  goal
  BY <1>1 DEF NoAnswer, Told, Answers
<1> SUFFICES goal
  OBVIOUS
<1> HIDE DEF goal
<1>2. ASSUME NEW n \in 1..MaxSteps, NEW save \in BOOLEAN, Admit(n, save)
      PROVE  goal
  BY <1>1, <1>2, AdmitGood DEF Admit
<1>3. CASE AdmitRefused
  BY <1>1, <1>3, AdmitRefusedGood DEF AdmitRefused
<1>4. CASE Cancel
  BY <1>1, <1>4, CancelGood DEF Cancel
<1>5. ASSUME NEW id \in StopId, NEW same \in BOOLEAN, Stop(id, same)
      PROVE  goal
  BY <1>5, StopGood DEF Told, Answers, goal
<1>6. CASE StopRefused
  BY <1>6, StopRefusedGood DEF Told, Answers, goal
<1>7. CASE GateSampled
  BY <1>1, <1>7, GateSampledGood DEF GateSampled
<1>8. ASSUME NEW late \in BOOLEAN, Tick(late)
      PROVE  goal
  BY <1>1, <1>8, TickGood DEF Tick
<1>9. CASE ChildResult
  BY <1>1, <1>9, ChildResultGood DEF ChildResult
<1>10. CASE FenceCallback
  BY <1>1, <1>10, FenceCallbackGood DEF FenceCallback
<1>11. CASE RaiseFence
  BY <1>1, <1>11, RaiseFenceGood DEF RaiseFence
<1>12. CASE EmergencyStop \/ ChildEnds \/ IdleTeardownEnds \/ Startup \/ DependenciesChange
  BY <1>1, <1>12, AdapterGood DEF EmergencyStop, ChildEnds, IdleTeardownEnds, Startup, DependenciesChange
<1>13. CASE GateMoves
  BY <1>1, <1>13, GateMovesGood DEF GateMoves
<1>14. 1 \in 1..MaxSteps
  BY Limits
<1> QED
  BY <1>2, <1>3, <1>4, <1>5, <1>6, <1>7, <1>8, <1>9, <1>10, <1>11, <1>12, <1>13, <1>14
     DEF Next, Handler, Environment

LEMMA NextSound ==
  ASSUME IInv, NEW v, Becomes(v), Good(Now, v), Told(v)
  PROVE  IInv'
<1>1. /\ Now' \in World
      /\ Now'.core = v.core /\ Now'.fence = v.fence /\ Now'.port = v.port
      /\ Now'.registry = v.registry /\ Now'.outcome = v.outcome
  BY DEF Becomes, Good, Sound, World, Now
<1>2. InStep(Now') /\ Single(Now') /\ Backed(Now') /\ Terminated(Now')
  BY <1>1 DEF Good, Sound, InStep, Single, Backed, Terminated
<1>3. Sound(Now')
  BY <1>1, <1>2 DEF Sound
<1> QED
  BY <1>3 DEF IInv, Told

LEMMA InitSound == Init => IInv
<1> SUFFICES ASSUME Init PROVE IInv
  OBVIOUS
<1>1. /\ core = [availability |-> "unavailable", epoch |-> 1, active |-> None, next |-> 1,
                 gate |-> NoSnapshot, bound |-> FALSE, handled |-> FALSE,
                 lost |-> NoLoss, pending |-> FALSE, healthy |-> FALSE,
                 timedOut |-> FALSE, stops |-> {}]
      /\ fence = [epoch |-> 1, blocked |-> FALSE, pending |-> FALSE]
      /\ port = [active |-> None, started |-> FALSE, safe |-> FALSE,
                 sticky |-> FALSE, rearm |-> FALSE, fresh |-> FALSE]
      /\ registry = <<>> /\ auth = NoSnapshot /\ samples = {NoSnapshot}
      /\ outcome = [m \in Mission |-> "none"] /\ answer = "none"
  BY DEF Init
<1>2. NoSnapshot \in Snapshot /\ NoLoss \in (0..MaxGate) \X (0..MaxSeq) /\ 1 \in Epoch
      /\ 1 \in 1..(MaxMission + 1)
  BY Limits DEF NoSnapshot, Snapshot, NoGate, Kind, NoLoss, Epoch
<1>3. core \in Core
  BY <1>1, <1>2 DEF Core, Availability
<1>4. fence \in Fence /\ port \in Port
  BY <1>1, <1>2 DEF Fence, Port
<1>5. registry \in Registry
  <2>1. <<>> \in [{} -> Entry]
    OBVIOUS
  <2>2. {} \in SUBSET Token
    OBVIOUS
  <2> QED
    BY <1>1, <2>1, <2>2 DEF Registry
<1>6. outcome \in Outcomes
  BY <1>1 DEF Outcomes
<1>7. Now \in World
  BY <1>1, <1>2, <1>3, <1>4, <1>5, <1>6 DEF Now, World
<1>8. InStep(Now) /\ Terminated(Now) /\ Backed(Now)
  BY <1>1, NowIs DEF InStep, Terminated, Backed
<1>9. Single(Now)
  BY <1>1, NowIs DEF Single, None, Mission
<1> QED
  BY <1>1, <1>7, <1>8, <1>9 DEF IInv, Sound, Answers

LEMMA Inductive == Spec => []IInv
<1>1. IInv /\ [Next]_rvars => IInv'
  <2>1. IInv /\ Next => IInv'
    <3> SUFFICES ASSUME IInv, Next PROVE IInv'
      OBVIOUS
    <3>1. PICK v : Becomes(v) /\ Good(Now, v) /\ Told(v)
      BY NextGood DEF IInv
    <3> QED
      BY <3>1, NextSound
  <2>2. IInv /\ UNCHANGED rvars => IInv'
    BY DEF IInv, rvars, Now
  <2> QED
    BY <2>1, <2>2
<1> QED
  BY <1>1, InitSound, PTL DEF Spec

\* The state keeps its types: the handlers leave nothing of the core, the
\* fence, the Adapter or the registry out of its range (every handler).
THEOREM TypeCorrect == Spec => []TypeOK
<1>1. IInv => TypeOK
  BY NowIs DEF IInv, Sound, World, TypeOK, Registry, Outcomes, Answers
<1> QED
  BY <1>1, Inductive, PTL

\* Core and fence admit one epoch, but for a raised fence whose callback is due
\* (commit_next_epoch, raise, fail_closed_at_epoch).
THEOREM EpochsInStep == Spec => []FenceInStep
<1>1. IInv => FenceInStep
  BY NowIs DEF IInv, Sound, InStep, FenceInStep
<1> QED
  BY <1>1, Inductive, PTL

\* Behind a fence whose callback has run there is no Mission and nothing but
\* FAULTED (fail_closed_at_epoch, enqueue, run).
THEOREM TerminalBehindFence == Spec => []BlockedIsTerminal
<1>1. IInv => BlockedIsTerminal
  BY NowIs DEF IInv, Sound, Terminated, BlockedIsTerminal
<1> QED
  BY <1>1, Inductive, PTL

\* The Mission in the slot has a child that runs or an answer on its way
\* (start, relay, on_child_result).
THEOREM AlwaysBacked == Spec => []MissionIsBacked
<1>1. IInv => MissionIsBacked
  BY NowIs DEF IInv, Sound, Backed, MissionIsBacked
<1> QED
  BY <1>1, Inductive, PTL

\* The Mission without a result is the one in the slot (finish_active, admit).
THEOREM SlotIsTheMission == Spec => []OneRunning
<1>1. IInv => OneRunning
  BY NowIs DEF IInv, Sound, Single, OneRunning
<1> QED
  BY <1>1, Inductive, PTL

\* STOP reports success only with the Mission ended, no child, a proven zero
\* and, the first time, a new epoch (stop, select_terminal_and_stop, cancel).
THEOREM StopIsTrue == Spec => StopMeansStopped
<1> DEFINE A == answer' \in {"applied", "duplicate"} =>
                  /\ core'.active = None /\ port'.active = None /\ port'.safe
                  /\ answer' = "applied" =>
                       core'.epoch = core.epoch + 1 /\ fence'.epoch = core'.epoch
<1>1. IInv /\ [Next]_rvars => [A]_rvars
  <2> SUFFICES ASSUME IInv, Next PROVE A
    OBVIOUS
  <2>1. PICK v : Becomes(v) /\ Good(Now, v) /\ Told(v)
    BY NextGood DEF IInv
  <2> QED
    BY <2>1, NowIs DEF Becomes, Told, Stopped
<1> QED
  BY <1>1, Inductive, PTL DEF Spec, StopMeansStopped

\* A Mission moves on, or succeeds, by the success of the child of its step and
\* by nothing else (on_child_result, select_terminal_and_stop).
THEOREM EveryStepEarned == Spec => StepsAreEarned
<1> DEFINE A == LET a == core.active
                    t == TokenOf(a)
                IN  \/ a = None
                    \/ core'.active = a
                    \/ core'.active = None /\ outcome'[a.mission] = "other"
                    \/ /\ t \in DOMAIN registry /\ registry[t] = "succeeded"
                       /\ \/ core'.active = [a EXCEPT !.step = @ + 1]
                          \/ /\ core'.active = None /\ a.step = a.of
                             /\ port'.active = None /\ port'.safe
<1>1. IInv /\ [Next]_rvars => [A]_rvars
  <2> SUFFICES ASSUME IInv, Next PROVE A
    OBVIOUS
  <2>1. PICK v : Becomes(v) /\ Good(Now, v)
    BY NextGood DEF IInv
  <2>2. Earns(Now, v)
    BY <2>1 DEF Good
  <2> QED
    BY <2>1, <2>2, NowIs DEF Becomes, Earns
<1> QED
  BY <1>1, Inductive, PTL DEF Spec, StepsAreEarned

\* A bound Gate that fails or is replaced costs the epoch (observe_gate).
THEOREM LossMovesTheEpoch == Spec => EpochFollowsLoss
<1> DEFINE A == core.bound /\ ~core.handled /\ core'.handled =>
                  \/ core'.epoch > core.epoch \/ fence'.pending \/ core.epoch = MaxEpoch
<1>1. IInv /\ [Next]_rvars => [A]_rvars
  <2> SUFFICES ASSUME IInv, Next PROVE A
    OBVIOUS
  <2>1. PICK v : Becomes(v) /\ Good(Now, v)
    BY NextGood DEF IInv
  <2> QED
    BY <2>1, NowIs DEF Becomes, Good, Pays, Costs
<1> QED
  BY <1>1, Inductive, PTL DEF Spec, EpochFollowsLoss

\* The safety fault of the Adapter is cleared for a new epoch only
\* (try_rearm_pending_gate_replacement, rearm_after_gate_replacement).
THEOREM RearmMovesTheEpoch == Spec => RearmCostsAnEpoch
<1> DEFINE A == port.sticky /\ ~port'.sticky =>
                  \/ core'.epoch > core.epoch \/ fence'.pending \/ core.epoch = MaxEpoch
<1>1. IInv /\ [Next]_rvars => [A]_rvars
  <2> SUFFICES ASSUME IInv, Next PROVE A
    OBVIOUS
  <2>1. PICK v : Becomes(v) /\ Good(Now, v)
    BY NextGood DEF IInv
  <2> QED
    BY <2>1, NowIs DEF Becomes, Good, Pays, Costs
<1> QED
  BY <1>1, Inductive, PTL DEF Spec, RearmCostsAnEpoch

=============================================================================
