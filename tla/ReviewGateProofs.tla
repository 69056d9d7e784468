-------------------------- MODULE ReviewGateProofs --------------------------
(***************************************************************************)
(* What the review gate vouches for, for every set of commits and          *)
(* branches and any number of pushes, new bases, reviews and runs.         *)
(* Reviews of Codex and CodeRabbit do not say which base they read.  What  *)
(* the gate knows of them is in SameBase: a head that was pushed after the *)
(* last change of base has been reviewed against one base only.            *)
(***************************************************************************)
EXTENDS ReviewGate, TLAPS

Later(t, r) == r # None => t > r

\* What is known of the pull request and its reviews.
TimesOK ==
    /\ \A h \in Heads : firstPush[h] # None => firstPush[h] \in Nat /\ firstPush[h] <= time
    /\ rebasedAt # None => rebasedAt \in Nat /\ rebasedAt <= time

SameBase ==
    \A p \in had : /\ firstPush[p[1]] # None
                   /\ Later(firstPush[p[1]], rebasedAt) => p[2] = pull.base

Backed == \A r \in reports : /\ <<r.head, r.base>> \in had
                             /\ r.clean => <<r.head, r.base>> \in cleared
                             /\ r.clean /\ r.who = "security" => <<r.head, r.base>> \in secured

Places == <<pull.head, pull.base>> \in had /\ TimesOK /\ SameBase /\ Backed

\* What a run under way has read.
Asked == {"Claude", "Codex", "CodeRabbit", "files", "post"}

Pinned ==
    gate.at \in Asked \cup {"rebased"} =>
       /\ gate.head \in Heads
       /\ firstPush[gate.head] # None
       /\ gate.base \in gate.bases
       /\ pull.base \in gate.bases

KnowsBases ==
    gate.at \in Asked =>
       \A b \in Branches :
          <<gate.head, b>> \in had /\ Later(firstPush[gate.head], gate.rebased)
             => b \in gate.bases

PassesHold ==
    gate.passes # {} => /\ gate.at \in Asked
                        /\ \E b \in gate.bases : <<gate.head, b>> \in cleared

Grants ==
    /\ gate.exempt => gate.at = "post" /\ Changes[gate.head] = "exempt"
    /\ gate.at \in {"arm", "status", "merge"} => gate.head \in granted

\* A clean security review is of a base the run knows; the head's own files, when
\* they are listed, tell that it is risky.
Secures ==
    /\ gate.secure => /\ gate.at \in Asked
                      /\ \E b \in gate.bases : <<gate.head, b>> \in secured
    /\ gate.at = "post" /\ gate.listed = gate.head /\ Changes[gate.head] = "risky"
         => gate.risky

GateOK == Pinned /\ KnowsBases /\ PassesHold /\ Grants /\ Secures

\* What a run passes needs no review or has passed one.
ArmedOK ==
    /\ armed # None => armed \in granted
    /\ \A h \in granted : Changes[h] = "exempt" \/ \E b \in Branches : <<h, b>> \in cleared

RInv == ReviewTypeOK /\ Places /\ GateOK /\ PassIsEarned /\ RiskyIsSecured /\ ArmedOK

LEMMA NoGateOK ==
    /\ NoGate \in Gate
    /\ NoGate.at = "idle" /\ NoGate.passes = {} /\ ~NoGate.exempt /\ ~NoGate.secure
BY HeadsAssumption DEF NoGate, Gate, Maybe

LEMMA ReviewBegins == ASSUME NEW base \in Branches, ReviewInit(base) PROVE RInv
<1>0. 0 \in Nat /\ 0 # None
  BY AbsentHeadAssumption
<1>1. ReviewTypeOK
  BY <1>0, NoGateOK, HeadsAssumption DEF ReviewInit, ReviewTypeOK, Maybe
<1>2. Places
  <2>1. <<pull.head, pull.base>> \in had /\ Backed
    BY DEF ReviewInit, Backed
  <2>2. TimesOK
    BY <1>0 DEF ReviewInit, TimesOK
  <2>3. SameBase
    BY <1>0, HeadsAssumption DEF ReviewInit, SameBase
  <2> QED
    BY <2>1, <2>2, <2>3 DEF Places
<1>3. GateOK
  BY NoGateOK DEF ReviewInit, GateOK, Pinned, KnowsBases, PassesHold, Grants, Secures, Asked
<1> QED
  BY <1>1, <1>2, <1>3 DEF RInv, ReviewInit, PassIsEarned, RiskyIsSecured, ArmedOK

LEMMA ReviewRests == ASSUME RInv, UNCHANGED review PROVE RInv'
BY DEF RInv, review, ReviewTypeOK, Places, TimesOK, SameBase, Backed, GateOK, Pinned,
       KnowsBases, PassesHold, Grants, Secures, PassIsEarned, RiskyIsSecured, ArmedOK, Later, Asked

-----------------------------------------------------------------------------
(***************************************************************************)
(* GitHub and the reviewers.                                               *)
(***************************************************************************)

LEMMA Ticks == ASSUME RInv, Tick PROVE RInv'
<1>1. time' = time + 1 /\ time \in Nat /\ time' \in Nat
  BY DEF RInv, ReviewTypeOK, Tick
<1>2. ReviewTypeOK'
  BY <1>1 DEF RInv, ReviewTypeOK, Tick
<1>3. TimesOK'
  BY <1>1 DEF RInv, Places, TimesOK, Tick
<1>4. Places'
  BY <1>3 DEF RInv, Places, SameBase, Backed, Later, Tick
<1>5. GateOK'
  BY DEF RInv, GateOK, Pinned, KnowsBases, PassesHold, Grants, Secures, Later, Asked, Tick
<1> QED
  BY <1>2, <1>4, <1>5 DEF RInv, PassIsEarned, RiskyIsSecured, ArmedOK, Tick

\* What a push and a new base have in common: the run keeps up with the bases.
LEMMA MovedRun ==
    ASSUME RInv, NEW h \in Heads, NEW b \in Branches, Moved(h, b)
    PROVE  /\ gate' \in Gate
           /\ gate'.at = gate.at /\ gate'.head = gate.head /\ gate'.base = gate.base
           /\ gate'.rebased = gate.rebased /\ gate'.passes = gate.passes
           /\ gate'.exempt = gate.exempt /\ gate'.secure = gate.secure
           /\ gate'.risky = gate.risky /\ gate'.listed = gate.listed
           /\ gate.bases \subseteq gate'.bases
           /\ gate.at \in Asked \cup {"rebased"} => b \in gate'.bases
<1> DEFINE bases == gate.bases \cup {b}
<1>1. bases \in SUBSET Branches /\ gate \in Gate
  BY DEF RInv, ReviewTypeOK, Gate
<1>2. gate' = gate \/ gate' = [gate EXCEPT !.bases = bases]
  BY DEF Moved
<1>3. gate.at \in Asked \cup {"rebased"} => gate' = [gate EXCEPT !.bases = bases]
  BY DEF Moved, Asked
<1>4. b \in bases /\ gate.bases \subseteq bases
  OBVIOUS
<1> HIDE DEF bases
<1>5. CASE gate' = gate
  BY <1>1, <1>3, <1>4, <1>5 DEF Gate
<1>6. CASE gate' = [gate EXCEPT !.bases = bases]
  BY <1>1, <1>4, <1>6 DEF Gate
<1> QED
  BY <1>2, <1>5, <1>6

LEMMA MovedOK ==
    ASSUME RInv, NEW h \in Heads, NEW b \in Branches, Moved(h, b),
           TimesOK', SameBase',
           rebasedAt' \in Maybe(Nat), firstPush' \in [Heads -> Maybe(Nat)],
           \A k \in Heads : firstPush[k] # None => firstPush'[k] = firstPush[k],
           h = pull.head \/ b = pull.base
    PROVE  RInv'
<1>0. /\ had' = had \cup {<<h, b>>} /\ pull' = [head |-> h, base |-> b]
      /\ events' = events + 1
      /\ UNCHANGED <<time, reports, cleared, secured, standing, granted, armed>>
  BY DEF Moved, Happens
<1>1. ReviewTypeOK'
  BY <1>0, MovedRun DEF RInv, ReviewTypeOK
<1>2. Places'
  BY <1>0 DEF RInv, Places, Backed
<1>3. Pinned'
  BY <1>0, MovedRun DEF RInv, GateOK, Pinned
<1>4. KnowsBases'
  <2> SUFFICES ASSUME gate'.at \in Asked, NEW c \in Branches,
                      <<gate'.head, c>> \in had', Later(firstPush'[gate'.head], gate'.rebased)
               PROVE  c \in gate'.bases
    BY DEF KnowsBases
  <2>1. /\ gate.at \in Asked /\ gate.head \in Heads /\ firstPush[gate.head] # None
        /\ gate'.head = gate.head /\ gate'.rebased = gate.rebased
    BY MovedRun DEF RInv, GateOK, Pinned
  <2>2. Later(firstPush[gate.head], gate.rebased)
    BY <2>1 DEF Later
  <2>3. CASE <<gate.head, c>> \in had
    BY <2>1, <2>2, <2>3, MovedRun DEF RInv, GateOK, KnowsBases
  <2>4. CASE c = b
    BY <2>1, <2>4, MovedRun
  <2> QED
    BY <1>0, <2>1, <2>3, <2>4
<1>5. PassesHold' /\ Grants' /\ Secures'
  BY <1>0, MovedRun DEF RInv, GateOK, PassesHold, Grants, Secures
<1> QED
  BY <1>0, <1>1, <1>2, <1>3, <1>4, <1>5 DEF RInv, GateOK, PassIsEarned, RiskyIsSecured, ArmedOK

LEMMA Pushes == ASSUME RInv, NEW h \in Heads, Push(h) PROVE RInv'
<1>0. /\ Moved(h, pull.base) /\ UNCHANGED <<rebasedAt, time>>
      /\ pull.base \in Branches /\ time \in Nat /\ time # None
      /\ had' = had \cup {<<h, pull.base>>} /\ pull'.base = pull.base
      /\ firstPush \in [Heads -> Maybe(Nat)]
  BY AbsentHeadAssumption DEF Push, Moved, RInv, ReviewTypeOK
<1>1. /\ firstPush' \in [Heads -> Maybe(Nat)]
      /\ \A k \in Heads : firstPush[k] # None => firstPush'[k] = firstPush[k]
      /\ firstPush'[h] # None
  BY <1>0 DEF Push, Maybe
<1>2. TimesOK'
  <2>1. \A k \in Heads : firstPush'[k] = firstPush[k] \/ firstPush'[k] = time
    BY <1>0 DEF Push
  <2> QED
    BY <1>0, <2>1 DEF RInv, Places, TimesOK
<1>3. SameBase'
  <2> SUFFICES ASSUME NEW p \in had'
               PROVE  /\ firstPush'[p[1]] # None
                      /\ Later(firstPush'[p[1]], rebasedAt') => p[2] = pull'.base
    BY DEF SameBase
  <2>1. CASE p \in had
    <3>1. p[1] \in Heads /\ firstPush[p[1]] # None
      BY <2>1 DEF RInv, ReviewTypeOK, Places, SameBase
    <3> QED
      BY <1>0, <1>1, <2>1, <3>1 DEF RInv, Places, SameBase, Later
  <2>2. CASE p = <<h, pull.base>>
    BY <1>0, <1>1, <2>2
  <2> QED
    BY <1>0, <2>1, <2>2
<1> QED
  BY <1>0, <1>1, <1>2, <1>3, MovedOK DEF RInv, ReviewTypeOK

LEMMA Retargets == ASSUME RInv, NEW b \in Branches, Retarget(b) PROVE RInv'
<1>0. /\ Moved(pull.head, b) /\ UNCHANGED <<firstPush, time>> /\ rebasedAt' = time
      /\ pull.head \in Heads /\ time \in Nat /\ time # None
      /\ had' = had \cup {<<pull.head, b>>}
      /\ firstPush \in [Heads -> Maybe(Nat)]
  BY AbsentHeadAssumption DEF Retarget, Moved, RInv, ReviewTypeOK
<1>1. TimesOK'
  BY <1>0 DEF RInv, Places, TimesOK
<1>2. SameBase'
  <2> SUFFICES ASSUME NEW p \in had'
               PROVE  firstPush[p[1]] # None /\ ~Later(firstPush[p[1]], time)
    BY <1>0 DEF SameBase
  <2>1. p[1] \in Heads /\ firstPush[p[1]] # None
    <3>1. CASE p \in had
      BY <3>1 DEF RInv, ReviewTypeOK, Places, SameBase
    <3>2. CASE p = <<pull.head, b>>
      BY <1>0, <3>2 DEF RInv, Places, SameBase
    <3> QED
      BY <1>0, <3>1, <3>2
  <2>2. firstPush[p[1]] \in Nat /\ firstPush[p[1]] <= time
    BY <2>1 DEF RInv, Places, TimesOK
  <2> QED
    BY <1>0, <2>1, <2>2 DEF Later
<1> QED
  BY <1>0, <1>1, <1>2, MovedOK DEF RInv, ReviewTypeOK, Maybe

\* The reviews change, and what was passed stays passed.
LEMMA ReviewsChange ==
    ASSUME RInv, Happens, cleared \subseteq cleared', secured \subseteq secured',
           UNCHANGED <<pull, rebasedAt, firstPush, time, had, gate, standing, granted, armed>>,
           reports' \subseteq Review, cleared' \subseteq Heads \X Branches,
           secured' \subseteq Heads \X Branches, Backed'
    PROVE  RInv'
<1>1. ReviewTypeOK'
  BY DEF RInv, ReviewTypeOK, Happens
<1>2. Places'
  BY DEF RInv, Places, TimesOK, SameBase
<1>3. GateOK'
  BY DEF RInv, GateOK, Pinned, KnowsBases, PassesHold, Grants, Secures
<1>4. PassIsEarned' /\ RiskyIsSecured'
  BY DEF RInv, PassIsEarned, RiskyIsSecured
<1> QED
  BY <1>1, <1>2, <1>3, <1>4 DEF RInv, ArmedOK

LEMMA Completes ==
    ASSUME RInv, NEW who \in Reviewers, NEW h \in Heads, NEW b \in Branches,
           NEW clean \in BOOLEAN, Complete(who, h, b, clean)
    PROVE  RInv'
<1> DEFINE new == [who |-> who, head |-> h, base |-> b, clean |-> clean, at |-> time]
<1>1. /\ new \in Review /\ new.who = who
      /\ new.head = h /\ new.base = b /\ new.clean = clean
  BY DEF RInv, ReviewTypeOK, Review
<1>2. /\ reports' \subseteq reports \cup {new} /\ <<h, b>> \in had
      /\ cleared' = IF clean THEN cleared \cup {<<h, b>>} ELSE cleared
      /\ secured' = IF clean /\ who = "security" THEN secured \cup {<<h, b>>} ELSE secured
      /\ had' = had
  BY DEF Complete
<1>3. Backed'
  <2> SUFFICES ASSUME NEW r \in reports'
               PROVE  /\ <<r.head, r.base>> \in had
                      /\ r.clean => <<r.head, r.base>> \in cleared'
                      /\ r.clean /\ r.who = "security" => <<r.head, r.base>> \in secured'
    BY <1>2 DEF Backed
  <2>1. CASE r \in reports
    BY <1>2, <2>1 DEF RInv, Places, Backed
  <2>2. CASE r = new
    BY <1>1, <1>2, <2>2
  <2> QED
    BY <1>2, <2>1, <2>2
<1>4. /\ reports' \subseteq Review
      /\ cleared' \subseteq Heads \X Branches /\ secured' \subseteq Heads \X Branches
  BY <1>1, <1>2 DEF RInv, ReviewTypeOK
<1> QED
  BY <1>2, <1>3, <1>4, ReviewsChange DEF Complete

LEMMA Withdraws == ASSUME RInv, NEW r \in reports, Withdraw(r) PROVE RInv'
<1>1. /\ Backed' /\ reports' \subseteq Review
      /\ cleared' \subseteq Heads \X Branches /\ secured' \subseteq Heads \X Branches
  BY DEF Withdraw, RInv, ReviewTypeOK, Places, Backed
<1> QED
  BY <1>1, ReviewsChange DEF Withdraw

-----------------------------------------------------------------------------
(***************************************************************************)
(* A run of the gate.                                                      *)
(***************************************************************************)

LEMMA GateChanges ==
    ASSUME RInv, RestOfGitHub, UNCHANGED <<standing, granted, armed>>,
           events' \in Nat, gate' \in Gate, GateOK'
    PROVE  RInv'
BY DEF RInv, RestOfGitHub, ReviewTypeOK, Places, TimesOK, SameBase, Backed, PassIsEarned,
       RiskyIsSecured, ArmedOK

LEMMA GateEnds ==
    ASSUME RInv, RestOfGitHub, UNCHANGED <<standing, granted, armed, events>>, gate' = NoGate
    PROVE  RInv'
<1>1. GateOK'
  BY NoGateOK DEF GateOK, Pinned, KnowsBases, PassesHold, Grants, Secures, Asked
<1> QED
  BY <1>1, NoGateOK, GateChanges DEF RInv, ReviewTypeOK

LEMMA GateBegins == ASSUME RInv, NEW h \in Maybe(Heads), BeginGate(h) PROVE RInv'
<1>1. gate' = [NoGate EXCEPT !.at = "pull", !.head = h]
  BY DEF BeginGate
<1>2. gate' \in Gate /\ gate'.at = "pull" /\ gate'.passes = {} /\ ~gate'.exempt
      /\ ~gate'.secure
  BY <1>1, NoGateOK DEF Gate
<1>3. GateOK'
  BY <1>2 DEF GateOK, Pinned, KnowsBases, PassesHold, Grants, Secures, Asked
<1>4. events' \in Nat
  BY DEF BeginGate, Happens, RInv, ReviewTypeOK
<1> QED
  BY <1>2, <1>3, <1>4, GateChanges DEF BeginGate

LEMMA PullIsRead == ASSUME RInv, ReadPull PROVE RInv'
<1> DEFINE bases == {pull.base}
<1>0. /\ gate \in Gate /\ pull.head \in Heads /\ pull.base \in Branches
      /\ bases \in SUBSET Branches /\ pull.base \in bases
      /\ firstPush[pull.head] # None
  BY DEF RInv, ReviewTypeOK, Places, SameBase
<1>1. gate' = [gate EXCEPT !.at = "rebased", !.head = pull.head, !.base = pull.base,
                           !.bases = bases]
  BY DEF ReadPull
<1> HIDE DEF bases
<1>2. /\ gate' \in Gate /\ gate'.at = "rebased" /\ gate'.head = pull.head
      /\ gate'.base = pull.base /\ gate'.bases = bases
      /\ gate'.passes = gate.passes /\ gate'.exempt = gate.exempt
      /\ gate'.secure = gate.secure
  BY <1>0, <1>1 DEF Gate, Maybe
<1>3. gate.passes = {} /\ ~gate.exempt /\ ~gate.secure
  BY DEF ReadPull, RInv, GateOK, PassesHold, Grants, Secures, Asked
<1>4. GateOK'
  BY <1>0, <1>2, <1>3
  DEF GateOK, Pinned, KnowsBases, PassesHold, Grants, Secures, Asked, ReadPull, OnlyGate, RestOfGitHub
<1> QED
  BY <1>2, <1>4, GateChanges DEF ReadPull, OnlyGate, RInv, ReviewTypeOK

LEMMA RebasedIsRead == ASSUME RInv, ReadRebased PROVE RInv'
<1>0. gate \in Gate /\ rebasedAt \in Maybe(Nat)
  BY DEF RInv, ReviewTypeOK
<1>1. /\ gate' \in Gate /\ gate'.at = "Claude" /\ gate'.rebased = rebasedAt
      /\ gate'.head = gate.head /\ gate'.base = gate.base /\ gate'.bases = gate.bases
      /\ gate'.passes = gate.passes /\ gate'.exempt = gate.exempt
      /\ gate'.secure = gate.secure
  BY <1>0 DEF ReadRebased, Gate
<1>2. /\ gate.head \in Heads /\ firstPush[gate.head] # None
      /\ gate.base \in gate.bases /\ pull.base \in gate.bases
  BY DEF ReadRebased, RInv, GateOK, Pinned
<1>3. /\ UNCHANGED <<pull, firstPush, had, cleared, secured, standing, granted, armed, events>>
      /\ RestOfGitHub
  BY DEF ReadRebased, OnlyGate, RestOfGitHub
<1>4. KnowsBases'
  BY <1>1, <1>2, <1>3 DEF KnowsBases, RInv, Places, SameBase
<1>5. Pinned' /\ PassesHold' /\ Grants' /\ Secures'
  BY <1>1, <1>2, <1>3 DEF Pinned, PassesHold, Grants, Secures, RInv, GateOK, ReadRebased, Asked
<1> QED
  BY <1>1, <1>3, <1>4, <1>5, GateChanges DEF GateOK, RInv, ReviewTypeOK

\* A verdict on this head that the gate takes for one on a base it knows.
LEMMA BaseIsKnown ==
    ASSUME RInv, gate.at \in Asked, NEW who \in Reviewers, NEW r \in Says(who, TRUE),
           r.base = gate.base \/ HeadAfterRebase
    PROVE  r.base \in gate.bases
<1>1. r \in reports /\ r.head = gate.head
  BY DEF Says
<1>2. <<gate.head, r.base>> \in had /\ r.base \in Branches
  BY <1>1 DEF RInv, ReviewTypeOK, Places, Backed, Review
<1>3. CASE r.base = gate.base
  BY <1>2, <1>3 DEF RInv, GateOK, Pinned
<1>4. CASE HeadAfterRebase
  <2>1. Later(firstPush[gate.head], gate.rebased)
    BY <1>4 DEF HeadAfterRebase, Fresh, Later
  <2> QED
    BY <1>2, <2>1 DEF RInv, GateOK, KnowsBases
<1> QED
  BY <1>3, <1>4

LEMMA CleanIsCleared ==
    ASSUME RInv, gate.at \in Asked, NEW who \in Reviewers, NEW r \in Says(who, TRUE),
           r.base = gate.base \/ HeadAfterRebase
    PROVE  \E b \in gate.bases : <<gate.head, b>> \in cleared
<1>1. r \in reports /\ r.head = gate.head /\ r.clean
  BY DEF Says
<1>2. <<gate.head, r.base>> \in cleared
  BY <1>1 DEF RInv, Places, Backed
<1> QED
  BY <1>2, BaseIsKnown

LEMMA CleanIsSecured ==
    ASSUME RInv, gate.at \in Asked, NEW r \in Says("security", TRUE), HeadAfterRebase
    PROVE  \E b \in gate.bases : <<gate.head, b>> \in secured
<1>1. r \in reports /\ r.who = "security" /\ r.head = gate.head /\ r.clean
  BY DEF Says
<1>2. <<gate.head, r.base>> \in secured
  BY <1>1 DEF RInv, Places, Backed
<1>3. "security" \in Reviewers
  BY DEF Reviewers, Codex
<1> QED
  BY <1>2, <1>3, BaseIsKnown

\* A request of a run that has read the base and its changes.
LEMMA ReadsOn ==
    ASSUME RInv, OnlyGate, gate.at \in Asked, gate'.at \in Asked, gate' \in Gate,
           gate'.head = gate.head, gate'.base = gate.base, gate'.bases = gate.bases,
           gate'.rebased = gate.rebased,
           \/ gate'.passes = gate.passes
           \/ \E b \in gate.bases : <<gate.head, b>> \in cleared,
           gate'.exempt => gate'.at = "post" /\ Changes[gate.head] = "exempt",
           \/ gate'.secure = gate.secure
           \/ gate'.secure => \E b \in gate.bases : <<gate.head, b>> \in secured,
           gate'.at = "post" /\ gate'.listed = gate.head /\ Changes[gate.head] = "risky"
             => gate'.risky
    PROVE  RInv'
<1>1. UNCHANGED <<pull, firstPush, had, cleared, secured, standing, granted, armed, events>>
      /\ RestOfGitHub
  BY DEF OnlyGate, RestOfGitHub
<1>2. Pinned' /\ KnowsBases'
  BY <1>1 DEF Pinned, KnowsBases, RInv, GateOK
<1>3. PassesHold' /\ Grants' /\ Secures'
  BY <1>1 DEF PassesHold, Grants, Secures, RInv, GateOK, Asked
<1> QED
  BY <1>1, <1>2, <1>3, GateChanges DEF GateOK, RInv, ReviewTypeOK

LEMMA NotYetExempt == ASSUME RInv, gate.at # "post" PROVE ~gate.exempt
BY DEF RInv, GateOK, Grants

LEMMA ReadOK ==
    ASSUME RInv, NEW who \in {"Claude", "CodeRabbit"}, NEW next \in {"Codex", "files"},
           NEW pass \in BOOLEAN, NEW block \in BOOLEAN,
           gate.at = who, Read(who, next, pass, block), OnlyGate,
           pass => \E b \in gate.bases : <<gate.head, b>> \in cleared
    PROVE  RInv'
<1> DEFINE passes == IF pass THEN gate.passes \cup {who} ELSE gate.passes
           blocked == gate.blocked \/ block
<1>1. /\ gate \in Gate /\ passes \in SUBSET {"Claude", "Codex", "CodeRabbit"}
      /\ blocked \in BOOLEAN
      /\ ~pass => passes = gate.passes
  BY DEF RInv, ReviewTypeOK, Gate
<1>2. gate' = [gate EXCEPT !.at = next, !.passes = passes, !.blocked = blocked]
  BY DEF Read
<1> HIDE DEF passes, blocked
<1>3. /\ gate' \in Gate /\ gate'.at = next /\ gate'.passes = passes
      /\ gate'.head = gate.head /\ gate'.base = gate.base /\ gate'.bases = gate.bases
      /\ gate'.rebased = gate.rebased /\ gate'.exempt = gate.exempt
      /\ gate'.secure = gate.secure
  BY <1>1, <1>2 DEF Gate
<1> QED
  BY <1>1, <1>3, NotYetExempt, ReadsOn DEF Asked

LEMMA ClaudeIsRead == ASSUME RInv, ReadClaude PROVE RInv'
<1> DEFINE pass == \E r \in Says("Claude", TRUE) : Fresh(r.at) /\ r.base = gate.base
           block == Says("Claude", FALSE) # {}
<1>1. pass \in BOOLEAN /\ block \in BOOLEAN
  OBVIOUS
<1>2. pass => \E b \in gate.bases : <<gate.head, b>> \in cleared
  BY CleanIsCleared DEF Reviewers, Asked, ReadClaude
<1>3. gate.at = "Claude" /\ Read("Claude", "Codex", pass, block) /\ OnlyGate
  BY DEF ReadClaude
<1> HIDE DEF pass, block
<1> QED
  BY <1>1, <1>2, <1>3, ReadOK

LEMMA CodeRabbitIsRead == ASSUME RInv, ReadCodeRabbit PROVE RInv'
<1> DEFINE pass == \E r \in Says("CodeRabbit", TRUE) : Fresh(r.at) /\ HeadAfterRebase
           block == Says("CodeRabbit", FALSE) # {}
<1>1. pass \in BOOLEAN /\ block \in BOOLEAN
  OBVIOUS
<1>2. pass => \E b \in gate.bases : <<gate.head, b>> \in cleared
  BY CleanIsCleared DEF Reviewers, Asked, ReadCodeRabbit
<1>3. gate.at = "CodeRabbit" /\ Read("CodeRabbit", "files", pass, block) /\ OnlyGate
  BY DEF ReadCodeRabbit
<1> HIDE DEF pass, block
<1> QED
  BY <1>1, <1>2, <1>3, ReadOK

LEMMA CodexIsRead == ASSUME RInv, ReadCodex PROVE RInv'
<1> DEFINE both == \A who \in Codex : CodexClean(who)
           passes == IF both THEN gate.passes \cup {"Codex"} ELSE gate.passes
           secure == CodexClean("security")
           blocked == gate.blocked \/ \E who \in Codex : Says(who, FALSE) # {}
<1>1. /\ gate \in Gate /\ passes \in SUBSET {"Claude", "Codex", "CodeRabbit"}
      /\ ~both => passes = gate.passes
  BY DEF RInv, ReviewTypeOK, Gate
<1>2. secure \in BOOLEAN /\ blocked \in BOOLEAN
  BY DEF CodexClean
<1>3. both => \E b \in gate.bases : <<gate.head, b>> \in cleared
  BY CleanIsCleared DEF CodexClean, Codex, Reviewers, Asked, ReadCodex
<1>4. secure => \E b \in gate.bases : <<gate.head, b>> \in secured
  BY CleanIsSecured DEF CodexClean, Asked, ReadCodex
<1>5. gate' = [gate EXCEPT !.at = "CodeRabbit", !.passes = passes, !.secure = secure,
                           !.blocked = blocked]
  BY DEF ReadCodex
<1> HIDE DEF passes, secure, blocked, both
<1>6. /\ gate' \in Gate /\ gate'.at = "CodeRabbit" /\ gate'.passes = passes
      /\ gate'.head = gate.head /\ gate'.base = gate.base /\ gate'.bases = gate.bases
      /\ gate'.rebased = gate.rebased /\ gate'.exempt = gate.exempt
      /\ gate'.secure = secure
  BY <1>1, <1>2, <1>5 DEF Gate
<1> QED
  BY <1>1, <1>3, <1>4, <1>6, NotYetExempt, ReadsOn DEF ReadCodex, Asked

LEMMA FilesAreRead == ASSUME RInv, ReadFiles PROVE RInv'
<1> DEFINE listed == Changes[pull.head]
<1>1. PICK open, unsure \in BOOLEAN :
         gate' = [gate EXCEPT !.at = "post", !.blocked = @ \/ open,
                              !.risky = unsure \/ listed = "risky",
                              !.exempt = ~unsure /\ Exempt(listed),
                              !.listed = pull.head]
  BY DEF ReadFiles
<1> DEFINE blocked == gate.blocked \/ open
           risky == unsure \/ listed = "risky"
           exempt == ~unsure /\ Exempt(listed)
<1>2. /\ gate \in Gate /\ blocked \in BOOLEAN /\ risky \in BOOLEAN /\ exempt \in BOOLEAN
      /\ pull.head \in Heads
      /\ exempt => Changes[gate.head] = "exempt"
      /\ pull.head = gate.head /\ Changes[gate.head] = "risky" => risky
  BY DEF RInv, ReviewTypeOK, Gate, Exempt
<1>3. gate' = [gate EXCEPT !.at = "post", !.blocked = blocked, !.risky = risky,
                           !.exempt = exempt, !.listed = pull.head]
  BY <1>1
<1> HIDE DEF blocked, risky, exempt
<1>4. gate' \in Gate
  <2>1. pull.head \in Maybe(Heads)
    BY <1>2 DEF Maybe
  <2> QED
    BY <1>2, <1>3, <2>1 DEF Gate
<1>5. /\ gate'.at = "post" /\ gate'.passes = gate.passes
      /\ gate'.head = gate.head /\ gate'.base = gate.base /\ gate'.bases = gate.bases
      /\ gate'.rebased = gate.rebased /\ gate'.exempt = exempt
      /\ gate'.secure = gate.secure /\ gate'.risky = risky /\ gate'.listed = pull.head
  BY <1>2, <1>3 DEF Gate
<1> QED
  BY <1>2, <1>4, <1>5, ReadsOn DEF ReadFiles, Asked

\* A status on the head of the run that the run has earned, or that is no success.
LEMMA StatusStands ==
    ASSUME RInv, gate.head \in Heads, NEW says \in Status,
           standing' = standing \/ standing' = [standing EXCEPT ![gate.head] = says],
           UNCHANGED <<cleared, secured>>,
           says.state = "success" =>
              \/ says.passes = {} /\ Changes[gate.head] = "exempt"
              \/ /\ says.passes # {}
                 /\ \E b \in says.bases : <<gate.head, b>> \in cleared,
           says.state = "success" /\ says.listed = gate.head /\ Changes[gate.head] = "risky"
              => \E b \in says.bases : <<gate.head, b>> \in secured
    PROVE  standing' \in [Heads -> Maybe(Status)] /\ PassIsEarned' /\ RiskyIsSecured'
<1>1. CASE standing' = standing
  BY <1>1 DEF RInv, ReviewTypeOK, PassIsEarned, RiskyIsSecured
<1>2. CASE standing' = [standing EXCEPT ![gate.head] = says]
  <2>1. standing' \in [Heads -> Maybe(Status)]
    BY <1>2 DEF RInv, ReviewTypeOK, Maybe
  <2>2. \A h \in Heads : standing'[h] = IF h = gate.head THEN says ELSE standing[h]
    BY <1>2 DEF RInv, ReviewTypeOK
  <2> QED
    BY <2>1, <2>2 DEF RInv, PassIsEarned, RiskyIsSecured
<1> QED
  BY <1>1, <1>2

LEMMA Posts == ASSUME RInv, Post PROVE RInv'
<1> DEFINE named == IF gate.exempt THEN {} ELSE gate.passes
           says == [state |-> Judgement, passes |-> named, bases |-> gate.bases,
                    listed |-> gate.listed]
           done == Judgement = "success" /\ ~gate.risky
<1>0. /\ gate \in Gate /\ gate.at = "post" /\ gate.head \in Heads
      /\ RestOfGitHub /\ UNCHANGED <<armed, events, cleared, secured>>
  BY DEF RInv, ReviewTypeOK, GateOK, Pinned, Asked, Post, RestOfGitHub
<1>1. says \in Status
  BY <1>0 DEF Gate, Status, Judgement
<1>2. says.state = "success" =>
         \/ says.passes = {} /\ Changes[gate.head] = "exempt"
         \/ /\ says.passes # {}
            /\ \E b \in says.bases : <<gate.head, b>> \in cleared
  BY DEF Judgement, RInv, GateOK, Grants, PassesHold
<1>3. standing' = standing \/ standing' = [standing EXCEPT ![gate.head] = says]
  BY DEF Post
<1>4. says.state = "success" /\ says.listed = gate.head /\ Changes[gate.head] = "risky"
          => \E b \in says.bases : <<gate.head, b>> \in secured
  BY <1>0 DEF Judgement, RInv, GateOK, Grants, Secures
<1>5. /\ granted' = IF done THEN granted \cup {gate.head} ELSE granted
      /\ gate' = IF done THEN [NoGate EXCEPT !.at = "arm", !.head = gate.head] ELSE NoGate
      /\ done \in BOOLEAN
  BY DEF Post
<1> HIDE DEF says, done
<1>6. standing' \in [Heads -> Maybe(Status)] /\ PassIsEarned' /\ RiskyIsSecured'
  BY <1>0, <1>1, <1>2, <1>3, <1>4, StatusStands
<1>7. gate' \in Gate /\ gate'.passes = {} /\ ~gate'.exempt /\ ~gate'.secure
      /\ \/ gate'.at = "idle"
         \/ done /\ gate'.at = "arm" /\ gate'.head = gate.head
  <2>1. CASE done
    BY <1>0, <1>5, <2>1, NoGateOK DEF Gate, Maybe
  <2>2. CASE ~done
    BY <1>5, <2>2, NoGateOK
  <2> QED
    BY <2>1, <2>2
<1>8. GateOK'
  <2>1. done => gate.head \in granted'
    BY <1>5
  <2> QED
    BY <1>7, <2>1 DEF GateOK, Pinned, KnowsBases, PassesHold, Grants, Secures, Asked
<1>9. granted' \subseteq Heads /\ granted \subseteq granted'
  BY <1>0, <1>5 DEF RInv, ReviewTypeOK
<1>10. ReviewTypeOK' /\ Places'
  BY <1>0, <1>6, <1>7, <1>9
  DEF RInv, ReviewTypeOK, Places, TimesOK, SameBase, Backed, RestOfGitHub
<1>11. ArmedOK'
  <2>1. done => Changes[gate.head] = "exempt"
                  \/ \E b \in Branches : <<gate.head, b>> \in cleared
    <3>1. done => says.state = "success"
      BY DEF done, says
    <3>2. says.bases \subseteq Branches
      BY <1>1 DEF Status
    <3> QED
      BY <1>2, <3>1, <3>2
  <2> QED
    BY <1>0, <1>5, <2>1 DEF RInv, ArmedOK
<1> QED
  BY <1>6, <1>8, <1>10, <1>11 DEF RInv

LEMMA Fails == ASSUME RInv, NEW marked \in BOOLEAN, FailGate(marked) PROVE RInv'
<1> DEFINE says == [state |-> "error", passes |-> {}, bases |-> {}, listed |-> None]
<1>0. /\ RestOfGitHub /\ UNCHANGED <<granted, armed, events, cleared, secured>>
      /\ gate' = NoGate
      /\ gate \in Gate
  BY DEF FailGate, RestOfGitHub, RInv, ReviewTypeOK
<1>1. CASE ~marked
  BY <1>0, <1>1, GateEnds DEF FailGate
<1>2. CASE marked
  <2>1. gate.head \in Heads /\ standing' = [standing EXCEPT ![gate.head] = says]
    BY <1>0, <1>2 DEF FailGate, Gate, Maybe
  <2>2. says \in Status /\ says.state # "success"
    BY DEF Status, Maybe
  <2>3. standing' \in [Heads -> Maybe(Status)] /\ PassIsEarned' /\ RiskyIsSecured'
    BY <1>0, <2>1, <2>2, StatusStands
  <2>4. GateOK'
    BY <1>0, NoGateOK DEF GateOK, Pinned, KnowsBases, PassesHold, Grants, Secures, Asked
  <2>5. ReviewTypeOK' /\ Places'
    BY <1>0, <2>3, NoGateOK
    DEF RInv, ReviewTypeOK, Places, TimesOK, SameBase, Backed, RestOfGitHub
  <2> QED
    BY <1>0, <2>3, <2>4, <2>5 DEF RInv, ArmedOK
<1> QED
  BY <1>1, <1>2

LEMMA ArmingGoesOn == ASSUME RInv, ArmRead \/ ArmStatus PROVE RInv'
<1>0. /\ gate \in Gate /\ gate.at \in {"arm", "status"} /\ gate.head \in granted
      /\ gate.passes = {} /\ ~gate.exempt /\ ~gate.secure
      /\ OnlyGate
  BY DEF ArmRead, ArmStatus, RInv, ReviewTypeOK, GateOK, Grants, PassesHold, Secures, Asked
<1>1. PICK next \in {"status", "merge"} : gate' = [gate EXCEPT !.at = next]
  BY DEF ArmRead, ArmStatus
<1>2. /\ gate' \in Gate /\ gate'.at \in {"status", "merge"} /\ gate'.head = gate.head
      /\ gate'.passes = {} /\ ~gate'.exempt /\ ~gate'.secure
  BY <1>0, <1>1 DEF Gate
<1>3. GateOK'
  BY <1>0, <1>2 DEF GateOK, Pinned, KnowsBases, PassesHold, Grants, Secures, Asked, OnlyGate
<1> QED
  BY <1>0, <1>2, <1>3, GateChanges DEF OnlyGate, RInv, ReviewTypeOK

LEMMA Arms == ASSUME RInv, Arm PROVE RInv'
<1>0. /\ armed' \in granted /\ gate' = NoGate
      /\ RestOfGitHub /\ UNCHANGED <<standing, granted, events>>
  BY DEF Arm, RInv, GateOK, Grants
<1>1. GateOK'
  BY <1>0, NoGateOK DEF GateOK, Pinned, KnowsBases, PassesHold, Grants, Secures, Asked
<1>2. ReviewTypeOK' /\ Places' /\ PassIsEarned' /\ RiskyIsSecured'
  BY <1>0, NoGateOK
  DEF RInv, ReviewTypeOK, Places, TimesOK, SameBase, Backed, RestOfGitHub, PassIsEarned,
      RiskyIsSecured, Maybe
<1>3. ArmedOK'
  BY <1>0 DEF RInv, ArmedOK, RestOfGitHub
<1> QED
  BY <1>1, <1>2, <1>3 DEF RInv

LEMMA ReviewSteps == ASSUME RInv, ReviewStep PROVE RInv'
<1>1. CASE Tick
  BY <1>1, Ticks
<1>2. CASE \E h \in Heads : Push(h)
  BY <1>2, Pushes
<1>3. CASE \E b \in Branches : Retarget(b)
  BY <1>3, Retargets
<1>4. CASE \E who \in Reviewers, h \in Heads, b \in Branches, clean \in BOOLEAN :
              Complete(who, h, b, clean)
  BY <1>4, Completes
<1>5. CASE \E r \in reports : Withdraw(r)
  BY <1>5, Withdraws
<1>6. CASE GateStep
  <2>1. CASE \E h \in Maybe(Heads) : BeginGate(h)
    BY <2>1, GateBegins
  <2>2. CASE LeaveAlone \/ ArmEnds
    BY <2>2, GateEnds DEF LeaveAlone, ArmEnds, OnlyGate
  <2>3. CASE ReadPull
    BY <2>3, PullIsRead
  <2>4. CASE ReadRebased
    BY <2>4, RebasedIsRead
  <2>5. CASE ReadClaude
    BY <2>5, ClaudeIsRead
  <2>6. CASE ReadCodex
    BY <2>6, CodexIsRead
  <2>7. CASE ReadCodeRabbit
    BY <2>7, CodeRabbitIsRead
  <2>8. CASE ReadFiles
    BY <2>8, FilesAreRead
  <2>9. CASE Post
    BY <2>9, Posts
  <2>10. CASE \E marked \in BOOLEAN : FailGate(marked)
    BY <2>10, Fails
  <2>11. CASE ArmRead \/ ArmStatus
    BY <2>11, ArmingGoesOn
  <2>12. CASE Arm
    BY <2>12, Arms
  <2> QED
    BY <1>6, <2>1, <2>2, <2>3, <2>4, <2>5, <2>6, <2>7, <2>8, <2>9, <2>10, <2>11, <2>12
    DEF GateStep
<1> QED
  BY <1>1, <1>2, <1>3, <1>4, <1>5, <1>6 DEF ReviewStep

=============================================================================
