-------------------------- MODULE HostToolingProofs --------------------------
(***************************************************************************)
(* What the engineering scripts vouch for, for every set of trees, steps,  *)
(* packages, projects, workloads and suites, and without the bounds'       *)
(* values.  Each part has an inductive invariant of its own; they meet in  *)
(* the checkout, which the other parts may change only while no            *)
(* verification runs, and in the lock, which a full session has, or the    *)
(* shell that runs it.                                                     *)
(***************************************************************************)
EXTENDS HostTooling, ReviewGateProofs, TLAPS

-----------------------------------------------------------------------------
(***************************************************************************)
(* The verification run and its receipt.                                   *)
(***************************************************************************)

\* What a calm run has read is what the directory still holds, and HEAD is what
\* the recording named.
CalmRun ==
    /\ run.state = "idle" => run = NoRun
    /\ run.state = "recording" => run.named \in Commit
    /\ run.calm => run.seen \subseteq {work}
    /\ run.calm /\ run.state = "recording" => run.named = head

Honest(r) ==
    /\ {step \in Required : step # Coverage} \subseteq r.steps
    /\ r.calm => r.seen \subseteq {r.of.tree}

VInv ==
    /\ CheckoutTypeOK
    /\ VerificationTypeOK
    /\ CalmRun
    /\ receipt # None => Honest(receipt)
    /\ accepted # None => Honest(accepted)

LEMMA NoRunOK == NoRun \in Run /\ NoRun.seen = {} /\ NoRun.state = "idle" /\ NoRun.calm
BY DEF NoRun, Run, Maybe

LEMMA CheckoutStepOK == ASSUME CheckoutTypeOK, CheckoutStep PROVE CheckoutTypeOK'
BY DEF CheckoutTypeOK, CheckoutStep, Edit, MakeCommit, Commit

\* The other parts may change the checkout, as no run is under way.
LEMMA VerificationRests ==
    ASSUME VInv, run = NoRun \/ UNCHANGED checkout, CheckoutTypeOK', UNCHANGED verification
    PROVE  VInv'
<1>1. CASE run = NoRun
  BY <1>1, NoRunOK DEF VInv, VerificationTypeOK, CalmRun, Honest, verification
<1>2. CASE UNCHANGED checkout
  BY <1>2 DEF VInv, VerificationTypeOK, CalmRun, Honest, verification, checkout
<1> QED
  BY <1>1, <1>2

\* A new run, or none.
LEMMA RunChanges ==
    ASSUME VInv, UNCHANGED <<checkout, receipt, accepted>>,
           run' \in Run, CalmRun',
           check' \in Maybe([of : Commit, coverage : BOOLEAN])
    PROVE  VInv'
BY DEF VInv, CheckoutTypeOK, VerificationTypeOK, Honest, checkout

LEMMA RunEnds ==
    ASSUME VInv, UNCHANGED <<checkout, receipt, accepted, check>>, run' = NoRun
    PROVE  VInv'
<1>1. run' \in Run /\ CalmRun'
  BY NoRunOK DEF CalmRun
<1> QED
  BY <1>1, RunChanges DEF VInv, VerificationTypeOK

LEMMA VerificationStarts ==
    ASSUME VInv, NEW feedsThere, StartRun(feedsThere), UNCHANGED checkout
    PROVE  VInv'
<1>1. PICK coverage \in BOOLEAN : run' = [NoRun EXCEPT !.state = "steps", !.coverage = coverage]
  BY DEF StartRun
<1>2. /\ run' \in Run /\ run'.seen = {} /\ run'.state = "steps"
  BY <1>1 DEF NoRun, Run, Maybe
<1>3. CalmRun'
  BY <1>2 DEF CalmRun
<1> QED
  BY <1>2, <1>3, RunChanges DEF StartRun, VInv, VerificationTypeOK

LEMMA VerificationSteps ==
    ASSUME VInv, VerificationStep, UNCHANGED checkout
    PROVE  VInv'
<1>0. /\ head \in Commit /\ work \in Trees /\ run \in Run
      /\ receipt \in Maybe(Receipt) /\ check \in Maybe([of : Commit, coverage : BOOLEAN])
      /\ accepted \in Maybe(Receipt)
      /\ UNCHANGED <<head, work>>
  BY DEF VInv, CheckoutTypeOK, VerificationTypeOK, checkout
<1>1. CASE PassStep
  <2>1. PICK step \in Steps :
           /\ run.state = "steps"
           /\ run' = IF Skipped(step) THEN [run EXCEPT !.at = @ + 1]
                     ELSE [run EXCEPT !.at = @ + 1, !.passed = @ \cup {step},
                                      !.seen = @ \cup {work}]
    BY <1>1 DEF PassStep, AtStep
  <2>2. /\ run' \in Run /\ run'.state = "steps" /\ run'.calm = run.calm
        /\ run'.seen \subseteq run.seen \cup {work}
    <3>1. CASE run' = [run EXCEPT !.at = @ + 1]
      BY <1>0, <2>1, <3>1 DEF Run
    <3>2. CASE run' = [run EXCEPT !.at = @ + 1, !.passed = @ \cup {step},
                                  !.seen = @ \cup {work}]
      <4> DEFINE at == run.at + 1
                 passed == run.passed \cup {step}
                 seen == run.seen \cup {work}
      <4>1. at \in Nat /\ passed \in SUBSET Steps /\ seen \in SUBSET Trees
        BY <1>0 DEF Run
      <4>2. run' = [run EXCEPT !.at = at, !.passed = passed, !.seen = seen]
        BY <3>2
      <4> HIDE DEF at, passed, seen
      <4>3. run' \in Run /\ run'.state = "steps" /\ run'.calm = run.calm /\ run'.seen = seen
        <5>1. run' \in Run
          BY <1>0, <4>1, <4>2 DEF Run
        <5>2. run'.seen = seen
          BY <1>0, <4>2 DEF Run
        <5>3. run'.state = run.state
          BY <1>0, <4>2 DEF Run
        <5>4. run'.calm = run.calm
          BY <1>0, <4>2 DEF Run
        <5> QED
          BY <2>1, <5>1, <5>2, <5>3, <5>4
      <4> QED
        BY <4>3 DEF seen
    <3> QED
      BY <2>1, <3>1, <3>2
  <2>3. CalmRun'
    BY <1>0, <2>2 DEF VInv, CalmRun
  <2> QED
    BY <1>0, <1>1, <2>2, <2>3, RunChanges DEF PassStep
<1>2. CASE FailStep
  BY <1>2, RunEnds DEF FailStep
<1>3. CASE NameHead
  <2>1. /\ run' \in Run /\ run'.state = "recording" /\ run'.calm = run.calm
        /\ run'.seen = run.seen /\ run'.named = head
    BY <1>0, <1>3 DEF NameHead, Run, Maybe
  <2>2. CalmRun'
    BY <1>0, <2>1 DEF VInv, CalmRun
  <2> QED
    BY <1>0, <1>3, <2>1, <2>2, RunChanges DEF NameHead
<1>4. CASE Record
  <2>1. /\ run.named \in Commit /\ run.state = "recording"
        /\ Needed(run.coverage) \subseteq run.passed /\ work = head.tree
    BY <1>4 DEF VInv, CalmRun, Record, Recordable, Clean
  <2>2. /\ receipt' \in Receipt /\ receipt'.steps = run.passed
        /\ receipt'.calm = run.calm /\ receipt'.seen = run.seen /\ receipt'.of = run.named
    BY <1>0, <1>4, <2>1 DEF Record, Receipt, Run
  <2>3. run.calm => run.seen \subseteq {run.named.tree}
    BY <2>1 DEF VInv, CalmRun
  <2>4. Honest(receipt')
    BY <2>1, <2>2, <2>3 DEF Honest, Needed
  <2>5. run' = NoRun /\ UNCHANGED <<check, accepted>>
    BY <1>4 DEF Record
  <2>6. VerificationTypeOK' /\ CheckoutTypeOK'
    BY <1>0, <2>2, <2>5, NoRunOK DEF VerificationTypeOK, CheckoutTypeOK, Maybe
  <2>7. CalmRun'
    BY <2>5, NoRunOK DEF CalmRun
  <2>8. (receipt # None => Honest(receipt))' /\ (accepted # None => Honest(accepted))'
    BY <2>4, <2>5 DEF VInv, Honest
  <2> QED
    BY <2>6, <2>7, <2>8 DEF VInv
<1>5. CASE RefuseRecord
  BY <1>5, RunEnds DEF RefuseRecord
<1>6. CASE BeginCheck
  <2>1. check' \in Maybe([of : Commit, coverage : BOOLEAN])
    BY <1>0, <1>6 DEF BeginCheck, Maybe
  <2>2. CalmRun' /\ run' \in Run
    BY <1>0, <1>6 DEF VInv, CalmRun, BeginCheck
  <2> QED
    BY <1>0, <1>6, <2>1, <2>2, RunChanges DEF BeginCheck
<1>7. CASE EndCheck
  <2>1. /\ accepted' \in {receipt, None} /\ check' = None /\ UNCHANGED <<run, receipt>>
    BY <1>7 DEF EndCheck
  <2>2. VerificationTypeOK' /\ CheckoutTypeOK'
    BY <1>0, <2>1 DEF VerificationTypeOK, CheckoutTypeOK, Maybe
  <2> QED
    BY <1>0, <2>1, <2>2 DEF VInv, CalmRun, Honest
<1> QED
  BY <1>1, <1>2, <1>3, <1>4, <1>5, <1>6, <1>7 DEF VerificationStep

LEMMA VerificationDisturbed == ASSUME VInv, Disturb PROVE VInv'
<1>1. /\ CheckoutTypeOK' /\ run \in Run
      /\ UNCHANGED <<receipt, check, accepted>>
  BY CheckoutStepOK DEF VInv, VerificationTypeOK, Disturb
<1> DEFINE still == run.state = "idle" \/ (run.calm /\ run.state = "steps" /\ work' = work)
<1>2. /\ run' \in Run /\ run'.state = run.state /\ run'.seen = run.seen
      /\ run'.named = run.named /\ run'.calm = still
  <2>1. still \in BOOLEAN /\ run' = [run EXCEPT !.calm = still]
    BY DEF Disturb
  <2> QED
    BY <1>1, <2>1 DEF Run
<1>3. run.state = "idle" => run' = NoRun
  BY NoRunOK DEF VInv, CalmRun, Disturb, NoRun
<1>4. CalmRun'
  BY <1>2, <1>3, NoRunOK DEF VInv, CalmRun
<1> QED
  BY <1>1, <1>2, <1>4 DEF VInv, VerificationTypeOK, Honest

-----------------------------------------------------------------------------
(***************************************************************************)
(* The package proof and promotion.                                        *)
(***************************************************************************)

\* What was compared is what was restored, and what ran is among the consumed; a
\* proof is of bytes that ran; and unless one has packed since a verification
\* began, what is staged is what its proof was of.
Proven ==
    /\ consumer # None =>
         /\ consumer.compared => consumer.restored = consumer.packages
         /\ consumer.ran => consumer.packages \in consumed
    /\ proof # None => proof.packages \in consumed
    /\ verifier # None =>
         /\ verifier.at <= packs
         /\ packs = verifier.at => staged \in consumed

PInv == PackageTypeOK /\ Proven /\ PromotedWasConsumed

LEMMA PackagesRest == ASSUME PInv, UNCHANGED proofs PROVE PInv'
BY DEF PInv, PackageTypeOK, Proven, PromotedWasConsumed, proofs

LEMMA PackStep == ASSUME PInv, Pack PROVE PInv'
<1>1. PackageTypeOK'
  BY DEF PInv, PackageTypeOK, Pack, Maybe
<1>2. packs \in Nat /\ (verifier # None => verifier.at \in Nat)
  BY DEF PInv, PackageTypeOK, Maybe
<1>3. Proven'
  BY <1>2 DEF PInv, Proven, Pack
<1> QED
  BY <1>1, <1>3 DEF PInv, PromotedWasConsumed, Pack

LEMMA ConsumeSteps ==
    ASSUME PInv, CheckoutTypeOK,
           BeginConsume \/ (\E id \in Ids : Restore(id)) \/ Compare \/ RunConsumer
             \/ EndConsume \/ FailConsume
    PROVE  PInv'
<1> DEFINE Consumer == [packages : Packages, source : Nat, restored : [Ids -> Maybe(Bytes)],
                        compared : BOOLEAN, ran : BOOLEAN]
<1>0. /\ consumer # None => consumer \in Consumer
      /\ head.commit \in Nat
  BY DEF PInv, PackageTypeOK, CheckoutTypeOK, Commit, Maybe
<1>1. CASE BeginConsume
  <2>1. /\ consumer' = None \/ (consumer' \in Consumer /\ ~consumer'.compared /\ ~consumer'.ran)
        /\ proof' = None
    <3>1. Nothing \in [Ids -> Maybe(Bytes)]
      BY DEF Nothing, Maybe
    <3>2. Inventoried => staged \in Packages
      BY DEF PInv, PackageTypeOK, Inventoried, Packages, Maybe
    <3> QED
      BY <1>0, <1>1, <3>1, <3>2 DEF BeginConsume
  <2>2. PackageTypeOK'
    BY <1>1, <2>1 DEF PInv, PackageTypeOK, BeginConsume, Maybe
  <2> QED
    BY <1>1, <2>1, <2>2 DEF PInv, Proven, PromotedWasConsumed, BeginConsume
<1>2. ASSUME NEW id \in Ids, Restore(id) PROVE PInv'
  <2>1. staged[id] \in Maybe(Bytes) /\ consumer \in Consumer /\ consumer.restored[id] = None
    BY <1>0, <1>2 DEF PInv, PackageTypeOK, Restore
  <2>2. /\ consumer' \in Consumer
        /\ consumer'.compared = consumer.compared /\ consumer'.ran = consumer.ran
        /\ consumer'.packages = consumer.packages
    BY <1>2, <2>1 DEF Restore
  <2>3. ~consumer.compared
    <3>1. consumer.packages[id] \in Bytes
      BY <2>1 DEF Packages
    <3> QED
      BY <1>2, <2>1, <3>1, BytesAssumption DEF PInv, Proven, Restore
  <2>4. PackageTypeOK'
    BY <1>2, <2>2 DEF PInv, PackageTypeOK, Restore, Maybe
  <2> QED
    BY <1>2, <2>2, <2>3, <2>4 DEF PInv, Proven, PromotedWasConsumed, Restore
<1>3. CASE Compare
  <2>1. /\ consumer # None /\ consumer.restored = consumer.packages
        /\ consumer' \in Consumer
        /\ consumer'.restored = consumer.restored /\ consumer'.packages = consumer.packages
        /\ consumer'.ran = consumer.ran
    BY <1>0, <1>3 DEF Compare, Restored
  <2>2. PackageTypeOK'
    BY <1>3, <2>1 DEF PInv, PackageTypeOK, Compare, Maybe
  <2> QED
    BY <1>3, <2>1, <2>2 DEF PInv, Proven, PromotedWasConsumed, Compare
<1>4. CASE RunConsumer
  <2>1. /\ consumer # None /\ consumer.restored = consumer.packages
        /\ consumer' \in Consumer /\ consumer.packages \in Packages
        /\ consumer'.restored = consumer.restored /\ consumer'.packages = consumer.packages
    BY <1>0, <1>4 DEF RunConsumer, PInv, Proven
  <2>2. PackageTypeOK'
    BY <1>4, <2>1 DEF PInv, PackageTypeOK, RunConsumer, Maybe
  <2> QED
    BY <1>4, <2>1, <2>2 DEF PInv, Proven, PromotedWasConsumed, RunConsumer
<1>5. CASE EndConsume
  <2>1. proof' \in Proof /\ proof'.packages \in consumed
    BY <1>0, <1>5 DEF EndConsume, PInv, Proven, Proof
  <2>2. PackageTypeOK'
    BY <1>5, <2>1 DEF PInv, PackageTypeOK, EndConsume, Maybe
  <2> QED
    BY <1>5, <2>1, <2>2 DEF PInv, Proven, PromotedWasConsumed, EndConsume
<1>6. CASE FailConsume
  BY <1>6 DEF PInv, PackageTypeOK, Proven, PromotedWasConsumed, FailConsume, Maybe
<1> QED
  BY <1>1, <1>2, <1>3, <1>4, <1>5, <1>6

LEMMA VerifySteps ==
    ASSUME PInv, BeginVerify \/ EndVerify \/ FailVerify
    PROVE  PInv'
<1>1. CASE BeginVerify
  <2>1. PICK seals \in BOOLEAN : verifier' = [seals |-> seals, at |-> packs]
    BY <1>1 DEF BeginVerify
  <2>2. packs \in Nat /\ staged \in consumed
    BY <1>1 DEF PInv, PackageTypeOK, Proven, BeginVerify
  <2>3. PackageTypeOK'
    BY <1>1, <2>1, <2>2 DEF PInv, PackageTypeOK, BeginVerify, Maybe
  <2> QED
    BY <1>1, <2>1, <2>2, <2>3 DEF PInv, Proven, PromotedWasConsumed, BeginVerify
<1>2. CASE EndVerify
  <2>1. staged \in Packages /\ proof \in Proof
    BY <1>2 DEF PInv, PackageTypeOK, EndVerify, Inventoried, Packages, Maybe
  <2>2. /\ Manifest \in [proof : Proof, packages : Packages]
        /\ Promotion \in [packages : Packages, still : BOOLEAN]
        /\ Promotion.packages = staged /\ Promotion.still = (packs = verifier.at)
    BY <2>1 DEF Manifest, Promotion
  <2>3. \/ manifest' = Manifest /\ promoted' = promoted
        \/ manifest' = manifest /\ promoted' = Promotion
    BY <1>2 DEF EndVerify
  <2>4. PackageTypeOK'
    BY <1>2, <2>2, <2>3 DEF PInv, PackageTypeOK, EndVerify, Maybe
  <2>5. PromotedWasConsumed'
    BY <1>2, <2>2, <2>3 DEF PInv, Proven, PromotedWasConsumed, EndVerify
  <2>6. Proven'
    BY <1>2 DEF PInv, Proven, EndVerify
  <2> QED
    BY <2>4, <2>5, <2>6 DEF PInv
<1>3. CASE FailVerify
  BY <1>3 DEF PInv, PackageTypeOK, Proven, PromotedWasConsumed, FailVerify, Maybe
<1> QED
  BY <1>1, <1>2, <1>3

-----------------------------------------------------------------------------
(***************************************************************************)
(* The local package feeds.                                                *)
(***************************************************************************)

Whole(version) ==
    \A p \in Projects :
        /\ feed[p] # None
        /\ feed[p].version = version
        /\ feed[p].assembly = Producers[p]
        /\ ~feed[p].needs

Coded(p) == tarballs[p] # None /\ tarballs[p].dist

\* What a script has behind it when it is at a stage.
BlazorBuilding ==
    builder # None /\ builder.lane = "blazor" =>
        /\ builder.stage = "pack" => props = None
        /\ builder.stage = "copy" => props # None
        /\ builder.stage # "fill"

ReactBuilding ==
    builder # None /\ builder.lane = "react" =>
        /\ builder.stage = "pack" => unpacked = NoDirectories
        /\ builder.stage \in {"fill", "copy"} => \A p \in Projects : Coded(p)
        /\ builder.stage = "fill" =>
              \A p \in Projects : p \in builder.left \/ unpacked[p] = "coded"
        /\ builder.stage = "copy" => \A p \in Projects : unpacked[p] = "coded"

\* A feed whose directory is not there is empty; once it has its directory again,
\* and until the script ends, it does not hold the definitions.
Building ==
    /\ \A lane \in Lanes \ made : Cleared(lane)
    /\ builder # None /\ builder.stage # "remove" =>
         builder.lane \in made /\ builder.lane \notin copied /\ builder.lane \notin torn
    /\ BlazorBuilding
    /\ ReactBuilding

FInv == FeedTypeOK /\ Building /\ FeedIsWhole

LEMMA FeedsRest == ASSUME FInv, UNCHANGED feeds PROVE FInv'
BY DEF FInv, FeedTypeOK, Building, BlazorBuilding, ReactBuilding, Coded, Cleared,
       FeedIsWhole, Settled, Amid, feeds

LEMMA FeedsBegin == ASSUME FeedInit \/ FeedBuilt \/ FeedInterrupted PROVE FInv
<1>1. /\ Empty \in [Projects -> Maybe(Package)] /\ Empty \in [Projects -> Maybe(Tarball)]
      /\ NoDirectories \in [Projects -> Directory]
  BY DEF Empty, NoDirectories, Directory, Maybe
<1>2. CASE FeedInit \/ FeedInterrupted
  <2>1. /\ feed = Empty /\ props = None /\ tarballs = Empty /\ unpacked = NoDirectories
        /\ made \subseteq Lanes /\ copied = {} /\ builder = None /\ torn = {}
    BY <1>2 DEF FeedInit, FeedInterrupted
  <2>2. FeedTypeOK /\ Building
    BY <1>1, <2>1 DEF FeedTypeOK, Building, BlazorBuilding, ReactBuilding, Cleared, Maybe
  <2>3. FeedIsWhole
    BY <2>1 DEF FeedIsWhole, NoDirectories
  <2> QED
    BY <2>2, <2>3 DEF FInv
<1>3. CASE FeedBuilt
  <2>1. PICK version \in Versions :
          feed = [p \in Projects |-> [version |-> version, assembly |-> Producers[p],
                                     needs |-> FALSE]] /\ props = version
    BY <1>3 DEF FeedBuilt
  <2>2. \A p \in Projects : /\ feed[p] \in Package /\ feed[p].version = props
                           /\ feed[p].assembly = Producers[p] /\ ~feed[p].needs
    BY <2>1, ProducersAssumption DEF Package
  <2>3. \A p \in Projects : tarballs[p] \in Tarball /\ unpacked[p] = "coded"
    BY <1>3 DEF FeedBuilt, Tarball
  <2>4. FeedTypeOK
    <3>1. feed \in [Projects -> Maybe(Package)]
      BY <2>1, <2>2 DEF Maybe
    <3>2. tarballs \in [Projects -> Maybe(Tarball)] /\ unpacked \in [Projects -> Directory]
      BY <1>3, <2>3 DEF FeedBuilt, Maybe, Directory
    <3> QED
      BY <1>3, <2>1, <3>1, <3>2 DEF FeedBuilt, FeedTypeOK, Maybe
  <2>5. FeedIsWhole
    BY <1>3, <2>1, <2>2, <2>3, AbsentPackageAssumption, VersionsAssumption
       DEF FeedBuilt, FeedIsWhole
  <2> QED
    BY <1>3, <2>4, <2>5 DEF FeedBuilt, FInv, Building, BlazorBuilding, ReactBuilding
<1> QED
  BY <1>2, <1>3

LEMMA FeedTypes ==
    ASSUME FInv
    PROVE  /\ feed \in [Projects -> Maybe(Package)] /\ tarballs \in [Projects -> Maybe(Tarball)]
           /\ props \in Maybe(Versions) /\ unpacked \in [Projects -> Directory]
           /\ made \subseteq Lanes /\ copied \subseteq Lanes /\ torn \subseteq Lanes
           /\ builder # None => builder \in Builder
BY DEF FInv, FeedTypeOK, Maybe

LEMMA FeedBegins == ASSUME FInv, NEW lane \in Lanes, Begin(lane) PROVE FInv'
<1>1. PICK version \in Versions :
        builder' = [lane |-> lane, version |-> version, left |-> Projects, stage |-> "remove"]
  BY DEF Begin
<1>2. /\ builder' \in Builder /\ builder'.lane = lane /\ builder'.stage = "remove"
      /\ builder = None /\ UNCHANGED <<feed, props, tarballs, unpacked, made, copied, torn>>
  BY <1>1 DEF Begin, Builder, Stages
<1>3. FeedTypeOK'
  BY <1>2, FeedTypes DEF FeedTypeOK, Builder, Maybe
<1>4. Building'
  BY <1>2 DEF FInv, Building, BlazorBuilding, ReactBuilding, Cleared
<1>5. \A l \in Lanes : Settled(l)' => Settled(l)
  BY <1>2 DEF Settled, Amid
<1>6. FeedIsWhole'
  BY <1>2, <1>5 DEF FInv, FeedIsWhole, Lanes
<1> QED
  BY <1>3, <1>4, <1>6 DEF FInv

\* A feed that loses files keeps what the others vouch for.
LEMMA FeedRemoves == ASSUME FInv, Remove PROVE FInv'
<1>0. /\ builder # None /\ builder \in Builder /\ builder.stage = "remove"
      /\ builder.lane \in Lanes
  BY FeedTypes DEF Remove, RemoveDefinitions, RemovePackage, RemoveVersion, RemoveTarball,
     RemoveUnpacked, RemoveDirectory, MakeDirectory, Removing, Builder
<1>1. CASE RemoveDefinitions
  <2>1. /\ copied' = copied \ {builder.lane}
        /\ UNCHANGED <<feed, props, tarballs, unpacked, made, builder, torn>>
    BY <1>1 DEF RemoveDefinitions, Removing
  <2>2. FeedTypeOK'
    BY <2>1 DEF FInv, FeedTypeOK
  <2>3. Building'
    BY <1>0, <2>1 DEF FInv, Building, BlazorBuilding, ReactBuilding, Cleared
  <2>4. FeedIsWhole'
    BY <2>1 DEF FInv, FeedIsWhole, Settled, Amid
  <2> QED
    BY <2>2, <2>3, <2>4 DEF FInv
<1>2. CASE RemovePackage \/ RemoveVersion
  <2>1. /\ builder.lane = "blazor"
        /\ feed' \in [Projects -> Maybe(Package)] /\ props' \in {props, None}
        /\ \A p \in Projects : feed'[p] \in {feed[p], None}
        /\ UNCHANGED <<tarballs, unpacked, made, copied, builder, torn>>
    <3>1. CASE RemovePackage
      <4>1. PICK p \in Projects : feed' = [feed EXCEPT ![p] = None]
        BY <3>1 DEF RemovePackage
      <4> QED
        BY <3>1, <4>1, FeedTypes DEF RemovePackage, Removing, Maybe
    <3>2. CASE RemoveVersion
      BY <3>2, FeedTypes DEF RemoveVersion, Removing
    <3> QED
      BY <1>2, <3>1, <3>2
  <2>2. FeedTypeOK'
    BY <2>1 DEF FInv, FeedTypeOK, Maybe
  <2>3. Building'
    <3>1. "blazor" \notin made => feed' = feed /\ props' = props
      BY <1>2, <2>1, FeedTypes
         DEF FInv, Building, Cleared, Lanes, Empty, RemovePackage, RemoveVersion
    <3>2. \A lane \in Lanes \ made : Cleared(lane)'
      BY <2>1, <3>1 DEF FInv, Building, Cleared
    <3> QED
      BY <1>0, <2>1, <3>2 DEF FInv, Building, BlazorBuilding, ReactBuilding
  <2>4. FeedIsWhole'
    <3>1. ~Settled("blazor")' /\ (Settled("react")' <=> Settled("react"))
      BY <1>0, <2>1 DEF Settled, Amid
    <3> QED
      BY <2>1, <3>1 DEF FInv, FeedIsWhole
  <2> QED
    BY <2>2, <2>3, <2>4 DEF FInv
<1>3. CASE RemoveTarball \/ RemoveUnpacked
  <2>1. /\ builder.lane = "react"
        /\ tarballs' \in [Projects -> Maybe(Tarball)] /\ unpacked' \in [Projects -> Directory]
        /\ \A p \in Projects : unpacked'[p] \in {unpacked[p], "partial", "none"}
        /\ UNCHANGED <<feed, props, made, copied, builder, torn>>
    <3>1. CASE RemoveTarball
      <4>1. PICK p \in Projects : tarballs' = [tarballs EXCEPT ![p] = None]
        BY <3>1 DEF RemoveTarball
      <4> QED
        BY <3>1, <4>1, FeedTypes DEF RemoveTarball, Removing, Maybe
    <3>2. CASE RemoveUnpacked
      <4>1. PICK p \in Projects : \/ unpacked' = [unpacked EXCEPT ![p] = "partial"]
                                  \/ unpacked' = [unpacked EXCEPT ![p] = "none"]
        BY <3>2 DEF RemoveUnpacked
      <4> QED
        BY <3>2, <4>1, FeedTypes DEF RemoveUnpacked, Removing, Directory
    <3> QED
      BY <1>3, <3>1, <3>2
  <2>2. FeedTypeOK'
    BY <2>1 DEF FInv, FeedTypeOK
  <2>3. Building'
    <3>1. "react" \notin made => tarballs' = tarballs /\ unpacked' = unpacked
      BY <1>3, <2>1, FeedTypes
         DEF FInv, Building, Cleared, Lanes, Empty, NoDirectories, RemoveTarball, RemoveUnpacked
    <3>2. \A lane \in Lanes \ made : Cleared(lane)'
      BY <2>1, <3>1 DEF FInv, Building, Cleared
    <3> QED
      BY <1>0, <2>1, <3>2 DEF FInv, Building, BlazorBuilding, ReactBuilding
  <2>4. FeedIsWhole'
    <3>1. ~Settled("react")' /\ (Settled("blazor")' <=> Settled("blazor"))
      BY <1>0, <2>1 DEF Settled, Amid
    <3> QED
      BY <2>1, <3>1 DEF FInv, FeedIsWhole
  <2> QED
    BY <2>2, <2>3, <2>4 DEF FInv
<1>4. CASE RemoveDirectory
  <2>1. /\ Cleared(builder.lane) /\ made' = made \ {builder.lane}
        /\ UNCHANGED <<feed, props, tarballs, unpacked, copied, builder, torn>>
    BY <1>4 DEF RemoveDirectory, Removing
  <2>2. FeedTypeOK'
    BY <2>1 DEF FInv, FeedTypeOK
  <2>3. Building'
    BY <1>0, <2>1 DEF FInv, Building, BlazorBuilding, ReactBuilding, Cleared
  <2>4. FeedIsWhole'
    BY <2>1 DEF FInv, FeedIsWhole, Settled, Amid
  <2> QED
    BY <2>2, <2>3, <2>4 DEF FInv
<1>5. CASE MakeDirectory
  <2>1. PICK lane \in Lanes \ made :
          lane = builder.lane /\ made' = made \cup {lane} /\ torn' = torn \ {lane}
    BY <1>5 DEF MakeDirectory, Removing
  <2>2. /\ Cleared(lane) /\ builder' = [builder EXCEPT !.stage = "pack"]
        /\ UNCHANGED <<feed, props, tarballs, unpacked, copied>>
    BY <1>5, <2>1 DEF MakeDirectory, FInv, Building
  <2>3. builder' \in Builder /\ builder'.lane = lane /\ builder'.stage = "pack"
    BY <1>0, <2>1, <2>2 DEF Builder, Stages
  <2>4. FeedTypeOK'
    BY <2>1, <2>2, <2>3, FeedTypes DEF FeedTypeOK, Builder, Maybe
  <2>5. Building'
    BY <2>1, <2>2, <2>3 DEF FInv, Building, BlazorBuilding, ReactBuilding, Cleared
  <2>6. FeedIsWhole'
    <3>1. \A l \in Lanes : l # lane => (Settled(l)' <=> Settled(l))
      BY <1>0, <2>1, <2>3 DEF Settled, Amid
    <3>2. lane = "blazor" => props = None /\ "blazor" \notin copied
      BY <2>2 DEF Cleared
    <3>3. lane = "react" => "react" \notin copied /\ \A p \in Projects : unpacked[p] = "none"
      BY <2>2 DEF Cleared, NoDirectories
    <3> QED
      BY <2>2, <3>1, <3>2, <3>3 DEF FInv, FeedIsWhole, Lanes
  <2> QED
    BY <2>4, <2>5, <2>6 DEF FInv
<1> QED
  BY <1>1, <1>2, <1>3, <1>4, <1>5 DEF Remove

LEMMA FeedSteps ==
    ASSUME FInv, BeginBlazorFeed \/ BeginReactFeed \/ FeedStep
    PROVE  FInv'
<1>0. /\ feed \in [Projects -> Maybe(Package)] /\ tarballs \in [Projects -> Maybe(Tarball)]
      /\ props \in Maybe(Versions) /\ unpacked \in [Projects -> Directory]
      /\ made \subseteq Lanes /\ copied \subseteq Lanes /\ torn \subseteq Lanes
      /\ builder # None => builder \in Builder
  BY FeedTypes
<1>1. CASE BeginBlazorFeed \/ BeginReactFeed
  BY <1>1, FeedBegins DEF BeginBlazorFeed, BeginReactFeed, Lanes
<1>2. CASE Remove
  BY <1>2, FeedRemoves
<1>3. CASE PackBlazor
  <2>1. PICK p \in builder.left :
          /\ \E package \in Maybe(Package) : feed' = [feed EXCEPT ![p] = package]
          /\ builder' = [builder EXCEPT !.left = @ \ {p}]
    BY <1>3 DEF PackBlazor
  <2>2. /\ builder # None /\ builder \in Builder /\ builder.lane = "blazor" /\ builder.stage = "pack"
        /\ UNCHANGED <<props, tarballs, unpacked, made, copied, torn>>
    BY <1>0, <1>3 DEF PackBlazor, Packing
  <2>3. builder' \in Builder /\ builder'.lane = "blazor" /\ builder'.stage = "pack"
    BY <2>1, <2>2 DEF Builder
  <2>4. feed' \in [Projects -> Maybe(Package)]
    BY <1>0, <2>1
  <2>5. props = None /\ "blazor" \notin copied /\ "blazor" \in made /\ "blazor" \notin torn
    BY <2>2 DEF FInv, Building, BlazorBuilding
  <2>6. FeedTypeOK'
    BY <1>0, <2>2, <2>3, <2>4 DEF FeedTypeOK, Builder, Maybe
  <2>7. Building'
    BY <2>2, <2>3, <2>5 DEF FInv, Building, BlazorBuilding, ReactBuilding, Cleared
  <2>8. FeedIsWhole'
    BY <2>2, <2>3, <2>5 DEF FInv, FeedIsWhole, Settled, Amid
  <2> QED
    BY <2>6, <2>7, <2>8 DEF FInv
<1>4. CASE PackReact
  <2>1. PICK p \in builder.left :
          /\ \E tarball \in Maybe(Tarball) : tarballs' = [tarballs EXCEPT ![p] = tarball]
          /\ builder' = [builder EXCEPT !.left = @ \ {p}]
    BY <1>4 DEF PackReact
  <2>2. /\ builder # None /\ builder \in Builder /\ builder.lane = "react" /\ builder.stage = "pack"
        /\ UNCHANGED <<feed, props, unpacked, made, copied, torn>>
    BY <1>0, <1>4 DEF PackReact, Packing
  <2>3. builder' \in Builder /\ builder'.lane = "react" /\ builder'.stage = "pack"
    BY <2>1, <2>2 DEF Builder
  <2>4. tarballs' \in [Projects -> Maybe(Tarball)]
    BY <1>0, <2>1
  <2>5. unpacked = NoDirectories /\ "react" \notin copied /\ "react" \in made /\ "react" \notin torn
    BY <2>2 DEF FInv, Building, ReactBuilding
  <2>6. FeedTypeOK'
    BY <1>0, <2>2, <2>3, <2>4 DEF FeedTypeOK, Builder, Maybe
  <2>7. Building'
    BY <2>2, <2>3, <2>5 DEF FInv, Building, BlazorBuilding, ReactBuilding, Cleared
  <2>8. FeedIsWhole'
    BY <2>2, <2>3, <2>5 DEF FInv, FeedIsWhole, Settled, Amid
  <2> QED
    BY <2>6, <2>7, <2>8 DEF FInv
<1>5. CASE RecordVersion
  <2>1. /\ builder # None /\ builder \in Builder /\ builder.lane = "blazor" /\ builder.stage = "pack"
        /\ props' = builder.version /\ builder' = [builder EXCEPT !.stage = "copy"]
        /\ UNCHANGED <<feed, tarballs, unpacked, made, copied, torn>>
        /\ Closed /\ Produced /\ Versioned
    BY <1>0, <1>5 DEF RecordVersion, Packing
  <2>2. /\ builder' \in Builder /\ builder'.lane = "blazor" /\ builder'.stage = "copy"
        /\ props' \in Versions /\ props' # None
    BY <2>1, VersionsAssumption DEF Builder, Stages
  <2>3. Whole(props')
    BY <2>1 DEF Whole, Closed, Produced, Versioned
  <2>4. "blazor" \notin copied /\ "blazor" \in made /\ "blazor" \notin torn
    BY <2>1 DEF FInv, Building
  <2>5. FeedTypeOK'
    BY <1>0, <2>1, <2>2 DEF FeedTypeOK, Builder, Maybe
  <2>6. Building'
    BY <2>1, <2>2, <2>4 DEF FInv, Building, BlazorBuilding, ReactBuilding, Cleared
  <2>7. FeedIsWhole'
    <3>1. Settled("react")' <=> Settled("react")
      BY <2>1, <2>2 DEF Settled, Amid
    <3> QED
      BY <2>1, <2>2, <2>3, <3>1 DEF FInv, FeedIsWhole, Whole
  <2> QED
    BY <2>5, <2>6, <2>7 DEF FInv
<1>6. CASE CheckReactFeed
  <2>1. /\ builder # None /\ builder \in Builder /\ builder.lane = "react" /\ builder.stage = "pack"
        /\ \A p \in Projects : Coded(p)
        /\ builder' = [builder EXCEPT !.stage = "fill", !.left = Projects]
        /\ UNCHANGED <<feed, props, tarballs, unpacked, made, copied, torn>>
    BY <1>0, <1>6 DEF CheckReactFeed, Packing, Coded
  <2>2. /\ builder' \in Builder /\ builder'.lane = "react" /\ builder'.stage = "fill"
        /\ builder'.left = Projects
    BY <2>1 DEF Builder, Stages
  <2>3. FeedTypeOK'
    BY <1>0, <2>1, <2>2 DEF FeedTypeOK, Builder, Maybe
  <2>4. Building'
    BY <2>1, <2>2 DEF FInv, Building, BlazorBuilding, ReactBuilding, Coded, Cleared
  <2>5. FeedIsWhole'
    BY <2>1, <2>2 DEF FInv, FeedIsWhole, Settled, Amid
  <2> QED
    BY <2>3, <2>4, <2>5 DEF FInv
<1>7. CASE StartUnpacking \/ Unpack
  <2>1. PICK p \in builder.left : unpacked' = [unpacked EXCEPT ![p] = unpacked'[p]]
                                  /\ (StartUnpacking => unpacked'[p] = "partial"
                                                        /\ builder' = builder)
                                  /\ (Unpack => /\ unpacked'[p] = IF tarballs[p].dist THEN "coded"
                                                                 ELSE "hollow"
                                                /\ builder' = [builder EXCEPT !.left = @ \ {p}])
    <3>1. builder # None => builder.left \subseteq Projects
      BY <1>0 DEF Builder
    <3>2. CASE StartUnpacking /\ ~Unpack
      BY <1>0, <3>1, <3>2 DEF StartUnpacking, Filling
    <3>3. CASE Unpack /\ ~StartUnpacking
      BY <1>0, <3>1, <3>3 DEF Unpack, Filling
    <3>4. ~(StartUnpacking /\ Unpack)
      BY <1>0, <3>1 DEF StartUnpacking, Unpack, Filling
    <3> QED
      BY <1>7, <3>2, <3>3, <3>4
  <2>2. /\ builder # None /\ builder \in Builder /\ builder.stage = "fill" /\ p \in Projects
        /\ UNCHANGED <<feed, props, tarballs, made, copied, torn>>
    BY <1>0, <1>7, <2>1 DEF StartUnpacking, Unpack, Filling, Builder
  <2>3. builder.lane = "react"
    BY <2>2 DEF FInv, Building, BlazorBuilding, Builder, Lanes
  <2>4. /\ "react" \notin copied /\ "react" \in made /\ "react" \notin torn
        /\ \A q \in Projects : Coded(q)
        /\ \A q \in Projects : q \in builder.left \/ unpacked[q] = "coded"
    BY <2>2, <2>3 DEF FInv, Building, ReactBuilding
  <2>5. /\ builder' # None /\ builder' \in Builder /\ builder'.lane = "react"
        /\ builder'.stage = "fill" /\ builder'.left \subseteq builder.left
        /\ \A q \in builder.left \ builder'.left : q = p /\ unpacked'[p] = "coded"
    <3>1. tarballs[p].dist
      BY <2>2, <2>4 DEF Coded
    <3>2. CASE StartUnpacking
      BY <2>1, <2>2, <2>3, <3>2
    <3>3. CASE Unpack
      <4>1. builder' = [builder EXCEPT !.left = @ \ {p}] /\ unpacked'[p] = "coded"
        BY <2>1, <3>1, <3>3
      <4> QED
        BY <2>2, <2>3, <4>1, AbsentPackageAssumption DEF Builder
    <3> QED
      BY <1>7, <3>2, <3>3
  <2>6. unpacked' \in [Projects -> Directory] /\ unpacked'[p] \in {"partial", "coded"}
    BY <1>0, <1>7, <2>1, <2>2, <2>4 DEF Directory, Coded
  <2>7. FeedTypeOK'
    BY <1>0, <2>2, <2>5, <2>6 DEF FeedTypeOK, Builder, Maybe
  <2>8. Building'
    <3>1. \A q \in Projects : q \in builder'.left \/ unpacked'[q] = "coded"
      BY <1>0, <2>1, <2>2, <2>4, <2>5
    <3> QED
      BY <2>2, <2>4, <2>5, <3>1 DEF FInv, Building, BlazorBuilding, ReactBuilding, Coded, Cleared
  <2>9. FeedIsWhole'
    <3>1. ~Settled("react")' /\ (Settled("blazor")' <=> Settled("blazor"))
      BY <2>2, <2>3, <2>5 DEF Settled, Amid
    <3>2. \A q \in Projects : unpacked'[q] # "hollow"
      BY <1>0, <2>1, <2>6 DEF FInv, FeedIsWhole
    <3> QED
      BY <2>2, <3>1, <3>2 DEF FInv, FeedIsWhole
  <2> QED
    BY <2>7, <2>8, <2>9 DEF FInv
<1>8. CASE Filled
  <2>1. /\ builder # None /\ builder \in Builder /\ builder.stage = "fill" /\ builder.left = {}
        /\ builder' = [builder EXCEPT !.stage = "copy"]
        /\ UNCHANGED <<feed, props, tarballs, unpacked, made, copied, torn>>
    BY <1>0, <1>8 DEF Filled, Filling
  <2>2. builder.lane = "react"
    BY <2>1 DEF FInv, Building, BlazorBuilding, Builder, Lanes
  <2>3. builder' \in Builder /\ builder'.lane = "react" /\ builder'.stage = "copy"
    BY <2>1, <2>2 DEF Builder, Stages
  <2>4. /\ "react" \notin copied /\ "react" \in made /\ "react" \notin torn
        /\ \A q \in Projects : Coded(q) /\ unpacked[q] = "coded"
    BY <2>1, <2>2 DEF FInv, Building, ReactBuilding
  <2>5. FeedTypeOK'
    BY <1>0, <2>1, <2>3 DEF FeedTypeOK, Builder, Maybe
  <2>6. Building'
    BY <2>1, <2>3, <2>4 DEF FInv, Building, BlazorBuilding, ReactBuilding, Coded, Cleared
  <2>7. FeedIsWhole'
    <3>1. Settled("blazor")' <=> Settled("blazor")
      BY <2>1, <2>2, <2>3 DEF Settled, Amid
    <3> QED
      BY <2>1, <2>4, <3>1 DEF FInv, FeedIsWhole
  <2> QED
    BY <2>5, <2>6, <2>7 DEF FInv
<1>9. CASE CopyDefinitions
  <2>1. /\ builder # None /\ builder \in Builder /\ builder.stage = "copy"
        /\ copied' = copied \cup {builder.lane} /\ builder' = None
        /\ UNCHANGED <<feed, props, tarballs, unpacked, made, torn>>
    BY <1>0, <1>9 DEF CopyDefinitions
  <2>2. /\ builder.lane \in Lanes /\ builder.lane \in made
        /\ builder.lane = "blazor" => props # None
        /\ builder.lane = "react" => \A p \in Projects : unpacked[p] = "coded"
    BY <2>1 DEF FInv, Building, BlazorBuilding, ReactBuilding, Builder
  <2>3. FeedTypeOK'
    BY <1>0, <2>1, <2>2 DEF FeedTypeOK, Maybe
  <2>4. Building'
    BY <2>1, <2>2 DEF FInv, Building, BlazorBuilding, ReactBuilding, Cleared
  <2>5. \A l \in Lanes : Settled(l)' <=> Settled(l)
    BY <2>1 DEF Settled, Amid
  <2>6. FeedIsWhole'
    BY <2>1, <2>2, <2>5 DEF FInv, FeedIsWhole, Lanes
  <2> QED
    BY <2>3, <2>4, <2>6 DEF FInv
<1>10. CASE AbortFeed
  <2>1. /\ builder' = None /\ torn' = torn \cup {lane \in Lanes : Amid(lane)}
        /\ UNCHANGED <<feed, props, tarballs, unpacked, made, copied>>
    BY <1>10 DEF AbortFeed
  <2>2. FeedTypeOK'
    BY <1>0, <2>1 DEF FeedTypeOK, Maybe
  <2>3. Building'
    BY <2>1 DEF FInv, Building, BlazorBuilding, ReactBuilding, Cleared
  <2>4. \A l \in Lanes : Settled(l)' <=> Settled(l)
    BY <2>1 DEF Settled, Amid
  <2>5. FeedIsWhole'
    BY <2>1, <2>4 DEF FInv, FeedIsWhole, Lanes
  <2> QED
    BY <2>2, <2>3, <2>5 DEF FInv
<1> QED
  BY <1>1, <1>2, <1>3, <1>4, <1>5, <1>6, <1>7, <1>8, <1>9, <1>10 DEF FeedStep

-----------------------------------------------------------------------------
(***************************************************************************)
(* The lock of the machine.                                                *)
(***************************************************************************)

OneHolder == \A i, j \in Jobs : Holds(i) /\ Holds(j) => i = j

\* A workload that runs has left nothing behind, or it would not have the lock.
LInv ==
    /\ LockTypeOK
    /\ OneHolder
    /\ \A j \in Jobs : job[j] = "running" => j \notin children

LEMMA LockRests == ASSUME LInv, UNCHANGED lock PROVE LInv'
BY DEF LInv, LockTypeOK, OneHolder, Holds, lock

LEMMA LockSteps == ASSUME LInv, NEW j \in Jobs, LockStep(j) PROVE LInv'
<1>0. job \in [Jobs -> {"absent", "waiting", "running"}] /\ children \subseteq Jobs
  BY DEF LInv, LockTypeOK
<1>1. CASE Arrive(j)
  BY <1>0, <1>1 DEF LInv, LockTypeOK, OneHolder, Holds, Arrive
<1>2. CASE Acquire(j)
  BY <1>0, <1>2 DEF LInv, LockTypeOK, OneHolder, Holds, Acquire, Free
<1>3. CASE TimeOut(j)
  BY <1>0, <1>3 DEF LInv, LockTypeOK, OneHolder, Holds, TimeOut
<1>4. CASE ChildrenEnd(j)
  BY <1>0, <1>4 DEF LInv, LockTypeOK, OneHolder, Holds, ChildrenEnd
<1>5. ASSUME NEW behind \in BOOLEAN, Leave(j, behind) PROVE LInv'
  BY <1>0, <1>5 DEF LInv, LockTypeOK, OneHolder, Holds, Leave
<1> QED
  BY <1>1, <1>2, <1>3, <1>4, <1>5 DEF LockStep

-----------------------------------------------------------------------------
(***************************************************************************)
(* The mutation sessions.                                                  *)
(***************************************************************************)

FullNet == session # None /\ session.full /\ session.script = "net"

\* A report of this session, or of a Stryker that ran when the session began.
Own(s, by) == by = sessions \/ [suite |-> s, by |-> by] \in strays

\* A suite that was held rests on what its verdict names.
Measured(s) ==
    /\ verdict[s].of # None
    /\ verdict[s].of.tested
    /\ verdict[s].of.score >= Baseline[s]
    /\ Script[s] = session.script
    /\ FullNet => Own(s, verdict[s].of.by)

SessionOK ==
    session # None =>
        /\ outcome = None
        /\ session.left \subseteq Of(session.script) /\ session.held \subseteq Of(session.script)
        /\ session.suite # None => session.suite \in session.left
        /\ session.ok => Configured(session.script, session.breaks)
        /\ FullNet => session.held = Of("net")
        /\ FullNet /\ session.ok =>
              \A s \in Of("net") : s \in session.left \/ verdict[s].is = "held"
        /\ session.ok => \A s \in Suites : verdict[s].is = "held" => Measured(s)

\* In a full .NET session the report of the suite under way is its own, or that of
\* a Stryker left behind by a session before it; no other is at work.
OwnReport ==
    /\ session # None => orphans \subseteq strays
    /\ FullNet /\ session.suite # None /\ report[session.suite] # None
         => Own(session.suite, report[session.suite].by)

MInv == MutationTypeOK /\ SessionOK /\ OwnReport /\ HeldIsMeasured

LEMMA MutationRests == ASSUME MInv, UNCHANGED mutation PROVE MInv'
BY DEF MInv, MutationTypeOK, SessionOK, FullNet, Measured, Own, OwnReport, HeldIsMeasured, mutation

LEMMA NoVerdictsOK ==
    /\ NoVerdicts \in [Suites -> Verdict]
    /\ \A s \in Suites : NoVerdicts[s].is = "none"
BY DEF NoVerdicts, Verdict, Maybe

LEMMA SessionBegins ==
    ASSUME MInv, CheckoutTypeOK, NEW script \in {"net", "js"}, NEW full \in BOOLEAN,
           BeginSession(script, full)
    PROVE  /\ MInv'
           /\ session' \in Session /\ session'.script = script /\ session'.full = full
<1>1. PICK breaks \in [Suites -> 0 .. MaxScore], left \in SUBSET Suites, held \in SUBSET Suites :
        /\ Planned(script, full, left, held)
        /\ session' = [script |-> script, full |-> full, breaks |-> breaks,
                       held |-> held, left |-> left, suite |-> None,
                       exit |-> None, before |-> work,
                       ok |-> Configured(script, breaks)]
  BY DEF BeginSession
<1>2. /\ session' \in Session /\ session'.script = script /\ session'.full = full
      /\ session'.breaks = breaks /\ session'.held = held /\ session'.left = left
      /\ session'.suite = None /\ session'.ok = Configured(script, breaks)
  <2>1. breaks \in [Suites -> Nat] /\ work \in Trees
    BY BaselineAssumption DEF CheckoutTypeOK
  <2>2. Configured(script, breaks) \in BOOLEAN
    BY DEF Configured
  <2> QED
    BY <1>1, <2>1, <2>2 DEF Session, Maybe
<1>3. /\ sessions' = sessions + 1 /\ verdict' = NoVerdicts /\ outcome' = None
      /\ strays' = orphans /\ UNCHANGED <<orphans, report>>
  BY DEF BeginSession
<1>4. MutationTypeOK'
  BY <1>2, <1>3, NoVerdictsOK DEF MInv, MutationTypeOK, Maybe
<1>5. held \subseteq left /\ left \subseteq Of(script) /\ (script = "net" /\ full => held = Of("net"))
  BY <1>1 DEF Planned
<1>6. SessionOK'
  BY <1>2, <1>3, <1>5, NoVerdictsOK DEF SessionOK, FullNet, Of
<1> QED
  BY <1>2, <1>3, <1>4, <1>6 DEF MInv, OwnReport, HeldIsMeasured

LEMMA SuiteBegins ==
    ASSUME MInv, CheckoutTypeOK, NEW s \in Suites, BeginSuite(s)
    PROVE  MInv'
<1>1. /\ session # None /\ session \in Session /\ s \in session.left /\ work \in Trees
      /\ session' = [session EXCEPT !.suite = s, !.before = work]
      /\ UNCHANGED <<sessions, orphans, strays, verdict, outcome>>
  BY DEF MInv, MutationTypeOK, CheckoutTypeOK, BeginSuite, Between, Maybe
<1>2. /\ session' \in Session /\ session'.suite = s
      /\ session'.script = session.script /\ session'.full = session.full
      /\ session'.breaks = session.breaks /\ session'.held = session.held
      /\ session'.left = session.left /\ session'.ok = session.ok
  BY <1>1 DEF Session, Maybe
<1>3. /\ report' \in [Suites -> Maybe(Report)]
      /\ Script[s] = "net" => report'[s] = None
  BY DEF MInv, MutationTypeOK, BeginSuite, Maybe
<1>4. Script[s] = session.script
  BY <1>1 DEF MInv, SessionOK, Of
<1>5. MutationTypeOK'
  BY <1>1, <1>2, <1>3 DEF MInv, MutationTypeOK, Maybe
<1>6. SessionOK'
  BY <1>1, <1>2 DEF MInv, SessionOK, FullNet, Measured, Own
<1>7. OwnReport'
  BY <1>1, <1>2, <1>3, <1>4 DEF MInv, OwnReport, FullNet
<1> QED
  BY <1>1, <1>5, <1>6, <1>7 DEF MInv, HeldIsMeasured

\* A Stryker that ends writes a report of its own, or none.
LEMMA WritesOK ==
    ASSUME MInv, CheckoutTypeOK, NEW s \in Suites, NEW by \in Nat, Writes(s, by)
    PROVE  /\ report' \in [Suites -> Maybe(Report)]
           /\ CheckoutTypeOK'
           /\ \A t \in Suites : t # s => report'[t] = report[t]
           /\ report'[s] = report[s] \/ report'[s].by = by
<1>1. report \in [Suites -> Maybe(Report)]
  BY DEF MInv, MutationTypeOK
<1>2. CheckoutTypeOK'
  BY DEF CheckoutTypeOK, Writes
<1>3. CASE UNCHANGED report
  BY <1>1, <1>2, <1>3
<1>4. CASE \E tested \in BOOLEAN, score \in 0 .. MaxScore :
             report' = [report EXCEPT ![s] = [by |-> by, tested |-> tested, score |-> score]]
  <2>1. PICK tested \in BOOLEAN, score \in 0 .. MaxScore :
          report' = [report EXCEPT ![s] = [by |-> by, tested |-> tested, score |-> score]]
    BY <1>4
  <2>2. [by |-> by, tested |-> tested, score |-> score] \in Report
    BY BaselineAssumption DEF Report
  <2> QED
    BY <1>1, <1>2, <2>1, <2>2 DEF Maybe
<1> QED
  BY <1>3, <1>4 DEF Writes

LEMMA StrykerEndsOK ==
    ASSUME MInv, CheckoutTypeOK, StrykerEnds
    PROVE  MInv' /\ CheckoutTypeOK'
<1>1. PICK clean \in BOOLEAN : session' = [session EXCEPT !.exit = clean]
  BY DEF StrykerEnds
<1>2. /\ session # None /\ session \in Session /\ session.suite \in Suites
      /\ sessions \in Nat /\ UNCHANGED <<sessions, orphans, strays, verdict, outcome>>
  BY DEF MInv, MutationTypeOK, StrykerEnds, StrykerRuns, Session, Maybe
<1>3. /\ session' \in Session /\ session'.suite = session.suite
      /\ session'.script = session.script /\ session'.full = session.full
      /\ session'.breaks = session.breaks /\ session'.held = session.held
      /\ session'.left = session.left /\ session'.ok = session.ok
  BY <1>1, <1>2 DEF Session, Maybe
<1>4. /\ report' \in [Suites -> Maybe(Report)]
      /\ CheckoutTypeOK'
      /\ \/ report'[session.suite] = report[session.suite]
         \/ report'[session.suite].by = sessions
  BY <1>2, WritesOK DEF StrykerEnds
<1>5. MutationTypeOK'
  BY <1>2, <1>3, <1>4 DEF MInv, MutationTypeOK, Maybe
<1>6. SessionOK'
  BY <1>2, <1>3 DEF MInv, SessionOK, FullNet, Measured, Own
<1>7. OwnReport'
  BY <1>2, <1>3, <1>4 DEF MInv, OwnReport, FullNet, Own
<1> QED
  BY <1>2, <1>4, <1>5, <1>6, <1>7 DEF MInv, HeldIsMeasured

LEMMA JudgedOK ==
    ASSUME MInv, session # None, session.suite # None,
           NEW is \in {"skipped", "passed", "held", "failed"}, NEW of \in Maybe(Report),
           Judged(is, of),
           is = "held" =>
               /\ of # None /\ of.tested /\ of.score >= session.breaks[session.suite]
               /\ FullNet => Own(session.suite, of.by),
           FullNet /\ is # "failed" => is = "held"
    PROVE  MInv'
<1>0. session \in Session /\ session.suite \in Suites /\ session.suite \in session.left
  BY DEF MInv, MutationTypeOK, SessionOK, Session, Maybe
<1>1. PICK s \in Suites : s = session.suite
  BY <1>0
<1>2. /\ session' = [session EXCEPT !.suite = None, !.exit = None, !.left = session.left \ {s},
                                    !.ok = (session.ok /\ is # "failed")]
      /\ verdict' = [verdict EXCEPT ![s] = [is |-> is, of |-> of]]
      /\ UNCHANGED <<sessions, orphans, strays, report, outcome>>
  BY <1>1 DEF Judged
<1>3. /\ session' \in Session /\ session'.suite = None
      /\ session'.script = session.script /\ session'.full = session.full
      /\ session'.breaks = session.breaks /\ session'.held = session.held
      /\ session'.left = session.left \ {s} /\ session'.ok = (session.ok /\ is # "failed")
  <2> DEFINE ok == session.ok /\ is # "failed"
             left == session.left \ {s}
  <2>1. ok \in BOOLEAN /\ left \in SUBSET Suites
    BY <1>0 DEF Session
  <2>2. session' = [session EXCEPT !.suite = None, !.exit = None, !.left = left, !.ok = ok]
    BY <1>2
  <2> HIDE DEF ok, left
  <2>3. session' \in Session
    BY <1>0, <2>1, <2>2 DEF Session, Maybe
  <2>4. /\ session'.suite = None /\ session'.left = left /\ session'.ok = ok
        /\ session'.script = session.script /\ session'.full = session.full
        /\ session'.breaks = session.breaks /\ session'.held = session.held
    BY <1>0, <2>2 DEF Session
  <2> QED
    BY <2>3, <2>4 DEF ok, left
<1>4. /\ verdict' \in [Suites -> Verdict]
      /\ verdict'[s].is = is /\ verdict'[s].of = of
      /\ \A t \in Suites : t # s => verdict'[t] = verdict[t]
  <2>1. [is |-> is, of |-> of] \in Verdict
    BY DEF Verdict
  <2> QED
    BY <1>2, <2>1 DEF MInv, MutationTypeOK
<1>5. MutationTypeOK'
  BY <1>2, <1>3, <1>4 DEF MInv, MutationTypeOK, Maybe
<1>6. Script[s] = session.script
  BY <1>0, <1>1 DEF MInv, SessionOK, Of
<1>7. session.ok /\ is = "held" => of.score >= Baseline[s]
  <2> SUFFICES ASSUME session.ok, is = "held" PROVE of.score >= Baseline[s]
    OBVIOUS
  <2>1. session.breaks[s] >= Baseline[s]
    BY <1>6 DEF MInv, SessionOK, Configured, Of
  <2>2. of.score \in Nat /\ session.breaks[s] \in Nat /\ Baseline[s] \in Nat
    BY <1>0, BaselineAssumption DEF Maybe, Report, Session
  <2> QED
    BY <1>1, <2>1, <2>2
<1>8. ASSUME session.ok, is # "failed", NEW t \in Suites, verdict'[t].is = "held"
      PROVE  Measured(t)'
  <2>1. CASE t = s
    BY <1>1, <1>2, <1>3, <1>4, <1>6, <1>7, <1>8, <2>1 DEF Measured, FullNet, Own
  <2>2. CASE t # s
    <3>1. verdict'[t] = verdict[t] /\ Measured(t)
      BY <1>4, <1>8, <2>2 DEF MInv, SessionOK
    <3> QED
      BY <1>2, <1>3, <3>1 DEF Measured, FullNet, Own
  <2> QED
    BY <2>1, <2>2
<1>9. SessionOK'
  <2>1. FullNet' => FullNet
    BY <1>3 DEF FullNet
  <2>2. FullNet /\ session.ok /\ is # "failed" =>
          \A t \in Of("net") : t \in session.left \ {s} \/ verdict'[t].is = "held"
    BY <1>4 DEF MInv, SessionOK, Of
  <2>3. /\ outcome' = None
        /\ session.left \subseteq Of(session.script) /\ session.held \subseteq Of(session.script)
        /\ session.ok => Configured(session.script, session.breaks)
        /\ FullNet => session.held = Of("net")
    BY <1>2 DEF MInv, SessionOK
  <2> QED
    BY <1>3, <1>8, <2>1, <2>2, <2>3 DEF SessionOK
<1>10. OwnReport' /\ HeldIsMeasured'
  BY <1>2, <1>3 DEF MInv, SessionOK, OwnReport, HeldIsMeasured
<1> QED
  BY <1>5, <1>9, <1>10 DEF MInv

LEMMA JudgeOK == ASSUME MInv, Judge \/ JudgeEmpty PROVE MInv'
<1>0. /\ session # None /\ session.suite # None /\ session \in Session
      /\ session.suite \in Suites /\ session.suite \in session.left
  BY DEF MInv, MutationTypeOK, SessionOK, Judge, JudgeEmpty, StrykerEnded, Session, Maybe
<1>1. CASE JudgeEmpty
  BY <1>0, <1>1, JudgedOK DEF JudgeEmpty, FullNet, Maybe
<1>2. CASE Judge /\ ~Passes(session.suite)
  <2>1. Judged("failed", None) /\ None \in Maybe(Report)
    BY <1>2 DEF Judge, Maybe
  <2> QED
    BY <1>0, <2>1, JudgedOK
<1>3. CASE Judge /\ Passes(session.suite)
  <2>1. PICK s \in Suites : s = session.suite
    BY <1>0
  <2>2. /\ report[s] \in Maybe(Report) /\ report[s] # None /\ report[s].tested
        /\ s \in session.held => report[s].score >= session.breaks[s]
        /\ FullNet => Own(s, report[s].by)
    BY <1>0, <1>3, <2>1 DEF MInv, MutationTypeOK, OwnReport, Passes
  <2>3. FullNet => s \in session.held
    BY <1>0, <2>1 DEF MInv, SessionOK, FullNet
  <2>4. CASE s \in session.held
    <3>1. Judged("held", report[s])
      BY <1>3, <2>1, <2>4 DEF Judge
    <3> QED
      BY <1>0, <2>1, <2>2, <2>4, <3>1, JudgedOK
  <2>5. CASE s \notin session.held
    <3>1. Judged("passed", report[s])
      BY <1>3, <2>1, <2>5 DEF Judge
    <3> QED
      BY <1>0, <2>1, <2>2, <2>3, <2>5, <3>1, JudgedOK
  <2> QED
    BY <2>4, <2>5
<1> QED
  BY <1>1, <1>2, <1>3

LEMMA SessionEnds == ASSUME MInv, EndSession PROVE MInv'
<1>1. /\ session # None /\ session \in Session /\ session.left = {} /\ session' = None
      /\ outcome' = [script |-> session.script, full |-> session.full, ok |-> session.ok]
      /\ UNCHANGED <<sessions, orphans, strays, report, verdict>>
  BY DEF MInv, MutationTypeOK, EndSession, Between, Maybe
<1>2. MutationTypeOK'
  BY <1>1 DEF MInv, MutationTypeOK, Session, Maybe
<1>3. HeldIsMeasured'
  <2>1. /\ outcome'.script = session.script /\ outcome'.full = session.full
        /\ outcome'.ok = session.ok
    BY <1>1
  <2>2. session.ok /\ FullNet => \A s \in Of("net") : verdict[s].is = "held"
    BY <1>1 DEF MInv, SessionOK
  <2>3. session.ok => \A s \in Suites : verdict[s].is = "held" => Measured(s)
    BY <1>1 DEF MInv, SessionOK
  <2>4. session.script \in {"net", "js"}
    BY <1>1 DEF Session
  <2> QED
    BY <1>1, <2>1, <2>2, <2>3, <2>4 DEF HeldIsMeasured, Measured, FullNet, Own
<1> QED
  BY <1>1, <1>2, <1>3 DEF MInv, SessionOK, OwnReport, FullNet

LEMMA Killed == ASSUME MInv, NEW orphaned \in BOOLEAN, Kill(orphaned) PROVE MInv'
<1>1. session' = None /\ outcome' = None /\ UNCHANGED <<sessions, strays, report, verdict>>
  BY DEF Kill
<1>2. orphans' \subseteq [suite : Suites, by : Nat]
  <2>1. orphaned => session.suite \in Suites
    BY DEF MInv, MutationTypeOK, Kill, StrykerRuns, Session, Maybe
  <2> QED
    BY <2>1 DEF MInv, MutationTypeOK, Kill
<1>3. MutationTypeOK'
  BY <1>1, <1>2 DEF MInv, MutationTypeOK, Maybe
<1> QED
  BY <1>1, <1>3 DEF MInv, SessionOK, OwnReport, FullNet, HeldIsMeasured

\* What is left of an earlier session may write what this one reads.
LEMMA OrphanEndsOK ==
    ASSUME MInv, CheckoutTypeOK, NEW o \in orphans, OrphanEnds(o)
    PROVE  MInv' /\ CheckoutTypeOK'
<1>1. /\ o.suite \in Suites /\ o.by \in Nat /\ o = [suite |-> o.suite, by |-> o.by]
      /\ orphans' = orphans \ {o} /\ UNCHANGED <<session, sessions, strays, verdict, outcome>>
  BY DEF MInv, MutationTypeOK, OrphanEnds
<1>2. /\ report' \in [Suites -> Maybe(Report)] /\ CheckoutTypeOK'
      /\ \A t \in Suites : \/ report'[t] = report[t]
                           \/ t = o.suite /\ report'[t].by = o.by
  BY <1>1, WritesOK DEF OrphanEnds
<1>3. MutationTypeOK'
  BY <1>1, <1>2 DEF MInv, MutationTypeOK
<1>4. SessionOK'
  BY <1>1 DEF MInv, SessionOK, FullNet, Measured, Own
<1>5. OwnReport'
  <2>1. session # None => o \in strays
    BY DEF MInv, OwnReport
  <2>2. session # None /\ session.suite # None => session.suite \in Suites
    BY DEF MInv, MutationTypeOK, Session, Maybe
  <2> QED
    BY <1>1, <1>2, <2>1, <2>2 DEF MInv, OwnReport, FullNet, Own
<1> QED
  BY <1>1, <1>2, <1>3, <1>4, <1>5 DEF MInv, HeldIsMeasured

LEMMA SessionSteps ==
    ASSUME MInv, CheckoutTypeOK, SessionStep
    PROVE  MInv' /\ CheckoutTypeOK'
<1>1. ASSUME NEW s \in Suites, BeginSuite(s), UNCHANGED checkout PROVE MInv' /\ CheckoutTypeOK'
  BY <1>1, SuiteBegins DEF CheckoutTypeOK, checkout
<1>2. CASE (Judge \/ JudgeEmpty) /\ UNCHANGED checkout
  BY <1>2, JudgeOK DEF CheckoutTypeOK, checkout
<1>3. CASE StrykerEnds
  BY <1>3, StrykerEndsOK
<1> QED
  BY <1>1, <1>2, <1>3 DEF SessionStep

LEMMA SessionStays ==
    ASSUME MInv, CheckoutTypeOK, SessionStep
    PROVE  /\ session # None /\ session \in Session /\ session' \in Session
           /\ session'.full = session.full /\ session'.script = session.script
<1>1. session # None /\ session \in Session
  BY DEF MInv, MutationTypeOK, Maybe, SessionStep, BeginSuite, Judge, JudgeEmpty,
     StrykerEnds, Between, StrykerEnded, StrykerRuns
<1> DEFINE Stays == /\ session' \in Session
                    /\ session'.full = session.full /\ session'.script = session.script
<1>2. Stays
  <2>1. ASSUME NEW s \in Suites, BeginSuite(s) PROVE Stays
    BY <1>1, <2>1 DEF MInv, CheckoutTypeOK, BeginSuite, Session, Maybe
  <2>2. ASSUME NEW is \in {"skipped", "passed", "held", "failed"}, NEW of, Judged(is, of)
        PROVE  Stays
    <3> DEFINE ok == session.ok /\ is # "failed"
               left == session.left \ {session.suite}
    <3>1. session' = [session EXCEPT !.suite = None, !.exit = None, !.left = left, !.ok = ok]
      BY <2>2 DEF Judged
    <3>2. ok \in BOOLEAN /\ left \in SUBSET Suites
      BY <1>1 DEF Session
    <3> HIDE DEF ok, left
    <3> QED
      BY <1>1, <3>1, <3>2 DEF Session, Maybe
  <2>3. CASE StrykerEnds
    BY <1>1, <2>3 DEF StrykerEnds, Session, Maybe
  <2> QED
    BY <2>1, <2>2, <2>3 DEF SessionStep, Judge, JudgeEmpty
<1> QED
  BY <1>1, <1>2

-----------------------------------------------------------------------------
(***************************************************************************)
(* All the benches.                                                        *)
(***************************************************************************)

\* On the reserved machine a session runs under the lock; elsewhere there is no
\* full .NET session.
Reserved ==
    /\ bench # "reserved" => ~FullNet
    /\ bench = "reserved" /\ session # None => FullNet /\ Holds(Ours)

HInv ==
    /\ bench \in Benches
    /\ VInv /\ PInv /\ FInv /\ LInv /\ MInv /\ RInv
    /\ bench # "verify" => run = NoRun
    /\ Reserved

LEMMA ToolingInit == ASSUME Init PROVE HInv
<1>1. CheckoutTypeOK
  <2>1. head \in Commit
    BY DEF Init, CheckoutInit, Commit
  <2> QED
    BY <2>1 DEF Init, CheckoutInit, CheckoutTypeOK, Commit
<1>2. VInv
  <2>1. VerificationTypeOK
    BY NoRunOK DEF Init, VerificationInit, VerificationTypeOK, Maybe
  <2> QED
    BY <1>1, <2>1, NoRunOK DEF Init, VerificationInit, VInv, CalmRun
<1>3. PInv
  <2>1. Nothing \in [Ids -> Maybe(Bytes)]
    BY DEF Nothing, Maybe
  <2> QED
    BY <2>1 DEF Init, PackageInit, PInv, PackageTypeOK, Proven, PromotedWasConsumed, Maybe
<1>4. FInv
  BY FeedsBegin DEF Init
<1>5. LInv
  BY DEF Init, LockInit, LInv, LockTypeOK, OneHolder, Holds
<1>6. MInv
  <2>1. [s \in Suites |-> None] \in [Suites -> Maybe(Report)]
    BY DEF Maybe
  <2> QED
    BY <2>1, NoVerdictsOK
       DEF Init, MutationInit, MInv, MutationTypeOK, SessionOK, OwnReport, FullNet,
           HeldIsMeasured, Maybe
<1>7. Reserved /\ bench \in Benches /\ run = NoRun
  BY DEF Init, MutationInit, Reserved, FullNet, VerificationInit
<1>8. RInv
  BY ReviewBegins, HeadsAssumption DEF Init
<1> QED
  BY <1>2, <1>3, <1>4, <1>5, <1>6, <1>7, <1>8 DEF HInv

LEMMA FeedsBenchStep == ASSUME HInv, FeedsBench PROVE HInv'
<1>1. FInv'
  BY FeedSteps DEF HInv, FeedsBench
<1>2. /\ UNCHANGED checkout /\ UNCHANGED verification /\ UNCHANGED proofs /\ UNCHANGED lock
      /\ UNCHANGED mutation /\ UNCHANGED review /\ bench' = bench
  BY DEF FeedsBench
<1>3. VInv'
  BY <1>2, VerificationRests DEF HInv, VInv, CheckoutTypeOK, checkout
<1>4. PInv' /\ LInv' /\ MInv' /\ RInv'
  BY <1>2, PackagesRest, LockRests, MutationRests, ReviewRests DEF HInv
<1>5. Reserved' /\ (bench # "verify" => run = NoRun)'
  BY <1>2 DEF HInv, Reserved, FullNet, Holds, lock, mutation, verification
<1> QED
  BY <1>1, <1>2, <1>3, <1>4, <1>5 DEF HInv

LEMMA VerifyBenchStep == ASSUME HInv, VerifyBench PROVE HInv'
<1>1. VInv'
  <2>1. CASE Verify /\ UNCHANGED checkout
    BY <2>1, VerificationStarts, VerificationSteps DEF HInv, Verify
  <2>2. CASE Disturb
    BY <2>2, VerificationDisturbed DEF HInv
  <2> QED
    BY <2>1, <2>2 DEF VerifyBench
<1>2. /\ UNCHANGED proofs /\ UNCHANGED feeds /\ UNCHANGED lock
      /\ UNCHANGED mutation /\ UNCHANGED review /\ bench' = bench /\ bench = "verify"
  BY DEF VerifyBench
<1>3. PInv' /\ FInv' /\ LInv' /\ MInv' /\ RInv'
  BY <1>2, PackagesRest, FeedsRest, LockRests, MutationRests, ReviewRests DEF HInv
<1>4. Reserved'
  BY <1>2 DEF HInv, Reserved, FullNet, Holds, lock, mutation
<1> QED
  BY <1>1, <1>2, <1>3, <1>4 DEF HInv

LEMMA PackageBenchStep == ASSUME HInv, PackageBench PROVE HInv'
<1>1. /\ UNCHANGED verification /\ UNCHANGED feeds /\ UNCHANGED lock
      /\ UNCHANGED mutation /\ UNCHANGED review /\ bench' = bench /\ bench = "package"
  BY DEF PackageBench
<1>2. CheckoutTypeOK /\ run = NoRun
  BY <1>1 DEF HInv, VInv
<1>3. PInv' /\ CheckoutTypeOK'
  <2>1. CASE (Pack \/ PackageStep) /\ UNCHANGED checkout
    BY <1>2, <2>1, PackStep, ConsumeSteps, VerifySteps
       DEF HInv, PackageStep, CheckoutTypeOK, checkout
  <2>2. CASE CheckoutStep /\ UNCHANGED proofs
    BY <1>2, <2>2, CheckoutStepOK, PackagesRest DEF HInv
  <2> QED
    BY <2>1, <2>2 DEF PackageBench
<1>4. VInv'
  BY <1>1, <1>2, <1>3, VerificationRests DEF HInv
<1>5. FInv' /\ LInv' /\ MInv' /\ RInv'
  BY <1>1, FeedsRest, LockRests, MutationRests, ReviewRests DEF HInv
<1>6. Reserved' /\ run' = NoRun
  BY <1>1, <1>2 DEF HInv, Reserved, FullNet, Holds, lock, mutation, verification
<1> QED
  BY <1>1, <1>3, <1>4, <1>5, <1>6 DEF HInv

LEMMA MutateBenchStep == ASSUME HInv, MutateBench PROVE HInv'
<1>1. /\ UNCHANGED verification /\ UNCHANGED proofs /\ UNCHANGED feeds
      /\ UNCHANGED lock /\ UNCHANGED review /\ bench' = bench /\ bench = "mutate"
  BY DEF MutateBench
<1>2. CheckoutTypeOK /\ run = NoRun /\ MInv /\ ~FullNet
  BY <1>1 DEF HInv, VInv, Reserved
<1>3. MInv' /\ CheckoutTypeOK' /\ ~FullNet'
  <2>1. CASE BeginSession("net", FALSE) /\ UNCHANGED checkout
    <3>1. ~FullNet'
      BY <2>1 DEF BeginSession, FullNet
    <3> QED
      BY <1>2, <2>1, <3>1, SessionBegins DEF CheckoutTypeOK, checkout
  <2>2. ASSUME NEW full \in BOOLEAN, BeginSession("js", full), UNCHANGED checkout
        PROVE  MInv' /\ CheckoutTypeOK' /\ ~FullNet'
    <3>1. ~FullNet'
      BY <2>2 DEF BeginSession, FullNet
    <3> QED
      BY <1>2, <2>2, <3>1, SessionBegins DEF CheckoutTypeOK, checkout
  <2>3. CASE EndSession /\ UNCHANGED checkout
    BY <1>2, <2>3, SessionEnds DEF CheckoutTypeOK, checkout, EndSession, FullNet
  <2>4. ASSUME NEW orphaned \in BOOLEAN, Kill(orphaned), UNCHANGED checkout
        PROVE  MInv' /\ CheckoutTypeOK' /\ ~FullNet'
    BY <1>2, <2>4, Killed DEF CheckoutTypeOK, checkout, Kill, FullNet
  <2>5. CASE SessionStep
    BY <1>2, <2>5, SessionStays, SessionSteps DEF FullNet
  <2>6. ASSUME NEW o \in orphans, OrphanEnds(o) PROVE MInv' /\ CheckoutTypeOK' /\ ~FullNet'
    BY <1>2, <2>6, OrphanEndsOK DEF OrphanEnds, FullNet
  <2>7. CASE CheckoutStep /\ UNCHANGED mutation
    BY <1>2, <2>7, CheckoutStepOK, MutationRests DEF FullNet, mutation
  <2> QED
    BY <2>1, <2>2, <2>3, <2>4, <2>5, <2>6, <2>7 DEF MutateBench
<1>4. VInv'
  BY <1>1, <1>2, <1>3, VerificationRests DEF HInv
<1>5. PInv' /\ FInv' /\ LInv' /\ RInv'
  BY <1>1, PackagesRest, FeedsRest, LockRests, ReviewRests DEF HInv
<1>6. Reserved' /\ run' = NoRun
  BY <1>1, <1>2, <1>3 DEF Reserved, verification
<1> QED
  BY <1>1, <1>3, <1>4, <1>5, <1>6 DEF HInv

LEMMA ReservedBenchStep == ASSUME HInv, ReservedBench PROVE HInv'
<1>1. /\ UNCHANGED verification /\ UNCHANGED proofs /\ UNCHANGED feeds
      /\ UNCHANGED review /\ bench' = bench /\ bench = "reserved"
  BY DEF ReservedBench
<1>2. /\ CheckoutTypeOK /\ run = NoRun /\ MInv /\ LInv
      /\ session # None => FullNet /\ Holds(Ours)
  BY <1>1 DEF HInv, VInv, Reserved
<1> DEFINE Kept == session # None => FullNet /\ Holds(Ours)
<1>3. MInv' /\ LInv' /\ CheckoutTypeOK' /\ Kept'
  <2>1. CASE BeginReserved
    <3>1. FullNet' /\ Holds(Ours)'
      <4>1. session' # None /\ session'.full /\ session'.script = "net"
        BY <1>2, <2>1, AbsentReportAssumption, SessionBegins DEF BeginReserved
      <4> QED
        BY <2>1, <4>1 DEF BeginReserved, FullNet, Holds, lock
    <3> QED
      BY <1>2, <2>1, <3>1, SessionBegins, LockRests
         DEF BeginReserved, CheckoutTypeOK, checkout
  <2>2. CASE LeaveReserved
    <3>1. CheckoutTypeOK'
      BY <1>2, <2>2 DEF LeaveReserved, CheckoutTypeOK, checkout
    <3>2. CASE Leave(Ours, FALSE) /\ SessionOver
      <4>1. MInv' /\ LInv' /\ session' = None
        BY <1>2, <3>2, SessionEnds, Killed, LockSteps, OursAssumption
           DEF LockStep, SessionOver, EndSession, Kill
      <4> QED
        BY <3>1, <4>1
    <3>3. CASE session # None /\ Leave(Ours, TRUE) /\ UNCHANGED mutation
      <4>1. MInv' /\ LInv'
        BY <1>2, <3>3, MutationRests, LockSteps, OursAssumption DEF LockStep
      <4> QED
        BY <1>2, <3>1, <3>3, <4>1 DEF Leave, Holds, FullNet, mutation
    <3>4. ASSUME NEW behind \in BOOLEAN, session = None, Leave(Ours, behind), UNCHANGED mutation
          PROVE  MInv' /\ LInv' /\ Kept'
      <4>1. MInv' /\ LInv'
        BY <1>2, <3>4, MutationRests, LockSteps, OursAssumption DEF LockStep
      <4> QED
        BY <3>4, <4>1 DEF mutation
    <3> QED
      BY <2>2, <3>1, <3>2, <3>3, <3>4 DEF LeaveReserved
  <2>3. CASE LeftEnds
    <3>1. LInv' /\ CheckoutTypeOK'
      BY <1>2, <2>3, LockSteps, OursAssumption DEF LeftEnds, LockStep, CheckoutTypeOK, checkout
    <3>2. MInv' /\ session' = None
      BY <1>2, <2>3, SessionEnds, Killed, MutationRests
         DEF LeftEnds, SessionOver, EndSession, Kill, mutation
    <3> QED
      BY <3>1, <3>2
  <2>4. CASE SessionStep /\ UNCHANGED lock
    <3>1. MInv' /\ CheckoutTypeOK' /\ LInv'
      BY <1>2, <2>4, SessionSteps, LockRests
    <3>2. /\ session # None /\ session \in Session /\ session' # None
          /\ session'.full = session.full /\ session'.script = session.script
      <4>1. session # None /\ session \in Session /\ session' \in Session
            /\ session'.full = session.full /\ session'.script = session.script
        BY <1>2, <2>4, SessionStays
      <4> QED
        BY <4>1, AbsentReportAssumption
    <3> QED
      BY <1>2, <2>4, <3>1, <3>2 DEF FullNet, Holds, lock
  <2>5. ASSUME NEW o \in orphans, OrphanEnds(o), UNCHANGED lock
        PROVE  MInv' /\ LInv' /\ CheckoutTypeOK' /\ Kept'
    BY <1>2, <2>5, OrphanEndsOK, LockRests DEF OrphanEnds, FullNet, Holds, lock
  <2>6. CASE Waits(Ours) /\ UNCHANGED <<mutation, checkout>>
    <3>1. MInv' /\ LInv' /\ CheckoutTypeOK'
      BY <1>2, <2>6, MutationRests, LockSteps, OursAssumption
         DEF Waits, LockStep, CheckoutTypeOK, checkout
    <3>2. Holds(Ours) => Holds(Ours)'
      BY <1>2, <2>6, OursAssumption DEF Waits, Arrive, Acquire, TimeOut, Holds
    <3> QED
      BY <1>2, <2>6, <3>1, <3>2 DEF FullNet, mutation
  <2>7. ASSUME NEW j \in Jobs \ {Ours}, LockStep(j), UNCHANGED <<mutation, checkout>>
        PROVE  MInv' /\ LInv' /\ CheckoutTypeOK' /\ Kept'
    <3>1. MInv' /\ LInv' /\ CheckoutTypeOK'
      BY <1>2, <2>7, MutationRests, LockSteps DEF CheckoutTypeOK, checkout
    <3>2. Holds(Ours) => Holds(Ours)'
      BY <1>2, <2>7, OursAssumption
         DEF LInv, LockTypeOK, LockStep, Arrive, Acquire, TimeOut, ChildrenEnd, Leave, Holds
    <3> QED
      BY <1>2, <2>7, <3>1, <3>2 DEF FullNet, mutation
  <2> QED
    BY <2>1, <2>2, <2>3, <2>4, <2>5, <2>6, <2>7 DEF ReservedBench
<1>4. VInv'
  BY <1>1, <1>2, <1>3, VerificationRests DEF HInv
<1>5. PInv' /\ FInv' /\ RInv'
  BY <1>1, PackagesRest, FeedsRest, ReviewRests DEF HInv
<1>6. Reserved' /\ run' = NoRun
  BY <1>1, <1>2, <1>3 DEF Reserved, verification
<1> QED
  BY <1>1, <1>3, <1>4, <1>5, <1>6 DEF HInv

LEMMA ReviewBenchStep == ASSUME HInv, ReviewBench PROVE HInv'
<1>1. RInv'
  BY ReviewSteps DEF HInv, ReviewBench
<1>2. /\ UNCHANGED checkout /\ UNCHANGED verification /\ UNCHANGED proofs
      /\ UNCHANGED feeds /\ UNCHANGED lock /\ UNCHANGED mutation /\ bench' = bench
  BY DEF ReviewBench
<1>3. VInv'
  BY <1>2, VerificationRests DEF HInv, VInv, CheckoutTypeOK, checkout
<1>4. PInv' /\ FInv' /\ LInv' /\ MInv'
  BY <1>2, PackagesRest, FeedsRest, LockRests, MutationRests DEF HInv
<1>5. Reserved' /\ (bench # "verify" => run = NoRun)'
  BY <1>2 DEF HInv, Reserved, FullNet, Holds, lock, mutation, verification
<1> QED
  BY <1>1, <1>2, <1>3, <1>4, <1>5 DEF HInv

LEMMA ToolingRests == ASSUME HInv, UNCHANGED all PROVE HInv'
<1>1. /\ UNCHANGED checkout /\ UNCHANGED verification /\ UNCHANGED proofs
      /\ UNCHANGED feeds /\ UNCHANGED lock /\ UNCHANGED mutation
      /\ UNCHANGED review /\ bench' = bench
  BY DEF all
<1>2. VInv'
  BY <1>1, VerificationRests DEF HInv, VInv, CheckoutTypeOK, checkout
<1>3. PInv' /\ FInv' /\ LInv' /\ MInv' /\ RInv'
  BY <1>1, PackagesRest, FeedsRest, LockRests, MutationRests, ReviewRests DEF HInv
<1>4. Reserved' /\ (bench # "verify" => run = NoRun)'
  BY <1>1 DEF HInv, Reserved, FullNet, Holds, lock, mutation, verification
<1> QED
  BY <1>1, <1>2, <1>3, <1>4 DEF HInv

-----------------------------------------------------------------------------
(***************************************************************************)
(* The theorems.                                                           *)
(***************************************************************************)

\* The inductive invariant of the scripts holds throughout.
THEOREM ToolingInvariance == Spec => []HInv
<1>1. Init => HInv
  BY ToolingInit
<1>2. HInv /\ [Next]_all => HInv'
  BY FeedsBenchStep, VerifyBenchStep, PackageBenchStep, MutateBenchStep,
     ReservedBenchStep, ReviewBenchStep, ToolingRests DEF Next
<1> QED
  BY <1>1, <1>2, PTL DEF Spec

\* Every variable of the scripts keeps its type.
THEOREM ToolingTypes == Spec => []TypeOK
<1>1. HInv => TypeOK
  BY DEF HInv, VInv, PInv, FInv, LInv, MInv, RInv, TypeOK
<1> QED
  BY <1>1, ToolingInvariance, PTL

\* No receipt vouches for a tree its calm run did not read (verify-receipt.mjs).
THEOREM ReceiptsAreHonest == Spec => []ReceiptIsHonest
<1>1. HInv => ReceiptIsHonest
  BY DEF HInv, VInv, Honest, ReceiptIsHonest
<1> QED
  BY <1>1, ToolingInvariance, PTL

\* No package is promoted that no consumer ran (package-proof.py).
THEOREM PromotedWereConsumed == Spec => []PromotedWasConsumed
<1>1. HInv => PromotedWasConsumed
  BY DEF HInv, PInv
<1> QED
  BY <1>1, ToolingInvariance, PTL

\* What a restore quotes it finds whole, and what holds the definitions holds the
\* rest, unless a build is or stopped amid the files (build-local-feed.mjs).
THEOREM FeedsAreWhole == Spec => []FeedIsWhole
<1>1. HInv => FeedIsWhole
  BY DEF HInv, FInv
<1> QED
  BY <1>1, ToolingInvariance, PTL

\* A full .NET session that passed held every suite to its baseline, by a report
\* of its own or of a Stryker that an earlier session left at work (stryker.mjs).
THEOREM HeldAreMeasured == Spec => []HeldIsMeasured
<1>1. HInv => HeldIsMeasured
  BY DEF HInv, MInv
<1> QED
  BY <1>1, ToolingInvariance, PTL

\* The full session shares the machine with no other workload, also when its shell
\* is gone (host-workload-lock.py).
THEOREM SessionsAreReserved == Spec => []SessionIsReserved
<1>1. HInv => SessionIsReserved
  BY OursAssumption DEF HInv, LInv, OneHolder, Reserved, SessionIsReserved
<1> QED
  BY <1>1, ToolingInvariance, PTL

\* A success stands only on a head that some review has passed against a base the
\* run knew, or that needs none (review-gate.sh).
THEOREM PassesAreEarned == Spec => []PassIsEarned
<1>1. HInv => PassIsEarned
  BY DEF HInv, RInv
<1> QED
  BY <1>1, ToolingInvariance, PTL

\* A success that stands on a risky head, by that head's own files, has a clean
\* security review behind it (review-gate.sh).
THEOREM RiskyAreSecured == Spec => []RiskyIsSecured
<1>1. HInv => RiskyIsSecured
  BY DEF HInv, RInv
<1> QED
  BY <1>1, ToolingInvariance, PTL

\* Only a head a run has passed, and a review unless its files need none, is
\* armed (review-gate-arm.sh).
THEOREM ArmedWereReviewed == Spec => []ArmedWasReviewed
<1>1. HInv => ArmedWasReviewed
  BY DEF HInv, RInv, ArmedOK, ArmedWasReviewed
<1> QED
  BY <1>1, ToolingInvariance, PTL

=============================================================================
