----------------------------- MODULE PackageProof -----------------------------
(***************************************************************************)
(* eng/package-proof.py: a clean consumer restores and runs the staged     *)
(* packages, a proof binds their bytes to the commit, a manifest seals     *)
(* both, and publication first verifies them again.  Other packs may put   *)
(* other bytes into the directory between any two of these, and between    *)
(* the two inventories either of them takes.                               *)
(*                                                                         *)
(* A definition whose name ends in Mutant is a plausible slip in the one   *)
(* after it; no action uses one.                                           *)
(***************************************************************************)
EXTENDS Checkout

CONSTANTS
    Ids,        \* the package ids (IDS)
    Bytes,      \* contents of a package
    MaxPacks    \* bound

ASSUME BytesAssumption == None \notin Bytes

VARIABLES
    staged,     \* the staged archive of each package
    packs,      \* the packs so far
    consumer,   \* consume, when it is under way
    proof,      \* consumer-proof.json
    manifest,   \* package-manifest.json
    verifier,   \* seal or verify, when it is under way
    promoted,   \* what the last verify accepted, which is what is published
    consumed    \* history: what a consumer has restored and run

proofs == <<staged, packs, consumer, proof, manifest, verifier, promoted, consumed>>

Packages == [Ids -> Bytes]

Proof == [source : Nat, packages : Packages]

PackageTypeOK ==
    /\ staged \in [Ids -> Maybe(Bytes)]
    /\ packs \in Nat
    /\ consumer \in Maybe([packages : Packages, source : Nat,
                           restored : [Ids -> Maybe(Bytes)], compared : BOOLEAN,
                           ran : BOOLEAN])
    /\ proof \in Maybe(Proof)
    /\ manifest \in Maybe([proof : Proof, packages : Packages])
    /\ verifier \in Maybe([seals : BOOLEAN, at : Nat])
    /\ promoted \in Maybe([packages : Packages, still : BOOLEAN])
    /\ consumed \subseteq Packages

Nothing == [id \in Ids |-> None]

PackageInit ==
    /\ staged = Nothing
    /\ packs = 0
    /\ consumer = None
    /\ proof = None
    /\ manifest = None
    /\ verifier = None
    /\ promoted = None
    /\ consumed = {}

\* Packing builds each archive anew.
Pack ==
    /\ packs < MaxPacks
    /\ packs' = packs + 1
    /\ \E id \in Ids, b \in Bytes : staged' = [staged EXCEPT ![id] = b]
    /\ UNCHANGED <<consumer, proof, manifest, verifier, promoted, consumed>>

\* An inventory needs every package and no other.
Inventoried == \A id \in Ids : staged[id] # None

-----------------------------------------------------------------------------
\* The old proof goes first; then the inventory, and what HEAD is.
BeginConsume ==
    /\ consumer = None
    /\ proof' = None
    /\ consumer' = IF Inventoried
                     THEN [packages |-> staged, source |-> head.commit,
                           restored |-> Nothing, compared |-> FALSE, ran |-> FALSE]
                     ELSE None
    /\ UNCHANGED <<staged, packs, manifest, verifier, promoted, consumed>>

\* The restore copies each archive into the consumer's own cache.
Restore(id) ==
    /\ consumer # None
    /\ consumer.restored[id] = None
    /\ staged[id] # None
    /\ consumer' = [consumer EXCEPT !.restored[id] = staged[id]]
    /\ UNCHANGED <<staged, packs, proof, manifest, verifier, promoted, consumed>>

RestoredMutant == consumer # None /\ \A id \in Ids : consumer.restored[id] # None

\* The archives in the cache, not the feed's copies, are the ones inventoried.
Restored == consumer # None /\ consumer.restored = consumer.packages

Compare ==
    /\ Restored
    /\ ~consumer.compared
    /\ consumer' = [consumer EXCEPT !.compared = TRUE]
    /\ UNCHANGED <<staged, packs, proof, manifest, verifier, promoted, consumed>>

RunConsumer ==
    /\ consumer # None
    /\ consumer.compared /\ ~consumer.ran
    /\ consumer' = [consumer EXCEPT !.ran = TRUE]
    /\ consumed' = consumed \cup {consumer.restored}
    /\ UNCHANGED <<staged, packs, proof, manifest, verifier, promoted>>

\* The proof is written if the directory still holds what was inventoried.
EndConsume ==
    /\ consumer # None
    /\ consumer.ran
    /\ staged = consumer.packages
    /\ proof' = [source |-> consumer.source, packages |-> consumer.packages]
    /\ consumer' = None
    /\ UNCHANGED <<staged, packs, manifest, verifier, promoted, consumed>>

\* A restore that took other bytes, a consumer that does not run, packages that
\* changed meanwhile: there is no proof any more.
FailConsume ==
    /\ consumer # None
    /\ consumer' = None
    /\ UNCHANGED <<staged, packs, proof, manifest, verifier, promoted, consumed>>

-----------------------------------------------------------------------------
\* Seal and verify begin alike: the proof is of this commit and of these bytes.
BeginVerify ==
    /\ verifier = None
    /\ proof # None
    /\ proof.source = head.commit
    /\ proof.packages = staged
    /\ \E seals \in BOOLEAN : verifier' = [seals |-> seals, at |-> packs]
    /\ UNCHANGED <<staged, packs, consumer, proof, manifest, promoted, consumed>>

\* What the manifest says is inventoried once more, and the proof is read again.
Manifest == [proof |-> proof, packages |-> staged]

\* still is history: nothing was packed since the first inventory.
Promotion == [packages |-> staged, still |-> packs = verifier.at]

EndVerify ==
    /\ verifier # None
    /\ proof # None /\ Inventoried
    /\ IF verifier.seals
         THEN manifest' = Manifest /\ UNCHANGED promoted
         ELSE /\ manifest = Manifest
              /\ promoted' = Promotion
              /\ UNCHANGED manifest
    /\ verifier' = None
    /\ UNCHANGED <<staged, packs, consumer, proof, consumed>>

FailVerify ==
    /\ verifier # None
    /\ verifier' = None
    /\ UNCHANGED <<staged, packs, consumer, proof, manifest, promoted, consumed>>

PackageStep ==
    \/ BeginConsume \/ (\E id \in Ids : Restore(id)) \/ Compare \/ RunConsumer
    \/ EndConsume \/ FailConsume \/ BeginVerify \/ EndVerify \/ FailVerify

-----------------------------------------------------------------------------
\* What is promoted is what a clean consumer restored and ran, byte for byte,
\* whatever other packs put into the directory before, during and after the
\* consumption and the sealing, unless one packed between the two inventories of
\* that last verification (the comparison in the consumer's cache, the one after
\* the consumer ran, and the proof's with the first inventory).
PromotedWasConsumed ==
    promoted # None /\ promoted.still => promoted.packages \in consumed

=============================================================================
