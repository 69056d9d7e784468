---------------------------- MODULE MCHostTooling ----------------------------
(* A small instance of HostTooling. *)
EXTENDS HostTooling, TLC

CONSTANTS test, restore, cover,     \* steps of the verification
          ui, core,                 \* projects that are packed for the feeds
          ours, theirs,             \* assemblies
          api, react,               \* suites
          notes, code, workflow     \* heads of a pull request

MCOrder == <<test, restore, cover>>
MCProducers == [p \in {ui, core} |-> ours]
MCScript == (api :> "net") @@ (react :> "js")
MCBaseline == [s \in {api, react} |-> 1]
MCChanges == (notes :> "exempt") @@ (code :> "plain") @@ (workflow :> "risky")

Symmetry ==
    Permutations(Trees) \cup Permutations(Versions) \cup Permutations(Bytes)
      \cup Permutations(Ids)

=============================================================================
