------------------------- MODULE SeededListPageProofs -------------------------
(***************************************************************************)
(* Proofs about SeededListPage, for every set of targets and rows and      *)
(* every value of the bounds.                                              *)
(***************************************************************************)
EXTENDS SeededListPage, TLAPS

(***************************************************************************)
(* The inductive invariant.  The properties speak of the list on the page; *)
(* what makes them inductive is what stays true of the reads on their way. *)
(***************************************************************************)

\* The active load is the latest one, and no read is of a load, or a revision,
\* that has yet to come.
ActiveLoad ==
    /\ target = None <=> request = None
    /\ request # None => request = loads
    /\ \A read \in reads : read.load =< loads /\ read.since =< revision

\* A load has one read on its way: its own, or the refresh an activation
\* awaits before the next can begin.
OneRead == \A r1, r2 \in reads : r1.load = r2.load => r1 = r2

\* The active load is answered into an empty page; its refresh finds the
\* activation waiting, and cannot bring rows older than the ones shown.
Awaited ==
    \A read \in reads : read.load = request =>
        IF read.kind = "load"
          THEN list = None /\ failed = None
          ELSE /\ command = "refreshing"
               /\ read.since >= promised
               /\ read.since >= list.revision

\* The workflow is on the page with the list, and what its activation
\* promised is listed unless the refresh is still on its way.
Working ==
    /\ list = None => command = "none" /\ promised = 0
    /\ list # None => list.revision =< revision
    /\ list # None /\ command # "refreshing" => list.revision >= promised

\* The error on the page is about what the shell shows.
OwnError == failed # None => failed = target

\* A selection that counts as restored was shown to the inspector.
Resolution == resolved = <<target, selected>> => inspected = selected

IInv ==
    /\ TypeOK
    /\ ListIsCurrent
    /\ WaitingIsAnswered
    /\ InspectorFollows
    /\ ActiveLoad
    /\ OneRead
    /\ Awaited
    /\ Working
    /\ OwnError
    /\ Resolution

-----------------------------------------------------------------------------
(***************************************************************************)
(* Parts of the actions.                                                   *)
(***************************************************************************)

\* A page sends reads of the load it makes, served from now on.
LEMMA ReadsType ==
    ASSUME NEW t, NEW n \in Nat, revision \in Nat
    PROVE  /\ ReadsOf(t, n) \subseteq Read
           /\ \A read \in ReadsOf(t, n) :
                read = [kind |-> "load", load |-> n, since |-> revision]
           /\ t \in Known => \E read \in ReadsOf(t, n) : read.kind = "load" /\ read.load = n
<1>1. t \in Known => [kind |-> "load", load |-> n, since |-> revision] \in ReadsOf(t, n)
  BY DEF ReadsOf
<1>2. QED
  BY <1>1 DEF ReadsOf, Read

\* Restoring shows the selection once it is listed, and nothing else.
LEMMA RestoreShows ==
    ASSUME Restore, IInv, selected' = selected, target' = target, list' # None,
           list' \in List, list'.target = target
    PROVE  /\ resolved' \in Maybe(Targets \X Rows) /\ inspected' \in Maybe(Rows)
           /\ InspectorFollows' /\ Resolution'
<1> USE DEF IInv, InspectorFollows, Resolution
<1>1. CASE selected = None
  BY <1>1, CatalogueOK DEF Restore, TypeOK, Maybe
<1>2. CASE selected # None /\ UNCHANGED <<resolved, inspected>>
  <2>1. target \in Targets
    BY CatalogueOK DEF List
  <2>2. InspectorFollows'
    BY <1>2, <2>1 DEF Restore
  <2>3. QED
    BY <1>2, <2>2 DEF TypeOK
<1>3. CASE selected # None /\ resolved' = <<target, selected>> /\ inspected' = selected
  BY <1>3 DEF TypeOK, Maybe, List
<1>4. QED
  BY <1>1, <1>2, <1>3 DEF Restore

-----------------------------------------------------------------------------
(***************************************************************************)
(* The invariant is kept.                                                  *)
(***************************************************************************)

\* A load that starts outdates every read on its way.
LEMMA LoadStep ==
    ASSUME IInv, NEW t \in Targets, Load(t), target' = t, selected' \in Maybe(Rows),
           inspected' \in Maybe(Rows), resolved' = None,
           inspected' # None => inspected' = selected'
    PROVE  IInv'
<1> USE DEF Load
<1>1. loads' \in Nat /\ revision \in Nat /\ loads' = loads + 1
  BY DEF IInv, TypeOK
<1>2. TypeOK'
  BY <1>1, ReadsType, CatalogueOK DEF IInv, TypeOK, Maybe
<1>3. ListIsCurrent' /\ InspectorFollows' /\ Working' /\ OwnError'
  BY <1>1 DEF ListIsCurrent, InspectorFollows, Operable, Working, OwnError
<1>4. WaitingIsAnswered'
  BY <1>1, ReadsType, CatalogueOK DEF WaitingIsAnswered
<1>5. \A read \in reads : read.load < loads'
  BY <1>1 DEF IInv, TypeOK, ActiveLoad, Read
<1>6. ActiveLoad'
  BY <1>1, <1>5, ReadsType, CatalogueOK DEF IInv, TypeOK, ActiveLoad, Read
<1>7. OneRead'
  BY <1>1, <1>5, ReadsType DEF IInv, TypeOK, OneRead, Read
<1>8. Awaited'
  <2> SUFFICES ASSUME NEW read \in reads', read.load = request'
               PROVE  read.kind = "load" /\ failed' = None
    BY DEF Awaited
  <2>1. read \in ReadsOf(t, loads')
    BY <1>1, <1>5 DEF IInv, TypeOK, Read
  <2>2. QED
    BY <1>1, <2>1, ReadsType DEF ReadsOf
<1>9. Resolution'
  BY CatalogueOK DEF Resolution, IInv, TypeOK, Maybe
<1>10. QED
  BY <1>2, <1>3, <1>4, <1>6, <1>7, <1>8, <1>9 DEF IInv

\* The shell's part: navigation, remounting and the selection.
LEMMA ShellStep ==
    ASSUME IInv, \/ \E t \in Targets : Show(t)
                 \/ Remount \/ Leave
                 \/ \E row \in Rows : Select(row)
    PROVE  IInv'
<1>1. CASE \E t \in Targets : Show(t)
  BY <1>1, LoadStep DEF Show, Maybe
<1>2. CASE Remount
  BY <1>2, LoadStep DEF Remount, shell, IInv, TypeOK, InspectorFollows, Maybe
<1>3. CASE Leave
  <2>1. \A read \in reads : read.load # None
    BY CatalogueOK DEF IInv, TypeOK, Read
  <2>2. QED
    BY <1>3, <2>1, CatalogueOK
    DEF Leave, IInv, TypeOK, ListIsCurrent, WaitingIsAnswered, InspectorFollows, Operable,
        ActiveLoad, OneRead, Awaited, Working, OwnError, Resolution, Maybe
<1>4. CASE \E row \in Rows : Select(row)
  <2> PICK row \in Rows : Select(row)
    BY <1>4
  <2>1. target \in Targets
    BY DEF Select, Operable, IInv, TypeOK, ListIsCurrent, List, Maybe
  <2>2. TypeOK'
    BY <2>1 DEF Select, IInv, TypeOK, Maybe
  <2>3. QED
    BY <2>2 DEF Select, IInv, ListIsCurrent, WaitingIsAnswered, InspectorFollows, ActiveLoad,
       OneRead, Awaited, Working, OwnError, Resolution
<1>5. QED
  BY <1>1, <1>2, <1>3, <1>4

\* An answer taken off the way leaves the other reads as they were.
LEMMA ReadsShrink ==
    ASSUME IInv, NEW read \in reads, reads' = reads \ {read},
           UNCHANGED <<target, request, loads, revision>>
    PROVE  /\ ActiveLoad' /\ OneRead' /\ reads' \subseteq Read
           /\ read.load = request => \A other \in reads' : other.load # request
  BY DEF IInv, TypeOK, ActiveLoad, OneRead

\* The answer to a load.
LEMMA FinishLoadStep ==
    ASSUME IInv, NEW read \in reads, reads' = reads \ {read},
           UNCHANGED <<target, selected, request, loads, revision>>, FinishLoad(read)
    PROVE  IInv'
<1>1. read \in Read /\ read.load = request /\ list = None /\ failed = None
  BY DEF FinishLoad, Current, IInv, TypeOK, Awaited
<1>2. request \in Nat /\ target \in Targets /\ revision \in Nat
  BY <1>1, CatalogueOK DEF Read, IInv, TypeOK, ActiveLoad, Maybe
<1>3. command = "none" /\ promised = 0 /\ UNCHANGED <<command, promised>>
  BY <1>1 DEF IInv, Working, FinishLoad
<1>4. ActiveLoad' /\ OneRead' /\ reads' \subseteq Read /\ Awaited'
  BY <1>1, ReadsShrink DEF Awaited
<1>5. CASE UNCHANGED list
  <2>1. failed' = target /\ UNCHANGED <<inspected, resolved>>
    BY <1>1, <1>2, <1>5, ListOK DEF FinishLoad, List, Read
  <2>2. QED
    BY <1>1, <1>2, <1>3, <1>4, <1>5, <2>1, CatalogueOK
    DEF IInv, TypeOK, ListIsCurrent, WaitingIsAnswered, InspectorFollows, Operable, Working,
        OwnError, Resolution, Maybe
<1>6. CASE \E n \in read.since .. revision, available, supported \in BOOLEAN :
             /\ list' = [target |-> target, request |-> read.load, revision |-> n,
                         available |-> available, supported |-> supported]
             /\ UNCHANGED failed
             /\ Restore
  <2>1. /\ list' \in List /\ list'.target = target /\ list'.request = request
        /\ list'.revision =< revision /\ list'.revision \in Nat
        /\ Restore /\ failed' = None
    BY <1>1, <1>2, <1>6 DEF List, Read
  <2>2. list' # None
    BY <2>1, ListOK
  <2>3. /\ resolved' \in Maybe(Targets \X Rows) /\ inspected' \in Maybe(Rows)
        /\ InspectorFollows' /\ Resolution'
    BY <2>1, <2>2, RestoreShows
  <2>4. TypeOK'
    BY <1>2, <1>3, <1>4, <2>1, <2>3 DEF IInv, TypeOK, Maybe
  <2>5. ListIsCurrent' /\ WaitingIsAnswered' /\ Working' /\ OwnError'
    BY <1>3, <2>1, <2>2 DEF ListIsCurrent, WaitingIsAnswered, Working, OwnError
  <2>6. QED
    BY <1>4, <2>3, <2>4, <2>5 DEF IInv
<1>7. QED
  BY <1>5, <1>6 DEF FinishLoad

\* The answer to a refresh.
LEMMA FinishRefreshStep ==
    ASSUME IInv, NEW read \in reads, reads' = reads \ {read},
           UNCHANGED <<target, selected, request, loads, revision>>, FinishRefresh(read)
    PROVE  IInv' /\ (list' # None => list'.revision >= list.revision)
<1>1. /\ read \in Read /\ read.load = request
      /\ command = "refreshing" /\ read.since >= promised /\ read.since >= list.revision
  BY DEF FinishRefresh, Current, IInv, TypeOK, Awaited
<1>2. /\ list \in List /\ list # None /\ list.target = target /\ list.request = request
      /\ failed = None
  BY <1>1 DEF IInv, TypeOK, Working, ListIsCurrent, Maybe
<1>3. command' = "none" /\ target \in Targets /\ revision \in Nat /\ promised \in Nat
  BY <1>2 DEF FinishRefresh, IInv, TypeOK, List
<1>4. ActiveLoad' /\ OneRead' /\ reads' \subseteq Read /\ Awaited'
  BY <1>1, ReadsShrink DEF Awaited
<1>5. CASE list' = None /\ failed' = target /\ promised' = 0 /\ UNCHANGED <<inspected, resolved>>
  BY <1>3, <1>4, <1>5, CatalogueOK
  DEF IInv, TypeOK, ListIsCurrent, WaitingIsAnswered, InspectorFollows, Operable, Working,
      OwnError, Resolution, Maybe
<1>6. CASE \E n \in read.since .. revision, available \in BOOLEAN :
             /\ list' = IF list = None THEN None
                        ELSE [list EXCEPT !.revision = n, !.available = available]
             /\ promised' = IF available THEN promised ELSE 0
             /\ UNCHANGED failed
             /\ Restore
  <2> PICK n \in read.since .. revision, available \in BOOLEAN :
             /\ list' = IF list = None THEN None
                        ELSE [list EXCEPT !.revision = n, !.available = available]
             /\ promised' = IF available THEN promised ELSE 0
             /\ UNCHANGED failed
             /\ Restore
    BY <1>6
  <2>0. n \in Nat /\ n >= read.since /\ n =< revision
    BY <1>1, <1>3 DEF Read
  <2>1. /\ list' \in List /\ list'.target = target /\ list'.request = request
        /\ list'.revision = n
    BY <1>2, <2>0 DEF List
  <2>2. list' # None
    BY <2>1, ListOK
  <2>3. /\ resolved' \in Maybe(Targets \X Rows) /\ inspected' \in Maybe(Rows)
        /\ InspectorFollows' /\ Resolution'
    BY <2>1, <2>2, RestoreShows
  <2>4. promised' \in Nat /\ n >= promised' /\ n >= list.revision
    BY <1>1, <1>2, <1>3, <2>0 DEF Read, List
  <2>5. TypeOK'
    BY <1>3, <1>4, <2>1, <2>3, <2>4 DEF IInv, TypeOK, Maybe
  <2>6. ListIsCurrent' /\ WaitingIsAnswered' /\ Working' /\ OwnError'
    BY <1>2, <1>3, <2>0, <2>1, <2>2, <2>4
    DEF ListIsCurrent, WaitingIsAnswered, Working, OwnError
  <2>7. QED
    BY <1>4, <2>1, <2>3, <2>4, <2>5, <2>6 DEF IInv
<1>7. QED
  BY <1>5, <1>6 DEF FinishRefresh

\* The answer to an outdated load or refresh.
LEMMA DropReadStep ==
    ASSUME IInv, NEW read \in reads, reads' = reads \ {read},
           UNCHANGED <<target, selected, request, loads, revision>>, DropRead(read)
    PROVE  IInv'
<1>1. ActiveLoad' /\ OneRead' /\ reads' \subseteq Read
  BY ReadsShrink
<1>2. QED
  BY <1>1 DEF DropRead, Current, IInv, TypeOK, ListIsCurrent, WaitingIsAnswered,
     InspectorFollows, Operable, Awaited, Working, OwnError, Resolution

\* Whichever answer arrives.
LEMMA SettleStep ==
    ASSUME IInv, NEW n, Settle(n)
    PROVE  IInv'
  BY FinishLoadStep, FinishRefreshStep, DropReadStep DEF Settle

\* The workflow's commands, and other users of the catalogue.
LEMMA WorkStep ==
    ASSUME IInv, Begin \/ Activated \/ Ended \/ Publish
    PROVE  IInv'
<1> USE DEF IInv, TypeOK, ListIsCurrent, WaitingIsAnswered, InspectorFollows, Operable,
            ActiveLoad, OneRead, Awaited, Working, OwnError, Resolution
<1>1. CASE Begin \/ Ended
  BY <1>1 DEF Begin, Ended
<1>2. CASE Activated
  <2>1. /\ list # None /\ list \in List /\ request = list.request /\ request \in Nat
        /\ revision' = revision + 1 /\ promised' = revision' /\ command' = "refreshing"
    BY <1>2 DEF Activated, List, Maybe
  <2>2. \A read \in reads : read.load # request
    BY <1>2, <2>1 DEF Activated
  <2> DEFINE refresh == [kind |-> "refresh", load |-> request, since |-> revision']
  <2>3. refresh \in Read /\ reads' = reads \cup {refresh}
    BY <1>2, <2>1 DEF Activated, Read
  <2>4. TypeOK' /\ ListIsCurrent' /\ WaitingIsAnswered' /\ InspectorFollows'
    BY <1>2, <2>1, <2>3 DEF Activated
  <2>5. ActiveLoad' /\ OneRead'
    <3>1. /\ refresh.load = request /\ refresh.since = revision'
          /\ UNCHANGED <<target, request, loads>>
      BY <1>2 DEF Activated
    <3>2. ActiveLoad'
      BY <2>1, <2>3, <3>1, CatalogueOK DEF Read
    <3>3. QED
      BY <2>2, <2>3, <3>1, <3>2
  <2>6. Awaited' /\ Working' /\ OwnError' /\ Resolution'
    BY <1>2, <2>1, <2>2, <2>3 DEF Activated, Read, List
  <2>7. QED
    BY <2>4, <2>5, <2>6
<1>3. CASE Publish
  BY <1>3 DEF Publish, Read, List, Maybe
<1>4. QED
  BY <1>1, <1>2, <1>3

\* Every step keeps the invariant.
LEMMA IInvStep == IInv /\ [Next]_vars => IInv'
<1> SUFFICES ASSUME IInv, [Next]_vars PROVE IInv'
  OBVIOUS
<1>1. CASE UNCHANGED vars
  BY <1>1 DEF vars, IInv, TypeOK, ListIsCurrent, WaitingIsAnswered, InspectorFollows, Operable,
     ActiveLoad, OneRead, Awaited, Working, OwnError, Resolution
<1>2. QED
  BY <1>1, ShellStep, SettleStep, WorkStep DEF Next

\* The page is mounted with its first load under way.
LEMMA IInvInit == Init => IInv
<1> SUFFICES ASSUME Init PROVE IInv
  OBVIOUS
<1>1. TypeOK
  BY ReadsType, CatalogueOK DEF Init, TypeOK, Maybe
<1>2. WaitingIsAnswered
  BY ReadsType DEF Init, WaitingIsAnswered
<1>3. ActiveLoad /\ OneRead /\ Awaited
  <2>1. \A read \in reads : read = [kind |-> "load", load |-> 1, since |-> 0]
    BY ReadsType DEF Init
  <2>2. reads # {} => failed = None
    BY DEF Init, ReadsOf
  <2>3. QED
    BY <2>1, <2>2, CatalogueOK DEF Init, ActiveLoad, OneRead, Awaited
<1>4. ListIsCurrent /\ InspectorFollows /\ Working /\ OwnError /\ Resolution
  BY CatalogueOK
  DEF Init, ListIsCurrent, InspectorFollows, Operable, Working, OwnError, Resolution, Maybe
<1>5. QED
  BY <1>1, <1>2, <1>3, <1>4 DEF IInv

\* The inductive invariant holds of every behaviour.
THEOREM Invariance == Spec => []IInv
  BY IInvInit, IInvStep, PTL DEF Spec

-----------------------------------------------------------------------------
(***************************************************************************)
(* What follows.                                                           *)
(***************************************************************************)

\* The page's state stays well typed.
THEOREM TypeCorrect == Spec => []TypeOK
<1>1. IInv => TypeOK
  BY DEF IInv
<1>2. QED
  BY <1>1, Invariance, PTL

\* No late answer of an aborted load gets onto the page, however many loads
\* are under way and in whichever order they are answered.
THEOREM CurrentList == Spec => []ListIsCurrent
<1>1. IInv => ListIsCurrent
  BY DEF IInv
<1>2. QED
  BY <1>1, Invariance, PTL

\* A page that shows neither rows nor an error is waiting for a read that can
\* end the waiting.
THEOREM AnsweredWaiting == Spec => []WaitingIsAnswered
<1>1. IInv => WaitingIsAnswered
  BY DEF IInv
<1>2. QED
  BY <1>1, Invariance, PTL

\* What an activation brought into the catalogue is listed before the workflow
\* is idle again.
THEOREM ShownActivation == Spec => []ActivationIsShown
<1>1. IInv => ActivationIsShown
  BY DEF IInv, Working, ActivationIsShown, Operable
<1>2. QED
  BY <1>1, Invariance, PTL

\* The inspector shows the selected row, and does so once the row is listed.
THEOREM FollowingInspector == Spec => []InspectorFollows
<1>1. IInv => InspectorFollows
  BY DEF IInv
<1>2. QED
  BY <1>1, Invariance, PTL

\* The rows of one load never go back: the one refresh under way was sent after
\* the rows on the page were read.
THEOREM RowsMoveOn == Spec => RowsNeverGoBack
<1> DEFINE Forward == list # None /\ list' # None /\ list'.request = list.request
                        => list'.revision >= list.revision
<1>1. IInv /\ [Next]_vars => Forward
  <2> SUFFICES ASSUME IInv, [Next]_vars, list # None, list' # None
               PROVE  list'.revision >= list.revision
    OBVIOUS
  <2>1. list \in List
    BY DEF IInv, TypeOK, Maybe
  <2>2. CASE list' = list
    BY <2>1, <2>2 DEF List
  <2>3. CASE \E n : Settle(n)
    <3> PICK read \in reads :
               /\ reads' = reads \ {read}
               /\ UNCHANGED <<target, selected, request, loads, revision>>
               /\ FinishLoad(read) \/ FinishRefresh(read) \/ DropRead(read)
      BY <2>3 DEF Settle
    <3>1. ~FinishLoad(read)
      BY DEF FinishLoad, Current, IInv, Awaited
    <3>2. CASE FinishRefresh(read)
      BY <3>2, FinishRefreshStep
    <3>3. CASE DropRead(read)
      BY <2>2, <3>3 DEF DropRead
    <3>4. QED
      BY <3>1, <3>2, <3>3
  <2>4. QED
    BY <2>2, <2>3 DEF Next, vars, Show, Remount, Load, Leave, Select, Begin, Activated, Ended,
       Publish
<1>2. IInv /\ [Next]_vars => [Forward]_vars
  BY <1>1
<1>3. QED
  BY <1>2, Invariance, PTL DEF Spec, RowsNeverGoBack

-----------------------------------------------------------------------------
(***************************************************************************)
(* The page implements CatalogueReader.                                    *)
(***************************************************************************)

\* The questions the page still takes an answer to.
Pending == {read \in reads : Current(read)}

\* What the page shows, told by what it holds.
LEMMA SeenIs ==
    ASSUME IInv
    PROVE  /\ target = None => Seen = Reader!Blank("away")
           /\ target # None /\ failed # None => Seen = Reader!Blank("failed")
           /\ target # None /\ failed = None /\ list = None => Seen = Reader!Blank("waiting")
           /\ list # None => target # None /\ Seen = Reader!Listed(list.revision)
<1>1. list # None => target # None
  BY CatalogueOK DEF IInv, TypeOK, ListIsCurrent, List, Maybe
<1>2. QED
  BY <1>1 DEF IInv, ListIsCurrent, OwnError, Seen, Reader!Blank, Reader!Listed

\* A page that is not mounted takes no answer.
LEMMA NothingPending ==
    ASSUME IInv, request = None
    PROVE  Pending = {}
<1>1. \A read \in reads : read.load # request
  BY CatalogueOK DEF IInv, TypeOK, Read
<1>2. QED
  BY <1>1 DEF Pending, Current

\* A page asks for what the platform declares, from the present revision on.
LEMMA AskedReads ==
    ASSUME NEW t, NEW n \in Nat, revision \in Nat
    PROVE  /\ t \in Known <=> ReadsOf(t, n) # {}
           /\ \A read \in ReadsOf(t, n) : read.kind = "load" /\ read.since = revision
<1>1. t \in Known => ReadsOf(t, n) # {}
  BY ReadsType
<1>2. t \notin Known => ReadsOf(t, n) = {}
  BY DEF ReadsOf
<1>3. QED
  BY <1>1, <1>2, ReadsType

\* A load asks anew, and what was asked before no longer counts.
LEMMA LoadAsks ==
    ASSUME IInv, IInv', NEW t \in Targets, Load(t), target' = t
    PROVE  Reader!Ask(t)
<1>1. loads' = loads + 1 /\ loads \in Nat /\ request' = loads' /\ revision \in Nat
  BY DEF Load, IInv, TypeOK
<1>2. \A read \in reads : read.load # request'
  BY <1>1 DEF IInv, TypeOK, ActiveLoad, Read
<1>3. Pending' = ReadsOf(t, request')
  BY <1>1, <1>2, ReadsType DEF Load, Pending, Current
<1>4. /\ t \in Known <=> Pending' # {}
      /\ \A read \in Pending' : read.kind = "load" /\ read.since = revision
  BY <1>1, <1>3, AskedReads
<1>5. Seen' = Reader!Blank(IF t \in Known THEN "waiting" ELSE "failed")
  <2>1. t # None /\ target' = t /\ list' = None /\ failed' = IF t \in Known THEN None ELSE t
    BY CatalogueOK DEF Load
  <2>2. QED
    BY <2>1, CatalogueOK DEF Seen, Reader!Blank
<1>6. QED
  BY <1>4, <1>5 DEF Reader!Ask, Pending

\* An answer that is taken brings rows to the page, or an error.
LEMMA AnswerReads ==
    ASSUME IInv, IInv', NEW read \in reads, reads' = reads \ {read},
           UNCHANGED <<target, selected, request, loads, revision>>,
           FinishLoad(read) \/ FinishRefresh(read)
    PROVE  Reader!Answer(read) \/ Reader!Break
<1>1. /\ read \in Read /\ read.load = request /\ revision \in Nat
      /\ read.kind = "load" \/ read.kind = "refresh"
  BY DEF FinishLoad, FinishRefresh, Current, IInv, TypeOK, Read
<1>2. read \in Pending /\ Pending' = Pending \ {read}
  BY <1>1 DEF Pending, Current
<1>3. /\ target # None /\ failed = None
      /\ read.kind = "load" => list = None
      /\ read.kind = "refresh" => list # None
  BY <1>1, CatalogueOK DEF IInv, TypeOK, ActiveLoad, Awaited, Working, ListIsCurrent, Read
<1>4. /\ Seen.state = IF read.kind = "load" THEN "waiting" ELSE "listed"
      /\ Seen.state # "away"
  BY <1>1, <1>3, SeenIs DEF Reader!Blank, Reader!Listed
<1>5. CASE failed' = target
  <2>1. Seen' = Reader!Blank("failed")
    BY <1>3, <1>5 DEF Seen, Reader!Blank
  <2>2. QED
    BY <1>2, <1>4, <2>1 DEF Reader!Break, Pending
<1>6. CASE \E n \in read.since .. revision : list' # None /\ list'.revision = n
  <2>1. \E n \in read.since .. revision : Seen' = Reader!Listed(n)
    <3>1. list' # None => Seen' = Reader!Listed(list'.revision)
      <4>1. list' # None => list'.target = target' /\ failed' = None
        BY DEF IInv, ListIsCurrent
      <4>2. QED
        BY <1>3, <4>1 DEF Seen, Reader!Listed
    <3>2. QED
      BY <1>6, <3>1
  <2>2. QED
    BY <1>2, <1>4, <2>1 DEF Reader!Answer, Pending
<1>7. QED
  <2>1. CASE FinishLoad(read)
    <3> SUFFICES ASSUME NEW n \in read.since .. revision,
                        NEW available \in BOOLEAN, NEW supported \in BOOLEAN,
                        list' = [target |-> target, request |-> read.load, revision |-> n,
                                 available |-> available, supported |-> supported]
                 PROVE  list' # None /\ list'.revision = n
      BY <2>1, <1>5, <1>6 DEF FinishLoad
    <3>1. target \in Targets /\ n \in Nat /\ request \in Nat
      BY <1>1, <1>3 DEF IInv, TypeOK, Maybe, Read
    <3>2. list' \in List
      BY <1>1, <3>1 DEF List
    <3>3. QED
      BY <3>2, ListOK
  <2>2. CASE FinishRefresh(read)
    <3> SUFFICES ASSUME NEW n \in read.since .. revision, NEW available \in BOOLEAN,
                        list' = IF list = None THEN None
                                ELSE [list EXCEPT !.revision = n, !.available = available]
                 PROVE  list' # None /\ list'.revision = n
      BY <2>2, <1>5, <1>6 DEF FinishRefresh
    <3>1. list \in List /\ list # None /\ n \in Nat
      <4>1. list # None /\ list \in Maybe(List)
        BY <1>3, <2>2 DEF FinishRefresh, IInv, TypeOK
      <4>2. read.since \in Nat
        BY <1>1 DEF Read
      <4>3. QED
        BY <1>1, <4>1, <4>2 DEF Maybe
    <3>2. list' \in List /\ list'.revision = n
      BY <3>1 DEF List
    <3>3. QED
      BY <3>2, ListOK
  <2>3. QED
    BY <2>1, <2>2

\* A step that touches nothing a reader knows of.
LEMMA Unnoticed ==
    ASSUME UNCHANGED <<target, selected, list, failed, request, revision>>, Pending' = Pending
    PROVE  UNCHANGED Reader!vars
  BY DEF Reader!vars, Pending, Seen

\* Every step of the page is one of a reader, or nothing a reader knows of.
LEMMA ReaderStep ==
    ASSUME IInv, IInv', [Next]_vars
    PROVE  [Reader!Next]_(Reader!vars)
<1>1. CASE UNCHANGED vars
  BY <1>1, Unnoticed DEF vars, Pending, Current
<1>2. ASSUME NEW t \in Targets, Show(t) PROVE Reader!Visit(t)
  BY <1>2, LoadAsks DEF Show, Load, Reader!Visit
<1>3. CASE Remount
  <2>1. target \in Targets
    BY <1>3 DEF Remount, IInv, TypeOK, Maybe
  <2>2. Reader!AskAgain
    BY <1>3, <2>1, LoadAsks DEF Remount, shell, Load, Reader!AskAgain
  <2>3. QED
    BY <2>2 DEF Reader!Next
<1>4. CASE Leave
  <2>1. Pending' = {}
    <3>1. \A read \in reads' : read.load # request'
      BY <1>4, CatalogueOK DEF Leave, IInv, TypeOK, Read
    <3>2. QED
      BY <3>1 DEF Pending, Current
  <2>2. Seen' = Reader!Blank("away")
    BY <1>4 DEF Leave, Seen, Reader!Blank
  <2>3. Reader!Quit
    BY <1>4, <2>1, <2>2 DEF Leave, Reader!Quit, Pending
  <2>4. QED
    BY <2>3 DEF Reader!Next
<1>5. ASSUME NEW row \in Rows, Select(row) PROVE Reader!Select(row)
  <2>1. Seen = Reader!Listed(list.revision)
    BY <1>5, SeenIs DEF Select, Operable
  <2>2. Pending' = Pending /\ Seen' = Seen
    BY <1>5 DEF Select, Pending, Current, Seen
  <2>3. row \in Reader!RowsAt(list.revision)
    BY <1>5 DEF Select, RowsAt, Reader!RowsAt
  <2>4. QED
    BY <1>5, <2>1, <2>2, <2>3 DEF Select, Reader!Select, Reader!Listed, Pending
<1>6. ASSUME NEW n, Settle(n) PROVE [Reader!Next]_(Reader!vars)
  <2> PICK read \in reads :
             /\ reads' = reads \ {read}
             /\ UNCHANGED <<target, selected, request, loads, revision>>
             /\ FinishLoad(read) \/ FinishRefresh(read) \/ DropRead(read)
    BY <1>6 DEF Settle
  <2>1. CASE DropRead(read)
    <3>1. Pending' = Pending
      BY <2>1 DEF DropRead, Pending, Current
    <3>2. QED
      BY <2>1, <3>1, Unnoticed DEF DropRead
  <2>2. CASE FinishLoad(read) \/ FinishRefresh(read)
    <3>1. read \in Pending
      BY <2>2 DEF FinishLoad, FinishRefresh, Pending
    <3>2. QED
      BY <2>2, <3>1, AnswerReads DEF Reader!Next, Pending
  <2>3. QED
    BY <2>1, <2>2
<1>7. CASE Begin \/ Ended
  BY <1>7, Unnoticed DEF Begin, Ended, Pending, Current
<1>8. CASE Activated
  <2>1. /\ list # None /\ request = list.request /\ request \in Nat /\ revision \in Nat
        /\ revision' = revision + 1
        /\ UNCHANGED <<target, selected, list, failed, request>>
    BY <1>8, CatalogueOK DEF Activated, IInv, TypeOK, Working, ListIsCurrent, List, Maybe
  <2> DEFINE refresh == [kind |-> "refresh", load |-> request, since |-> revision']
  <2>2. reads' = reads \cup {refresh}
    BY <1>8, <2>1 DEF Activated
  <2>3. refresh \notin reads
    BY <2>1 DEF IInv, ActiveLoad
  <2>4. Pending' = Pending \cup {refresh} /\ refresh \in Pending' \ Pending
    BY <2>1, <2>2, <2>3 DEF Pending, Current
  <2>5. Seen.state = "listed" /\ Seen' = Seen
    BY <2>1, SeenIs DEF Seen, Reader!Listed
  <2>6. refresh.kind = "refresh" /\ refresh.since = revision'
    OBVIOUS
  <2>7. Reader!Activate
    BY <2>1, <2>4, <2>5, <2>6 DEF Reader!Activate, Pending
  <2>8. QED
    BY <2>7 DEF Reader!Next
<1>9. CASE Publish
  <2>1. Pending' = Pending /\ Seen' = Seen
    BY <1>9 DEF Publish, Pending, Current, Seen
  <2>2. Reader!Publish
    BY <1>9, <2>1 DEF Publish, Reader!Publish, Pending
  <2>3. QED
    BY <2>2 DEF Reader!Next
<1>10. QED
  BY <1>1, <1>2, <1>3, <1>4, <1>5, <1>6, <1>7, <1>8, <1>9 DEF Next, Reader!Next

\* A page is mounted as a reader that has just asked.
LEMMA ReaderInit == Init => Reader!Init
<1> SUFFICES ASSUME Init PROVE Reader!Init
  OBVIOUS
<1>1. Pending = ReadsOf(target, 1)
  BY ReadsType DEF Init, Pending, Current
<1>2. Seen = Reader!Blank(IF target \in Known THEN "waiting" ELSE "failed")
  BY CatalogueOK DEF Init, Seen, Reader!Blank
<1>3. /\ target \in Known <=> Pending # {}
      /\ \A read \in Pending : read.kind = "load" /\ read.since = 0
  BY <1>1, AskedReads DEF Init
<1>4. QED
  BY <1>2, <1>3, CatalogueOK
  DEF Init, Reader!Init, Pending, Maybe, Reader!Maybe

\* The React page implements CatalogueReader: whatever order answers arrive in,
\* rows appear only as the answer to what the page asked last, as the catalogue
\* had them since it asked, and the selection changes only by the user's act.
THEOREM Refinement == Spec => ReaderProtocol
<1>1. IInv /\ IInv' /\ [Next]_vars => [Reader!Next]_(Reader!vars)
  BY ReaderStep
<1>2. QED
  BY <1>1, ReaderInit, Invariance, PTL DEF Spec, ReaderProtocol, Reader!Spec

=============================================================================
