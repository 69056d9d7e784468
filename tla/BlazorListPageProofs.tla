-------------------------- MODULE BlazorListPageProofs --------------------------
(***************************************************************************)
(* Proofs about BlazorListPage, for every set of targets and rows and      *)
(* every value of the bounds.                                              *)
(***************************************************************************)
EXTENDS BlazorListPage, TLAPS

(***************************************************************************)
(* The inductive invariant.  A page that numbers its requests and cancels  *)
(* none has less to keep than the React lane's: no read is ahead of the    *)
(* number, and a refresh of the present number has a list to refresh.      *)
(***************************************************************************)

\* No read is of a request to come, and a refresh, pending or still to be
\* sent by the running command, is of a list on the page; a page that is
\* gone has neither.
Awaited ==
    /\ \A read \in reads : read.load =< request
    /\ \A read \in reads : read.load = request /\ read.kind = "refresh" => list # None
    /\ busy => list # None
    /\ target = None => list = None /\ reads = {}

\* A request loads once, into an empty page; and nothing is read from a
\* catalogue to come.
Asked ==
    /\ \A read \in reads : read.since =< revision
    /\ \A r1, r2 \in reads :
         r1.kind = "load" /\ r2.kind = "load" /\ r1.load = r2.load => r1 = r2
    /\ \A read \in reads :
         read.kind = "load" /\ read.load = request => list = None /\ ~failed

\* A page that started itself over did so for a selection it then counts as
\* restored.
OneEcho ==
    /\ echoes =< 1
    /\ echoes = 1 => selected # None /\ restored = <<target, selected>>

IInv ==
    /\ TypeOK
    /\ ListIsCurrent
    /\ WaitingIsAnswered
    /\ InspectorFollows
    /\ Awaited
    /\ Asked
    /\ OneEcho

-----------------------------------------------------------------------------
(***************************************************************************)
(* The invariant is kept.                                                  *)
(***************************************************************************)

\* A page sends the read of a request it counts, if the platform declares the
\* item.
LEMMA ReadsType ==
    ASSUME NEW t, NEW n \in Nat, revision \in Nat
    PROVE  /\ ReadsOf(t, n) \subseteq Read
           /\ \A read \in ReadsOf(t, n) :
                read = [kind |-> "load", load |-> n, since |-> revision]
           /\ t \in Known => \E read \in ReadsOf(t, n) : read.kind = "load" /\ read.load = n
<1>1. t \in Known => [kind |-> "load", load |-> n, since |-> revision] \in ReadsOf(t, n)
  BY DEF ReadsOf
<1>2. QED
  BY <1>1 DEF ReadsOf, Read

\* A start empties the page and outdates every read on its way.
LEMMA StartStep ==
    ASSUME IInv, NEW t \in Targets, NEW pending \in SUBSET reads, Start(t, pending), target' = t,
           UNCHANGED revision
    PROVE  /\ request' \in Nat /\ list' = None /\ failed' \in BOOLEAN /\ reads' \subseteq Read
           /\ busy' = FALSE /\ worked' = FALSE /\ lapsed' = FALSE
           /\ ListIsCurrent' /\ WaitingIsAnswered' /\ Awaited' /\ Asked'
<1>1. request \in Nat /\ request' = request + 1 /\ revision \in Nat
  BY DEF Start, IInv, TypeOK
<1>2. /\ list' = None /\ failed' = (t \notin Known) /\ busy' = FALSE /\ worked' = FALSE
      /\ lapsed' = FALSE /\ reads' = pending \cup ReadsOf(t, request')
  BY DEF Start
<1>3. reads' \subseteq Read
  BY <1>1, <1>2, ReadsType DEF IInv, TypeOK
<1>4. WaitingIsAnswered'
  <2> SUFFICES ASSUME ~failed'
               PROVE  \E read \in reads' : read.kind = "load" /\ read.load = request'
    BY DEF WaitingIsAnswered
  <2>1. t \in Known
    BY <1>2
  <2>2. QED
    BY <1>1, <1>2, <2>1, ReadsType
<1>5. \A read \in pending : read.load < request'
  BY <1>1 DEF IInv, TypeOK, Awaited, Read
<1>6. Awaited'
  BY <1>1, <1>2, <1>5, ReadsType, CatalogueOK DEF IInv, TypeOK, Awaited, Read
<1>7. Asked'
  <2>1. /\ \A read \in ReadsOf(t, request') : read.since = revision /\ read.load = request'
        /\ \A r1, r2 \in ReadsOf(t, request') : r1 = r2
    <3>1. \A read \in ReadsOf(t, request') :
            read = [kind |-> "load", load |-> request', since |-> revision]
      BY <1>1, ReadsType
    <3>2. QED
      BY <3>1
  <2>2. ReadsOf(t, request') # {} => ~failed'
    <3>1. ReadsOf(t, request') # {} => t \in Known
      BY DEF ReadsOf
    <3>2. QED
      BY <1>2, <3>1
  <2>3. QED
    BY <1>1, <1>2, <1>5, <2>1, <2>2 DEF IInv, TypeOK, Asked, Read
<1>8. QED
  BY <1>1, <1>2, <1>3, <1>4, <1>6, <1>7 DEF ListIsCurrent

\* An event of the shell hands the page its parameters.
LEMMA ParametersStep ==
    ASSUME IInv, NEW t \in Targets, SetParameters(t), target' = t,
           selected' \in Maybe(Rows), inspected' \in Maybe(Rows), UNCHANGED restored,
           inspected' # None => inspected' = selected'
    PROVE  IInv'
<1>1. Start(t, reads) /\ echoes' = 0 /\ UNCHANGED revision
  BY DEF SetParameters
<1>2. /\ request' \in Nat /\ list' = None /\ failed' \in BOOLEAN /\ reads' \subseteq Read
      /\ busy' = FALSE /\ worked' = FALSE /\ lapsed' = FALSE
      /\ ListIsCurrent' /\ WaitingIsAnswered' /\ Awaited' /\ Asked'
  BY <1>1, StartStep
<1>3. TypeOK'
  BY <1>1, <1>2 DEF IInv, TypeOK, Maybe
<1>4. QED
  BY <1>1, <1>2, <1>3 DEF IInv, InspectorFollows, OneEcho

\* The shell's part: navigation, its renders and the selection.
LEMMA ShellStep ==
    ASSUME IInv, \/ \E t \in Targets : Show(t)
                 \/ Rerender \/ Leave
                 \/ \E row \in Rows : Select(row)
    PROVE  IInv'
<1>1. CASE \E t \in Targets : Show(t)
  BY <1>1, ParametersStep DEF Show, Maybe
<1>2. CASE Rerender
  BY <1>2, ParametersStep DEF Rerender, IInv, TypeOK, InspectorFollows, Maybe
<1>3. CASE Leave
  <2>1. TypeOK'
    BY <1>3 DEF Leave, IInv, TypeOK, Maybe
  <2>2. QED
    BY <1>3, <2>1
    DEF Leave, IInv, ListIsCurrent, WaitingIsAnswered, InspectorFollows, Awaited, Asked, OneEcho
<1>4. CASE \E row \in Rows : Select(row)
  <2> PICK row \in Rows : Select(row)
    BY <1>4
  <2>1. target \in Targets
    BY DEF Select, Operable, IInv, TypeOK, Awaited, Maybe
  <2>2. QED
    BY <2>1, ParametersStep DEF Select, Maybe
<1>5. QED
  BY <1>1, <1>2, <1>3, <1>4

\* An answer after which the page stays as it was, but for the list.
LEMMA StayStep ==
    ASSUME IInv, NEW read \in reads, Stay(read), UNCHANGED <<target, selected, revision>>,
           failed' \in BOOLEAN, ListIsCurrent',
           list' \in Maybe(List), list # None => list' # None,
           inspected' \in {inspected, selected},
           restored' \in IF selected = None THEN {restored, None}
                                            ELSE {restored, <<target, selected>>},
           UNCHANGED <<list, failed>> \/ Current(read),
           list' # None \/ failed' \/ (~Current(read) /\ UNCHANGED <<list, failed>>)
    PROVE  IInv'
<1>1. target \in Targets
  BY DEF IInv, TypeOK, Awaited, Maybe
<1>2. TypeOK'
  BY <1>1 DEF Stay, IInv, TypeOK, Maybe
<1>3. WaitingIsAnswered'
  BY DEF Stay, Current, IInv, WaitingIsAnswered
<1>4. InspectorFollows' /\ Awaited'
  BY <1>1, CatalogueOK DEF Stay, IInv, InspectorFollows, Awaited
<1>5. Asked'
  <2>1. ASSUME Current(read)
        PROVE  \A other \in reads' : ~(other.kind = "load" /\ other.load = request)
    BY <2>1 DEF Stay, Current, IInv, TypeOK, Awaited, Asked, Read
  <2>2. QED
    BY <2>1 DEF Stay, IInv, Asked
<1>6. OneEcho'
  BY DEF Stay, IInv, OneEcho
<1>7. QED
  BY <1>2, <1>3, <1>4, <1>5, <1>6 DEF IInv

\* The answer to a load: the list is bound, or the report of a restored
\* selection starts the page over.
LEMMA FinishLoadStep ==
    ASSUME IInv, NEW read \in reads, FinishLoad(read),
           UNCHANGED <<target, selected, revision>>
    PROVE  IInv'
<1>1. read \in Read /\ read.load = request /\ target \in Targets /\ revision \in Nat
  BY DEF FinishLoad, Current, IInv, TypeOK, Awaited, Maybe
<1>2. CASE Start(target, reads \ {read})
  <2>1. /\ restored # <<target, selected>> /\ selected # None
        /\ restored' = <<target, selected>> /\ inspected' = selected /\ echoes' = echoes + 1
    <3>1. request' # request
      BY <1>1, <1>2 DEF Start, Read
    <3>2. QED
      BY <3>1 DEF FinishLoad, Restorable, Stay
  <2>2. echoes' = 1
    BY <2>1 DEF IInv, TypeOK, OneEcho
  <2>3. /\ request' \in Nat /\ list' = None /\ failed' \in BOOLEAN /\ reads' \subseteq Read
        /\ busy' = FALSE /\ worked' = FALSE /\ lapsed' = FALSE
        /\ ListIsCurrent' /\ WaitingIsAnswered' /\ Awaited' /\ Asked'
    BY <1>1, <1>2, StartStep
  <2>4. TypeOK'
    <3>1. restored' \in Maybe(Targets \X Rows) /\ inspected' \in Maybe(Rows)
      BY <1>1, <2>1 DEF IInv, TypeOK, Maybe
    <3>2. /\ target' \in Maybe(Targets) /\ selected' \in Maybe(Rows)
          /\ lapsed' \in BOOLEAN /\ revision' \in Nat
      BY <2>3 DEF IInv, TypeOK
    <3>3. list' \in Maybe(List) /\ echoes' \in Nat
      BY <2>2, <2>3 DEF Maybe
    <3>4. QED
      BY <2>3, <3>1, <3>2, <3>3 DEF TypeOK
  <2>5. QED
    BY <2>1, <2>2, <2>3, <2>4 DEF IInv, InspectorFollows, OneEcho
<1>3. CASE Stay(read) /\ failed' = TRUE /\ UNCHANGED <<list, inspected, restored>>
  BY <1>1, <1>3, StayStep DEF IInv, TypeOK, ListIsCurrent, Stay, Current
<1>4. ASSUME NEW n \in read.since .. revision, NEW available \in BOOLEAN,
             NEW supported \in BOOLEAN, list' = Loaded(n, read, available, supported),
             Stay(read), UNCHANGED failed, inspected' \in {inspected, selected},
             restored' \in IF selected = None THEN {restored, None}
                                              ELSE {restored, <<target, selected>>}
      PROVE  IInv'
  <2>1. list' \in List /\ list'.request = request
    BY <1>1, <1>4 DEF Loaded, List, Read
  <2>2. list' # None /\ ListIsCurrent'
    BY <1>4, <2>1, ListOK DEF ListIsCurrent, Stay
  <2>3. failed' \in BOOLEAN
    BY <1>4 DEF IInv, TypeOK
  <2>4. Current(read)
    BY <1>1 DEF Current
  <2>5. QED
    BY <1>4, <2>1, <2>2, <2>3, <2>4, StayStep DEF Maybe
<1>5. QED
  BY <1>2, <1>3, <1>4 DEF FinishLoad, Restorable

\* The answer to a refresh.
LEMMA FinishRefreshStep ==
    ASSUME IInv, NEW read \in reads, FinishRefresh(read),
           UNCHANGED <<target, selected, revision>>
    PROVE  IInv'
<1>1. /\ read \in Read /\ read.load = request /\ revision \in Nat
      /\ list \in List /\ list # None /\ list.request = request
  BY DEF FinishRefresh, Current, IInv, TypeOK, Awaited, ListIsCurrent, Maybe
<1>2. list' \in List /\ list'.request = request
  <2>1. CASE UNCHANGED list
    BY <1>1, <2>1
  <2>2. ASSUME NEW n \in read.since .. revision, NEW available \in BOOLEAN,
               list' = IF list = None THEN None
                       ELSE [list EXCEPT !.revision = n, !.available = available]
        PROVE  list' \in List /\ list'.request = request
    <3>1. n \in Nat
      BY <1>1 DEF Read
    <3>2. QED
      BY <1>1, <2>2, <3>1 DEF List
  <2>3. QED
    BY <2>1, <2>2 DEF FinishRefresh
<1>3. list' # None /\ ListIsCurrent'
  BY <1>2, ListOK DEF FinishRefresh, Stay, ListIsCurrent
<1>4. failed' \in BOOLEAN /\ UNCHANGED <<inspected, restored>> /\ Stay(read)
  BY DEF FinishRefresh, IInv, TypeOK
<1>5. Current(read)
  BY DEF FinishRefresh
<1>6. QED
  BY <1>2, <1>3, <1>4, <1>5, StayStep DEF Maybe

\* The answer to an earlier request is dropped.
LEMMA DropReadStep ==
    ASSUME IInv, NEW read \in reads, DropRead(read), UNCHANGED <<target, selected, revision>>
    PROVE  IInv'
<1>1. /\ Stay(read) /\ UNCHANGED <<inspected, list, failed, restored>> /\ ~Current(read)
      /\ failed' \in BOOLEAN /\ list' \in Maybe(List) /\ ListIsCurrent'
  BY DEF DropRead, Stay, IInv, TypeOK, ListIsCurrent
<1>2. QED
  BY <1>1, StayStep

\* A read that times out is forgotten; if the page was loading by it, the page
\* has lapsed, and otherwise its load is still on its way.
LEMMA TimeOutStep ==
    ASSUME IInv, NEW read \in reads, TimeOut(read), UNCHANGED <<target, selected, revision>>
    PROVE  IInv'
<1>1. /\ reads' = reads \ {read}
      /\ lapsed' = (lapsed \/ (read.kind = "load" /\ Current(read)))
      /\ UNCHANGED <<target, selected, revision, request, busy, worked, echoes, inspected, list,
                     failed, restored>>
  BY DEF TimeOut
<1>2. TypeOK'
  <2>1. lapsed' \in BOOLEAN
    BY <1>1 DEF IInv, TypeOK
  <2>2. QED
    BY <1>1, <2>1 DEF IInv, TypeOK
<1>3. WaitingIsAnswered'
  <2> SUFFICES ASSUME target # None, list = None, ~failed, ~lapsed'
               PROVE  \E other \in reads' : other.kind = "load" /\ other.load = request
    BY <1>1 DEF WaitingIsAnswered
  <2>1. PICK other \in reads : other.kind = "load" /\ other.load = request
    BY <1>1 DEF IInv, WaitingIsAnswered
  <2>2. other # read
    BY <1>1, <2>1 DEF Current
  <2>3. QED
    BY <1>1, <2>1, <2>2
<1>4. ListIsCurrent' /\ InspectorFollows' /\ Awaited' /\ Asked' /\ OneEcho'
  BY <1>1 DEF IInv, ListIsCurrent, InspectorFollows, Awaited, Asked, OneEcho
<1>5. QED
  BY <1>2, <1>3, <1>4 DEF IInv

\* The workflow's commands, and other users of the catalogue.
LEMMA WorkStep ==
    ASSUME IInv, Begin \/ Activated \/ Ended \/ Publish
    PROVE  IInv'
<1> USE DEF IInv, TypeOK, ListIsCurrent, WaitingIsAnswered, InspectorFollows, Awaited, Asked,
            OneEcho
<1>1. CASE Begin
  BY <1>1 DEF Begin, Operable
<1>2. CASE Activated
  <2> DEFINE refresh == [kind |-> "refresh", load |-> request, since |-> revision']
  <2>1. /\ refresh \in Read /\ reads' = reads \cup {refresh}
        /\ revision' \in Nat /\ busy' = FALSE /\ worked' = TRUE /\ list # None
        /\ UNCHANGED <<target, selected, inspected, list, failed, request, restored, echoes, lapsed>>
    BY <1>2 DEF Activated, Read
  <2>2. TypeOK'
    BY <2>1
  <2>3. WaitingIsAnswered' /\ Awaited'
    BY <2>1
  <2>4. Asked'
    <3>1. refresh.kind = "refresh" /\ refresh.since = revision'
      OBVIOUS
    <3>2. \A read \in reads : read.since =< revision'
      <4>1. revision' = revision + 1 /\ revision \in Nat
        BY <1>2 DEF Activated
      <4>2. QED
        BY <4>1 DEF Asked, Read
    <3>3. QED
      BY <2>1, <3>1, <3>2 DEF Asked
  <2>5. QED
    BY <2>1, <2>2, <2>3, <2>4
<1>3. CASE Ended
  BY <1>3 DEF Ended
<1>4. CASE Publish
  BY <1>4 DEF Publish, Read
<1>5. QED
  BY <1>1, <1>2, <1>3, <1>4

\* Every step keeps the invariant.
LEMMA IInvStep == IInv /\ [Next]_vars => IInv'
<1> SUFFICES ASSUME IInv, [Next]_vars PROVE IInv'
  OBVIOUS
<1>1. CASE UNCHANGED vars
  BY <1>1 DEF vars, IInv, TypeOK, ListIsCurrent, WaitingIsAnswered, InspectorFollows, Awaited,
     Asked, OneEcho
<1>2. CASE \E n : Settle(n)
  BY <1>2, FinishLoadStep, FinishRefreshStep, DropReadStep, TimeOutStep DEF Settle
<1>3. QED
  BY <1>1, <1>2, ShellStep, WorkStep DEF Next

\* The page is mounted with its first request under way.
LEMMA IInvInit == Init => IInv
<1> SUFFICES ASSUME Init PROVE IInv
  OBVIOUS
<1>1. TypeOK
  BY ReadsType, CatalogueOK DEF Init, TypeOK, Maybe
<1>2. WaitingIsAnswered
  <2>1. ~failed => target \in Known
    BY DEF Init
  <2>2. target \in Known => \E read \in reads : read.kind = "load" /\ read.load = 1
    BY ReadsType DEF Init
  <2>3. QED
    BY <2>1, <2>2 DEF Init, WaitingIsAnswered
<1>3. Awaited
  BY ReadsType, CatalogueOK DEF Init, Awaited
<1>4. Asked
  <2>1. /\ \A read \in reads : read = [kind |-> "load", load |-> 1, since |-> 0]
        /\ reads # {} => ~failed
    BY ReadsType DEF Init, ReadsOf
  <2>2. QED
    BY <2>1 DEF Init, Asked
<1>5. QED
  BY <1>1, <1>2, <1>3, <1>4 DEF Init, IInv, ListIsCurrent, InspectorFollows, OneEcho

\* The inductive invariant holds of every behaviour.
THEOREM Invariance == Spec => []IInv
  BY IInvInit, IInvStep, PTL DEF Spec

-----------------------------------------------------------------------------
(***************************************************************************)
(* What follows.                                                           *)
(***************************************************************************)

\* The page's state stays well typed.
THEOREM TypeCorrect == Spec => []TypeOK
<1>1. IInv => TypeOK
  BY DEF IInv
<1>2. QED
  BY <1>1, Invariance, PTL

\* The list on the page answers its latest request, however many are under way.
THEOREM CurrentList == Spec => []ListIsCurrent
<1>1. IInv => ListIsCurrent
  BY DEF IInv
<1>2. QED
  BY <1>1, Invariance, PTL

\* A page that shows neither rows nor an error is waiting for a read that can
\* end the waiting, unless that very read has timed out: neither a restart nor
\* an outdated answer, nor the time-out of another read, leaves it so.
THEOREM AnsweredWaiting == Spec => []WaitingIsAnswered
<1>1. IInv => WaitingIsAnswered
  BY DEF IInv
<1>2. QED
  BY <1>1, Invariance, PTL

\* A page that starts itself over does so once for each outside event.
THEOREM EndedEcho == Spec => []EchoEnds
<1>1. IInv => EchoEnds
  BY DEF IInv, OneEcho, EchoEnds
<1>2. QED
  BY <1>1, Invariance, PTL

\* The inspector shows the selected row or none.
THEOREM FollowingInspector == Spec => []InspectorFollows
<1>1. IInv => InspectorFollows
  BY DEF IInv
<1>2. QED
  BY <1>1, Invariance, PTL

-----------------------------------------------------------------------------
(***************************************************************************)
(* The page implements CatalogueReader.                                    *)
(***************************************************************************)

\* The questions the page still takes an answer to.
Pending == {read \in reads : Current(read)}

\* What the page shows, told by what it holds.
LEMMA SeenIs ==
    ASSUME IInv
    PROVE  /\ target # None => Seen.state # "away"
           /\ target # None /\ failed => Seen.state = "failed"
           /\ target # None /\ ~failed /\ list = None => Seen.state = "waiting"
           /\ list # None => target # None
           /\ list # None /\ ~failed => Seen = Reader!Listed(list.revision)
  BY DEF IInv, Awaited, Seen, Reader!Listed

\* A page asks for what the platform declares, from the present revision on.
LEMMA AskedReads ==
    ASSUME NEW t, NEW n \in Nat, revision \in Nat
    PROVE  /\ t \in Known <=> ReadsOf(t, n) # {}
           /\ \A read \in ReadsOf(t, n) : read.kind = "load" /\ read.since = revision
<1>1. t \in Known => ReadsOf(t, n) # {}
  BY ReadsType
<1>2. t \notin Known => ReadsOf(t, n) = {}
  BY DEF ReadsOf
<1>3. QED
  BY <1>1, <1>2, ReadsType

\* A start asks anew, and what was asked before no longer counts.
LEMMA StartAsks ==
    ASSUME IInv, NEW t \in Targets, NEW pending \in SUBSET reads, Start(t, pending),
           target' = t, UNCHANGED revision
    PROVE  Reader!Ask(t)
<1>1. request' = request + 1 /\ request \in Nat /\ revision \in Nat
  BY DEF Start, IInv, TypeOK
<1>2. \A read \in pending : read.load # request'
  BY <1>1 DEF IInv, TypeOK, Awaited, Read
<1>3. Pending' = ReadsOf(t, request')
  BY <1>1, <1>2, ReadsType DEF Start, Pending, Current
<1>4. /\ t \in Known <=> Pending' # {}
      /\ \A read \in Pending' : read.kind = "load" /\ read.since = revision
  BY <1>1, <1>3, AskedReads
<1>5. Seen' = Reader!Blank(IF t \in Known THEN "waiting" ELSE "failed")
  <2>1. t # None /\ list' = None /\ (failed' <=> t \notin Known)
    BY CatalogueOK DEF Start
  <2>2. QED
    BY <2>1 DEF Seen, Reader!Blank
<1>6. QED
  BY <1>4, <1>5 DEF Reader!Ask, Pending

\* An answer after which the page shows the rows of a revision it could have
\* asked for, or an error.
LEMMA AnswerShows ==
    ASSUME IInv, NEW read \in reads, Stay(read), Current(read),
           UNCHANGED <<target, selected, revision>>,
           \/ failed'
           \/ /\ \E n \in read.since .. revision : list' # None /\ list'.revision = n
              /\ ~failed /\ ~failed'
    PROVE  Reader!Answer(read) \/ Reader!Break
<1>1. /\ read \in Read /\ read.load = request /\ target # None
      /\ read.kind = "load" \/ read.kind = "refresh"
      /\ read.kind = "load" => list = None
      /\ read.kind = "refresh" => list # None
  BY DEF Current, IInv, TypeOK, Awaited, Asked, Read
<1>2. read \in Pending /\ Pending' = Pending \ {read}
  BY DEF Stay, Pending, Current
<1>3. CASE failed'
  <2>1. Seen' = Reader!Blank("failed")
    BY <1>1, <1>3 DEF Seen, Reader!Blank
  <2>2. QED
    BY <1>1, <1>2, <2>1, SeenIs DEF Reader!Break, Pending
<1>4. CASE /\ \E n \in read.since .. revision : list' # None /\ list'.revision = n
           /\ ~failed /\ ~failed'
  <2>1. \E n \in read.since .. revision : Seen' = Reader!Listed(n)
    BY <1>1, <1>4 DEF Seen, Reader!Listed
  <2>2. Seen.state = IF read.kind = "load" THEN "waiting" ELSE "listed"
    BY <1>1, <1>4, SeenIs DEF Reader!Listed
  <2>3. QED
    BY <1>2, <2>1, <2>2 DEF Reader!Answer, Pending
<1>5. QED
  BY <1>3, <1>4

\* A step that touches nothing a reader knows of.
LEMMA Unnoticed ==
    ASSUME UNCHANGED <<target, selected, list, failed, request, revision>>,
           Pending' = Pending
    PROVE  UNCHANGED Reader!vars
  BY DEF Reader!vars, Pending, Seen

\* Whichever answer arrives, or does not.
LEMMA SettleReads ==
    ASSUME IInv, NEW n, Settle(n)
    PROVE  [Reader!Next]_(Reader!vars)
<1> PICK read \in reads :
        /\ FinishLoad(read) \/ FinishRefresh(read) \/ DropRead(read) \/ TimeOut(read)
        /\ UNCHANGED <<target, selected, revision>>
  BY DEF Settle
<1>1. target \in Targets /\ target # None /\ revision \in Nat /\ read \in Read
  BY CatalogueOK DEF IInv, TypeOK, Awaited, Maybe
<1>2. Current(read) => read \in Pending
  BY DEF Pending
<1>3. CASE TimeOut(read)
  <2>1. /\ Pending' = Pending \ {read} /\ Seen' = Seen
        /\ UNCHANGED <<target, selected, list, failed, request, revision>>
    BY <1>3 DEF TimeOut, Pending, Current, Seen
  <2>2. CASE Current(read)
    <3>1. Reader!Lapse(read)
      BY <1>2, <2>1, <2>2 DEF Reader!Lapse, Pending
    <3>2. QED
      BY <1>2, <2>2, <3>1 DEF Reader!Next, Pending
  <2>3. CASE ~Current(read)
    <3>1. Pending' = Pending
      BY <2>1, <2>3 DEF Pending
    <3>2. QED
      BY <2>1, <3>1, Unnoticed
  <2>4. QED
    BY <2>2, <2>3
<1>4. CASE DropRead(read)
  <2>1. Pending' = Pending
    BY <1>4 DEF DropRead, Stay, Pending, Current
  <2>2. QED
    BY <1>4, <2>1, Unnoticed DEF DropRead, Stay
<1>5. CASE FinishLoad(read)
  <2>1. CASE Start(target, reads \ {read})
    <3>1. Reader!AskAgain
      BY <1>1, <1>5, <2>1, StartAsks DEF Reader!AskAgain
    <3>2. QED
      BY <3>1 DEF Reader!Next
  <2>2. CASE Stay(read) /\ failed'
    BY <1>2, <1>5, <2>2, AnswerShows DEF FinishLoad, Reader!Next, Pending
  <2>3. ASSUME NEW m \in read.since .. revision, NEW available \in BOOLEAN,
               NEW supported \in BOOLEAN, list' = Loaded(m, read, available, supported),
               Stay(read), UNCHANGED failed
        PROVE  [Reader!Next]_(Reader!vars)
    <3>1. list' \in List /\ list'.revision = m
      <4>1. m \in Nat /\ read.load \in Nat
        BY <1>1 DEF Read
      <4>2. QED
        BY <2>3, <4>1 DEF Loaded, List
    <3>2. Current(read) /\ ~failed
      BY <1>5 DEF FinishLoad, Current, IInv, Asked
    <3>3. QED
      BY <1>2, <2>3, <3>1, <3>2, ListOK, AnswerShows DEF Reader!Next, Pending
  <2>4. QED
    BY <1>5, <2>1, <2>2, <2>3 DEF FinishLoad
<1>6. CASE FinishRefresh(read)
  <2>1. Stay(read) /\ Current(read) /\ list # None /\ list \in List
    BY <1>6 DEF FinishRefresh, Current, IInv, TypeOK, Awaited, Maybe
  <2>2. CASE failed'
    BY <1>2, <2>1, <2>2, AnswerShows DEF Reader!Next, Pending
  <2>3. CASE ~failed'
    <3>1. PICK m \in read.since .. revision, available \in BOOLEAN :
             /\ list' = IF list = None THEN None
                        ELSE [list EXCEPT !.revision = m, !.available = available]
             /\ UNCHANGED failed
      BY <1>6, <2>3 DEF FinishRefresh
    <3>2. m \in Nat
      BY <1>1 DEF Read
    <3>3. list' \in List /\ list'.revision = m
      BY <2>1, <3>1, <3>2 DEF List
    <3>4. QED
      BY <1>2, <1>6, <2>1, <2>3, <3>1, <3>3, ListOK, AnswerShows DEF Reader!Next, Pending
  <2>4. QED
    BY <2>2, <2>3
<1>7. QED
  BY <1>3, <1>4, <1>5, <1>6

\* The shell's steps and those of the workflow.
LEMMA OtherReads ==
    ASSUME IInv,
           \/ \E t \in Targets : Show(t)
           \/ Rerender \/ Leave
           \/ \E row \in Rows : Select(row)
           \/ Begin \/ Activated \/ Ended \/ Publish
    PROVE  [Reader!Next]_(Reader!vars)
<1>1. ASSUME NEW t \in Targets, Show(t) PROVE Reader!Visit(t)
  BY <1>1, StartAsks DEF Show, SetParameters, Reader!Visit
<1>2. CASE Rerender
  <2>1. target \in Targets
    BY <1>2 DEF Rerender, IInv, TypeOK, Maybe
  <2>2. Reader!AskAgain
    BY <1>2, <2>1, StartAsks DEF Rerender, SetParameters, Reader!AskAgain
  <2>3. QED
    BY <2>2 DEF Reader!Next
<1>3. CASE Leave
  <2>1. Pending' = {} /\ Seen' = Reader!Blank("away")
    BY <1>3 DEF Leave, Pending, Seen, Reader!Blank
  <2>2. Reader!Quit
    BY <1>3, <2>1 DEF Leave, Reader!Quit, Pending
  <2>3. QED
    BY <2>2 DEF Reader!Next
<1>4. ASSUME NEW row \in Rows, Select(row) PROVE Reader!Select(row)
  <2>1. target \in Targets /\ Seen = Reader!Listed(list.revision)
    BY <1>4, SeenIs DEF Select, SetParameters, Operable, IInv, TypeOK, Maybe
  <2>2. Reader!Ask(target)
    BY <1>4, <2>1, StartAsks DEF Select, SetParameters
  <2>3. row \in Reader!RowsAt(list.revision)
    BY <1>4 DEF Select, RowsAt, Reader!RowsAt
  <2>4. QED
    BY <1>4, <2>1, <2>2, <2>3 DEF Select, SetParameters, Reader!Select, Reader!Listed
<1>5. CASE Begin
  BY <1>5, Unnoticed DEF Begin, Pending, Current
<1>6. CASE Activated
  <2>1. /\ list # None /\ revision \in Nat /\ revision' = revision + 1
        /\ UNCHANGED <<target, selected, list, failed, request>>
    BY <1>6 DEF Activated, IInv, TypeOK, Awaited
  <2> DEFINE refresh == [kind |-> "refresh", load |-> request, since |-> revision']
  <2>2. reads' = reads \cup {refresh}
    BY <1>6 DEF Activated
  <2>3. refresh \notin reads
    BY <2>1 DEF IInv, Asked
  <2>4. Pending' = Pending \cup {refresh} /\ refresh \in Pending' \ Pending
    BY <2>1, <2>2, <2>3 DEF Pending, Current
  <2>5. Seen.state \in {"listed", "failed"} /\ Seen' = Seen
    BY <2>1, SeenIs DEF Seen, Reader!Listed
  <2>6. refresh.kind = "refresh" /\ refresh.since = revision'
    OBVIOUS
  <2>7. Reader!Activate
    BY <2>1, <2>4, <2>5, <2>6 DEF Reader!Activate, Pending
  <2>8. QED
    BY <2>7 DEF Reader!Next
<1>7. CASE Ended
  BY <1>7, Unnoticed DEF Ended, Pending, Current
<1>8. CASE Publish
  <2>1. Pending' = Pending /\ Seen' = Seen
    BY <1>8 DEF Publish, Pending, Current, Seen
  <2>2. Reader!Publish
    BY <1>8, <2>1 DEF Publish, Reader!Publish, Pending
  <2>3. QED
    BY <2>2 DEF Reader!Next
<1>9. QED
  BY <1>1, <1>2, <1>3, <1>4, <1>5, <1>6, <1>7, <1>8 DEF Reader!Next

\* A page is mounted as a reader that has just asked.
LEMMA ReaderInit == Init => Reader!Init
<1> SUFFICES ASSUME Init PROVE Reader!Init
  OBVIOUS
<1>1. Pending = ReadsOf(target, 1)
  BY ReadsType DEF Init, Pending, Current
<1>2. Seen = Reader!Blank(IF target \in Known THEN "waiting" ELSE "failed")
  <2>1. target # None /\ list = None /\ (failed <=> target \notin Known)
    BY CatalogueOK DEF Init
  <2>2. QED
    BY <2>1 DEF Seen, Reader!Blank
<1>3. /\ target \in Known <=> Pending # {}
      /\ \A read \in Pending : read.kind = "load" /\ read.since = 0
  BY <1>1, AskedReads DEF Init
<1>4. QED
  BY <1>2, <1>3 DEF Init, Reader!Init, Pending, Maybe, Reader!Maybe

\* The Blazor page implements CatalogueReader: however many requests it has
\* made and cancelled none, rows appear only as the answer to what it asked
\* last, as the catalogue had them since it asked, and the selection changes
\* only by the user's act.  A question that times out changes nothing there is
\* to see, the note that the list is loading included.
THEOREM Refinement == Spec => ReaderProtocol
<1>1. IInv /\ [Next]_vars => [Reader!Next]_(Reader!vars)
  <2> SUFFICES ASSUME IInv, [Next]_vars PROVE [Reader!Next]_(Reader!vars)
    OBVIOUS
  <2>1. CASE UNCHANGED vars
    BY <2>1, Unnoticed DEF vars, Pending, Current
  <2>2. QED
    BY <2>1, SettleReads, OtherReads DEF Next
<1>2. QED
  BY <1>1, ReaderInit, Invariance, PTL DEF Spec, ReaderProtocol, Reader!Spec

=============================================================================
