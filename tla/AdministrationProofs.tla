------------------------- MODULE AdministrationProofs -------------------------
(***************************************************************************)
(* The safety of the administration pages for every set of definitions,    *)
(* roles and refusals and without the bounds' values: the inductive        *)
(* invariants AInv, of the pages over the authorization service, and CInv, *)
(* of those over the configuration service, and what follows from them;    *)
(* and that whoever waits on a page waits for a call under way.            *)
(***************************************************************************)
EXTENDS Administration, TLAPS

-----------------------------------------------------------------------------
(***************************************************************************)
(* What every pending call of the authorization pages knows.               *)
(***************************************************************************)

\* A read of rows belongs to the page that loads them, and a binding that was
\* read is one the service had; its row is still empty, and only its.
ReadsOK ==
    /\ \A r \in reads : r.kind # "trace" =>
          phase = "loading" /\ page = IF r.kind = "holders" THEN "holders" ELSE "authorization"
    /\ \A r \in reads : r.kind \in {"holders", "lists"} => r = ReadOf(r.kind, "page", None)
    /\ \A r \in reads : r.kind = "lists" =>
          shown = NoRows /\ \A q \in reads : q.kind # "binding"
    /\ \A r \in reads : r.kind = "binding" =>
          /\ r.slot \in Definitions
          /\ shown[r.slot] = None
          /\ r.result # None => IsPast(r.result, binding[r.slot])
    /\ \A r, q \in reads :
          r.kind = "binding" /\ q.kind = "binding" /\ r.slot = q.slot => r = q

RowsOK ==
    /\ page = "authorization" /\ phase = "ready" => \A d \in Definitions : shown[d] # None
    /\ ShownIsPast

\* An editor is open only among its rows, and asks only while nothing is asked.
EditorsOK ==
    \A d \in Definitions :
        /\ editor[d].submitting \/ editor[d].pending # None =>
              page = "authorization" /\ phase = "ready"
        /\ editor[d].pending # None =>
              ~editor[d].submitting /\ editor[d].pending \subseteq shown[d].roles

Awaited(n) ==
    /\ page = "authorization" /\ phase = "ready"
    /\ editor[n.of].submitting
    /\ n.roles \subseteq shown[n.of].roles
    /\ n.status = "accepted" =>
         /\ n.result \in Binding
         /\ IsPast(n.result, binding[n.of])
         /\ n.result.revision > shown[n.of].revision
    /\ refusal[n.of] = None
    /\ trace[n.of].of = None
    /\ TraceReads(n.of) = {}

AskingOK ==
    /\ \A n \in narrowings : n.live => Awaited(n)
    /\ \A n, m \in narrowings : n.live /\ m.live /\ n.of = m.of => n = m

\* Nothing is refused while rows are loaded; a trace that is read is that of the
\* refusal above it.
TracesOK ==
    /\ TraceIsOfRefusal
    /\ \A r \in reads : r.kind = "trace" => r.audit = refusal[r.slot]
    /\ phase = "loading" =>
         /\ \A s \in Slots : refusal[s] = None /\ trace[s].of = None
         /\ \A r \in reads : r.kind # "trace"

AInv == TypeOK /\ ReadsOK /\ RowsOK /\ EditorsOK /\ AskingOK /\ TracesOK

-----------------------------------------------------------------------------
(***************************************************************************)
(* What every pending call of the configuration pages knows.               *)
(***************************************************************************)

\* b is the change a, or what became of it.
Within(a, b) == a.versions <= b.versions /\ a.released \subseteq b.released

\* A call that is awaited is the read of a page that loads, or the one act of the
\* proposal's page; its answer is no older than what the page shows.
CallsOK ==
    /\ \A c \in asked : c.result # None => Within(c.result, change)
    /\ \A c \in asked : c.act = "read" => c.live /\ stage = "loading"
    /\ \A c \in asked : c.live /\ c.act # "read" =>
         /\ surface = "proposal" /\ stage = "ready" /\ busy
         /\ c.result # None => Within(proposed, c.result)
    /\ \A c, e \in asked : c.live /\ e.live => c = e

CInv ==
    /\ C!TypeOK
    /\ CallsOK
    /\ stage = "loading" => proposed = None /\ ~busy
    /\ surface = "proposal" /\ stage = "ready" => proposed # None
    /\ C!ProposalIsPast

AppInv == AInv /\ CInv /\ visits \in Nat

-----------------------------------------------------------------------------
(***************************************************************************)
(* The authorization pages: the initial state and mounting.                *)
(***************************************************************************)

LEMMA Absent ==
    /\ None \notin Audits /\ None \notin Binding /\ None \notin Pages
    /\ \A roles \in SUBSET Roles : None # roles
BY NoneAssumption, AbsentBindingAssumption, PagesAssumption

LEMMA FirstReadsOK ==
    ASSUME NEW p \in Maybe(Pages)
    PROVE  /\ FirstReads(p) \subseteq Read
           /\ p = None => FirstReads(p) = {}
           /\ \A r \in FirstReads(p) :
                 /\ r.kind # "trace" /\ r.kind # "binding"
                 /\ r = ReadOf(r.kind, "page", None)
                 /\ p = IF r.kind = "holders" THEN "holders" ELSE "authorization"
<1>1. ReadOf("holders", "page", None) \in Read /\ ReadOf("lists", "page", None) \in Read
  BY DEF ReadOf, Read, Slots, Maybe
<1>2. /\ ReadOf("holders", "page", None).kind = "holders"
      /\ ReadOf("lists", "page", None).kind = "lists"
  BY DEF ReadOf
<1> QED
  BY <1>1, <1>2, PagesAssumption DEF FirstReads, Maybe, Pages

LEMMA FreshEditorOK ==
    ASSUME NEW roles \in SUBSET Roles
    PROVE  /\ FreshEditor(roles) \in Editor
           /\ FreshEditor(roles).pending = None
           /\ FreshEditor(roles).selected = roles
           /\ FreshEditor(roles).submitting = FALSE
BY DEF FreshEditor, Editor, Maybe

LEMMA UnreadOK == Unread \in Trace /\ Unread.of = None
BY DEF Unread, Trace, Maybe

LEMMA AbandonedOK ==
    ASSUME narrowings \subseteq Narrowing
    PROVE  Abandoned \subseteq Narrowing /\ \A n \in Abandoned : ~n.live
<1> SUFFICES ASSUME NEW n \in Abandoned
             PROVE  n \in Narrowing /\ ~n.live
  OBVIOUS
<1>1. PICK m \in narrowings : n = [m EXCEPT !.live = FALSE]
  BY DEF Abandoned
<1> QED
  BY <1>1 DEF Narrowing

\* A page that has just been mounted, whatever the calls of the last one.
LEMMA FreshPage ==
    ASSUME NEW p \in Maybe(Pages),
           page' = p,
           phase' = IF p = None THEN "away" ELSE "loading",
           shown' = NoRows,
           editor' = NoEditors,
           refusal' = [s \in Slots |-> None],
           trace' = [s \in Slots |-> Unread],
           reads' = FirstReads(p),
           narrowings' \subseteq Narrowing,
           \A n \in narrowings' : ~n.live,
           binding' \in [Definitions -> Binding],
           sent' \in Nat
    PROVE  AInv'
<1>1. TypeOK'
  <2>1. shown' \in [Definitions -> Maybe(Binding)]
    BY DEF NoRows, Maybe
  <2>2. editor' \in [Definitions -> Editor]
    BY FreshEditorOK DEF NoEditors
  <2>3. refusal' \in [Slots -> Maybe(Audits)] /\ trace' \in [Slots -> Trace]
    BY UnreadOK DEF Maybe
  <2> QED
    BY <2>1, <2>2, <2>3, FirstReadsOK DEF TypeOK
<1>2. ReadsOK'
  BY FirstReadsOK DEF ReadsOK
<1>3. RowsOK'
  BY DEF RowsOK, ShownIsPast, NoRows
<1>4. EditorsOK'
  BY FreshEditorOK DEF EditorsOK, NoEditors
<1>5. AskingOK'
  BY DEF AskingOK
<1>6. TracesOK'
  BY FirstReadsOK, UnreadOK DEF TracesOK, TraceIsOfRefusal
<1> QED
  BY <1>1, <1>2, <1>3, <1>4, <1>5, <1>6 DEF AInv

LEMMA InitStep == ASSUME Init PROVE AInv
<1>1. TypeOK
  <2>1. shown \in [Definitions -> Maybe(Binding)]
    BY DEF Init, NoRows, Maybe
  <2>2. editor \in [Definitions -> Editor]
    BY FreshEditorOK DEF Init, NoEditors
  <2>3. refusal \in [Slots -> Maybe(Audits)] /\ trace \in [Slots -> Trace]
    BY UnreadOK DEF Init, Maybe
  <2>4. binding \in [Definitions -> Binding]
    BY OfferedAssumption DEF Init, Binding
  <2> QED
    BY <2>1, <2>2, <2>3, <2>4, FirstReadsOK DEF Init, TypeOK, Maybe, Pages
<1>2. ReadsOK
  BY FirstReadsOK DEF Init, ReadsOK, Maybe, Pages
<1>3. RowsOK
  BY DEF Init, RowsOK, ShownIsPast, NoRows
<1>4. EditorsOK
  BY FreshEditorOK DEF Init, EditorsOK, NoEditors
<1>5. AskingOK
  BY DEF Init, AskingOK
<1>6. TracesOK
  BY FirstReadsOK, UnreadOK DEF Init, TracesOK, TraceIsOfRefusal, Maybe, Pages
<1> QED
  BY <1>1, <1>2, <1>3, <1>4, <1>5, <1>6 DEF AInv

LEMMA MountStep ==
    ASSUME AInv, NEW p \in Maybe(Pages), Mount(p)
    PROVE  AInv'
<1>1. /\ binding' \in [Definitions -> Binding] /\ sent' \in Nat
      /\ narrowings \subseteq Narrowing
  BY DEF AInv, TypeOK, Mount
<1>2. narrowings' \subseteq Narrowing /\ \A n \in narrowings' : ~n.live
  BY <1>1, AbandonedOK DEF Mount
<1> QED
  BY <1>1, <1>2, FreshPage DEF Mount

-----------------------------------------------------------------------------
(***************************************************************************)
(* The authorization pages: loading.                                       *)
(***************************************************************************)

LEMMA PastItself == ASSUME NEW b \in Binding PROVE IsPast(b, b)
BY DEF Binding, IsPast

LEMMA PastNarrowed ==
    ASSUME NEW a \in Binding, NEW b \in Binding, IsPast(a, b),
           NEW roles \in SUBSET Roles, roles \subseteq b.roles
    PROVE  /\ IsPast(a, Narrowed(roles, b))
           /\ Narrowed(roles, b) \in Binding
           /\ Narrowed(roles, b).revision > a.revision
BY DEF Binding, IsPast, Narrowed

LEMMA FinishHoldersStep ==
    ASSUME AInv, NEW r \in reads, FinishHolders(r)
    PROVE  AInv'
<1>1. page = "holders" /\ phase = "loading"
  BY DEF AInv, ReadsOK, FinishHolders
<1>2. \A q \in reads' : q.kind = "trace"
  <2> SUFFICES ASSUME NEW q \in reads', q.kind # "trace" PROVE FALSE
    OBVIOUS
  <2>1. q \in reads /\ q # r
    BY DEF FinishHolders
  <2>2. q.kind = "holders"
    BY <1>1, <2>1 DEF AInv, ReadsOK
  <2> QED
    BY <2>1, <2>2 DEF AInv, ReadsOK, FinishHolders
<1>3. \A n \in narrowings : ~n.live
  BY <1>1 DEF AInv, AskingOK, Awaited
<1>4. TypeOK'
  BY <1>1 DEF AInv, TypeOK, FinishHolders
<1>5. ReadsOK'
  BY <1>2 DEF ReadsOK
<1>6. RowsOK' /\ EditorsOK'
  BY <1>1 DEF AInv, RowsOK, ShownIsPast, EditorsOK, FinishHolders
<1>7. AskingOK'
  BY <1>3 DEF AskingOK, FinishHolders
<1>8. TracesOK'
  BY <1>1 DEF AInv, TracesOK, TraceIsOfRefusal, FinishHolders
<1> QED
  BY <1>4, <1>5, <1>6, <1>7, <1>8 DEF AInv

LEMMA FinishListsStep ==
    ASSUME AInv, NEW r \in reads, FinishLists(r)
    PROVE  AInv'
<1>1. page = "authorization" /\ phase = "loading" /\ shown = NoRows
  BY DEF AInv, ReadsOK, FinishLists
<1>2. \A q \in reads' : /\ q \in Read /\ q.kind = "binding" /\ q.result = None
                        /\ q.slot \in Definitions /\ q = ReadOf("binding", q.slot, None)
  BY DEF FinishLists, ReadOf, Read, Slots, Maybe
<1>3. \A n \in narrowings : ~n.live
  BY <1>1 DEF AInv, AskingOK, Awaited
<1>4. TypeOK'
  BY <1>1, <1>2 DEF AInv, TypeOK, FinishLists
<1>5. ReadsOK'
  <2>1. shown' = NoRows /\ page' = "authorization" /\ phase' = "loading"
    BY <1>1 DEF FinishLists
  <2> QED
    BY <1>2, <2>1 DEF ReadsOK, NoRows
<1>6. RowsOK' /\ EditorsOK'
  BY <1>1 DEF AInv, RowsOK, ShownIsPast, EditorsOK, FinishLists
<1>7. AskingOK'
  BY <1>3 DEF AskingOK, FinishLists
<1>8. TracesOK'
  BY <1>1, <1>2 DEF AInv, TracesOK, TraceIsOfRefusal, FinishLists
<1> QED
  BY <1>4, <1>5, <1>6, <1>7, <1>8 DEF AInv

LEMMA ServeBindingStep ==
    ASSUME AInv, NEW r \in reads, ServeBinding(r)
    PROVE  AInv'
<1> DEFINE answer == [r EXCEPT !.result = binding[r.slot]]
<1>1. page = "authorization" /\ phase = "loading" /\ r.slot \in Definitions /\ r \in Read
  BY DEF AInv, TypeOK, ReadsOK, ServeBinding
<1>2. binding[r.slot] \in Binding
  BY <1>1 DEF AInv, TypeOK
<1>3. /\ answer \in Read /\ answer.kind = "binding" /\ answer.slot = r.slot
      /\ answer.result = binding[r.slot]
  BY <1>1, <1>2 DEF Read, Maybe, ServeBinding
<1> HIDE DEF answer
<1>4. reads' = (reads \ {r}) \cup {answer}
  BY DEF ServeBinding, answer
<1>5. \A n \in narrowings : ~n.live
  BY <1>1 DEF AInv, AskingOK, Awaited
<1>6. TypeOK'
  BY <1>3, <1>4 DEF AInv, TypeOK, ServeBinding
<1>7. ReadsOK'
  <2>1. UNCHANGED <<page, phase, shown, binding>>
    BY DEF ServeBinding
  <2>2. shown[r.slot] = None /\ r.kind = "binding"
    BY DEF AInv, ReadsOK, ServeBinding
  <2>3. IsPast(answer.result, binding[answer.slot])
    BY <1>2, <1>3, PastItself
  <2>4. \A q \in reads : q.kind # "lists"
    BY <2>2 DEF AInv, ReadsOK
  <2>5. \A q \in reads \ {r} : q.kind = "binding" => q.slot # answer.slot
    BY <1>3, <2>2 DEF AInv, ReadsOK
  <2> QED
    BY <1>1, <1>3, <1>4, <2>1, <2>2, <2>3, <2>4, <2>5 DEF AInv, ReadsOK
<1>8. RowsOK' /\ EditorsOK'
  BY <1>1 DEF AInv, RowsOK, ShownIsPast, EditorsOK, ServeBinding
<1>9. AskingOK'
  BY <1>5 DEF AskingOK, ServeBinding
<1>10. TracesOK'
  BY <1>1, <1>3, <1>4 DEF AInv, TracesOK, TraceIsOfRefusal, ServeBinding
<1> QED
  BY <1>6, <1>7, <1>8, <1>9, <1>10 DEF AInv

LEMMA FinishBindingStep ==
    ASSUME AInv, NEW r \in reads, FinishBinding(r)
    PROVE  AInv'
<1>1. /\ page = "authorization" /\ phase = "loading" /\ r.slot \in Definitions
      /\ r \in Read /\ shown[r.slot] = None /\ IsPast(r.result, binding[r.slot])
  BY DEF AInv, TypeOK, ReadsOK, FinishBinding
<1>2. r.result \in Binding
  BY <1>1 DEF Read, Maybe, FinishBinding
<1>3. /\ shown' \in [Definitions -> Maybe(Binding)] /\ shown'[r.slot] = r.result
      /\ \A d \in Definitions : d # r.slot => shown'[d] = shown[d]
  BY <1>1, <1>2 DEF AInv, TypeOK, FinishBinding, Maybe
<1>4. \A n \in narrowings : ~n.live
  BY <1>1 DEF AInv, AskingOK, Awaited
<1>5. \A d \in Definitions : ~editor'[d].submitting /\ editor'[d].pending = None
  <2>1. \A d \in Definitions : ~editor[d].submitting /\ editor[d].pending = None
    BY <1>1 DEF AInv, EditorsOK
  <2>2. CASE \E d \in Definitions : shown'[d] = None
    BY <2>1, <2>2 DEF FinishBinding
  <2>3. CASE ~\E d \in Definitions : shown'[d] = None
    <3> SUFFICES ASSUME NEW d \in Definitions
                 PROVE  ~editor'[d].submitting /\ editor'[d].pending = None
      OBVIOUS
    <3>1. editor'[d] = FreshEditor(shown'[d].roles)
      BY <2>3 DEF FinishBinding
    <3>2. shown'[d].roles \in SUBSET Roles
      BY <1>3, <2>3 DEF Maybe, Binding
    <3>3. editor'[d].submitting = FALSE /\ editor'[d].pending = None
      BY <3>1, <3>2, FreshEditorOK
    <3> QED
      BY <3>3
  <2> QED
    BY <2>2, <2>3
<1>6. TypeOK'
  <2>1. editor' \in [Definitions -> Editor]
    <3>1. CASE \E d \in Definitions : shown'[d] = None
      BY <3>1 DEF FinishBinding, AInv, TypeOK
    <3>2. CASE ~\E d \in Definitions : shown'[d] = None
      <4>1. \A d \in Definitions : shown'[d].roles \in SUBSET Roles
        BY <1>3, <3>2 DEF Maybe, Binding
      <4>2. editor' = [d \in Definitions |-> FreshEditor(shown'[d].roles)]
        BY <3>2 DEF FinishBinding
      <4>3. \A d \in Definitions : FreshEditor(shown'[d].roles) \in Editor
        BY <4>1, FreshEditorOK
      <4> QED
        BY <4>2, <4>3
    <3> QED
      BY <3>1, <3>2
  <2>2. phase' \in {"loading", "ready"} /\ page' = page
    BY <1>1 DEF FinishBinding
  <2> QED
    BY <1>1, <1>3, <2>1, <2>2 DEF AInv, TypeOK, FinishBinding
<1>7. ReadsOK'
  <2>1. \A q \in reads' : q \in reads /\ q # r
    BY DEF FinishBinding
  <2>2. \A q \in reads' : q.kind # "trace" => q.kind = "binding"
    <3> SUFFICES ASSUME NEW q \in reads', q.kind # "trace" PROVE q.kind = "binding"
      OBVIOUS
    <3>1. q \in Read
      BY <2>1 DEF AInv, TypeOK
    <3>2. q.kind # "holders" /\ q.kind # "lists"
      BY <1>1, <2>1 DEF AInv, ReadsOK, FinishBinding
    <3> QED
      BY <3>1, <3>2 DEF Read
  <2>3. \A q \in reads' : q.kind = "binding" =>
           q.slot \in Definitions /\ q.slot # r.slot /\ shown'[q.slot] = None
    BY <1>3, <2>1 DEF AInv, ReadsOK, FinishBinding
  <2>4. \A q \in reads' : q.kind # "trace" => phase' = "loading" /\ page' = "authorization"
    BY <1>1, <2>2, <2>3 DEF FinishBinding
  <2> QED
    BY <2>1, <2>2, <2>3, <2>4 DEF AInv, ReadsOK, FinishBinding
<1>8. RowsOK'
  BY <1>1, <1>3 DEF AInv, RowsOK, ShownIsPast, FinishBinding
<1>9. EditorsOK'
  BY <1>5 DEF EditorsOK
<1>10. AskingOK'
  BY <1>4 DEF AskingOK, FinishBinding
<1>11. TracesOK'
  BY <1>1 DEF AInv, TracesOK, TraceIsOfRefusal, FinishBinding
<1> QED
  BY <1>6, <1>7, <1>8, <1>9, <1>10, <1>11 DEF AInv

LEMMA FailLoadStep ==
    ASSUME AInv, NEW r \in reads, FailLoad(r)
    PROVE  AInv'
<1>1. phase = "loading" /\ page # None
  BY Absent DEF AInv, TypeOK, ReadsOK, FailLoad
<1>2. \A n \in narrowings : ~n.live
  BY <1>1 DEF AInv, AskingOK, Awaited
<1>3. PICK a \in Maybe(Audits) : refusal' = [refusal EXCEPT !["page"] = a]
  BY DEF FailLoad
<1>4. TypeOK'
  <2>1. shown' \in [Definitions -> Maybe(Binding)]
    BY DEF FailLoad, NoRows, Maybe
  <2>2. refusal' \in [Slots -> Maybe(Audits)]
    BY <1>3 DEF AInv, TypeOK
  <2> QED
    BY <1>1, <2>1, <2>2 DEF AInv, TypeOK, FailLoad
<1>5. ReadsOK'
  BY DEF ReadsOK, FailLoad
<1>6. RowsOK'
  BY DEF RowsOK, ShownIsPast, NoRows, FailLoad
<1>7. EditorsOK'
  BY <1>1 DEF AInv, EditorsOK, FailLoad
<1>8. AskingOK'
  BY <1>2 DEF AskingOK, FailLoad
<1>9. TracesOK'
  BY <1>1 DEF AInv, TracesOK, TraceIsOfRefusal, FailLoad
<1> QED
  BY <1>4, <1>5, <1>6, <1>7, <1>8, <1>9 DEF AInv

-----------------------------------------------------------------------------
(***************************************************************************)
(* The authorization pages: traces and editors.                            *)
(***************************************************************************)

LEMMA OpenTraceStep ==
    ASSUME AInv, NEW s \in Slots, OpenTrace(s)
    PROVE  AInv'
<1> DEFINE read == ReadOf("trace", s, refusal[s])
<1>1. phase # "loading" /\ refusal[s] \in Audits
  BY DEF AInv, TypeOK, TracesOK, OpenTrace, Maybe
<1>2. /\ read \in Read /\ read.kind = "trace" /\ read.slot = s
      /\ read.audit = refusal[s]
  BY <1>1 DEF ReadOf, Read, Maybe
<1>3. reads' = reads \cup {read}
  BY DEF OpenTrace
<1> HIDE DEF read
<1>4. [status |-> "loading", of |-> None] \in Trace
  BY DEF Trace, Maybe
<1>5. TypeOK'
  BY <1>2, <1>3, <1>4 DEF AInv, TypeOK, OpenTrace
<1>6. ReadsOK'
  BY <1>2, <1>3 DEF AInv, ReadsOK, OpenTrace
<1>7. RowsOK' /\ EditorsOK'
  BY DEF AInv, RowsOK, ShownIsPast, EditorsOK, OpenTrace
<1>8. AskingOK'
  <2> SUFFICES ASSUME NEW n \in narrowings, n.live PROVE Awaited(n)'
    BY DEF AInv, AskingOK, OpenTrace
  <2>1. Awaited(n) /\ n.of \in Definitions
    BY DEF AInv, TypeOK, AskingOK, Narrowing
  <2>2. n.of # s
    BY <2>1 DEF Awaited, OpenTrace
  <2>3. TraceReads(n.of)' = {}
    BY <1>2, <1>3, <2>1, <2>2 DEF Awaited, TraceReads
  <2>4. trace'[n.of] = trace[n.of]
    BY <2>1, <2>2 DEF OpenTrace, AInv, TypeOK, Slots
  <2> QED
    BY <2>1, <2>3, <2>4 DEF Awaited, OpenTrace
<1>9. TracesOK'
  BY <1>1, <1>2, <1>3 DEF AInv, TypeOK, TracesOK, TraceIsOfRefusal, OpenTrace
<1> QED
  BY <1>5, <1>6, <1>7, <1>8, <1>9 DEF AInv

LEMMA FinishTraceStep ==
    ASSUME AInv, NEW r \in reads, FinishTrace(r)
    PROVE  AInv'
<1>1. /\ r \in Read /\ r.slot \in Slots /\ r.audit \in Maybe(Audits)
      /\ r.audit = refusal[r.slot] /\ phase # "loading"
  BY DEF AInv, TypeOK, TracesOK, FinishTrace, Read
<1>2. PICK status \in {"told", "failed"} :
          trace' = [trace EXCEPT ![r.slot] = [status |-> status, of |-> r.audit]]
  BY DEF FinishTrace
<1>3. [status |-> status, of |-> r.audit] \in Trace
  BY <1>1 DEF Trace
<1>4. TypeOK'
  BY <1>2, <1>3 DEF AInv, TypeOK, FinishTrace
<1>5. ReadsOK'
  BY DEF AInv, ReadsOK, FinishTrace
<1>6. RowsOK' /\ EditorsOK'
  BY DEF AInv, RowsOK, ShownIsPast, EditorsOK, FinishTrace
<1>7. AskingOK'
  <2> SUFFICES ASSUME NEW n \in narrowings, n.live PROVE Awaited(n)'
    BY DEF AInv, AskingOK, FinishTrace
  <2>1. Awaited(n) /\ n.of \in Slots
    BY DEF AInv, TypeOK, AskingOK, Narrowing, Slots
  <2>2. n.of # r.slot
    BY <2>1 DEF Awaited, TraceReads, FinishTrace
  <2>3. TraceReads(n.of)' = {}
    BY <2>1 DEF Awaited, TraceReads, FinishTrace
  <2>4. trace'[n.of] = trace[n.of]
    BY <1>2, <2>1, <2>2 DEF AInv, TypeOK
  <2> QED
    BY <2>1, <2>3, <2>4 DEF Awaited, FinishTrace
<1>8. TracesOK'
  BY <1>1, <1>2 DEF AInv, TypeOK, TracesOK, TraceIsOfRefusal, FinishTrace
<1> QED
  BY <1>4, <1>5, <1>6, <1>7, <1>8 DEF AInv

\* What a step of an editor leaves alone, but for its selection and confirmation.
EditorStep(d) ==
    /\ UNCHANGED <<binding, page, phase, shown, refusal, trace, reads, narrowings, sent>>
    /\ editor' \in [Definitions -> Editor]
    /\ \A e \in Definitions :
          /\ editor'[e].submitting = editor[e].submitting
          /\ e # d => editor'[e] = editor[e]
    /\ editor'[d].pending # None =>
          /\ page = "authorization" /\ phase = "ready" /\ ~editor[d].submitting
          /\ editor'[d].pending \subseteq shown[d].roles

LEMMA EditorStepOK ==
    ASSUME AInv, NEW d \in Definitions, EditorStep(d)
    PROVE  AInv'
<1>1. TypeOK' /\ ReadsOK' /\ RowsOK' /\ TracesOK'
  BY DEF AInv, TypeOK, ReadsOK, RowsOK, ShownIsPast, TracesOK, TraceIsOfRefusal, EditorStep
<1>2. EditorsOK'
  BY DEF AInv, EditorsOK, EditorStep
<1>3. AskingOK'
  <2> SUFFICES ASSUME NEW n \in narrowings, n.live PROVE Awaited(n)'
    BY DEF AInv, AskingOK, EditorStep
  <2>1. Awaited(n) /\ n.of \in Definitions
    BY DEF AInv, TypeOK, AskingOK, Narrowing
  <2> QED
    BY <2>1 DEF Awaited, TraceReads, EditorStep
<1> QED
  BY <1>1, <1>2, <1>3 DEF AInv

LEMMA ToggleStep ==
    ASSUME AInv, NEW d \in Definitions, NEW role \in Roles, Toggle(d, role)
    PROVE  AInv'
<1>1. editor \in [Definitions -> Editor] /\ editor[d] \in Editor
  BY DEF AInv, TypeOK
<1> DEFINE chosen == IF role \in editor[d].selected THEN editor[d].selected \ {role}
                     ELSE editor[d].selected \cup {role}
<1>2. chosen \in SUBSET Roles
  BY <1>1 DEF Editor
<1>3. editor' = [editor EXCEPT ![d].selected = chosen]
  BY DEF Toggle
<1> HIDE DEF chosen
<1>4. EditorStep(d)
  <2>1. editor' \in [Definitions -> Editor]
    BY <1>1, <1>2, <1>3 DEF Editor
  <2>2. /\ \A e \in Definitions : e # d => editor'[e] = editor[e]
        /\ editor'[d].pending = editor[d].pending
        /\ editor'[d].submitting = editor[d].submitting
    BY <1>1, <1>3 DEF Editor
  <2> QED
    BY <2>1, <2>2 DEF AInv, EditorsOK, EditorStep, Toggle, Editing
<1> QED
  BY <1>4, EditorStepOK

LEMMA PendingStep ==
    ASSUME AInv, NEW d \in Definitions, NEW roles \in Maybe(SUBSET Roles),
           editor' = [editor EXCEPT ![d].pending = roles],
           roles # None => Editing(d) /\ roles \subseteq shown[d].roles,
           UNCHANGED <<binding, page, phase, shown, refusal, trace, reads, narrowings, sent>>
    PROVE  AInv'
<1>1. editor \in [Definitions -> Editor] /\ editor[d] \in Editor
  BY DEF AInv, TypeOK
<1>2. editor' \in [Definitions -> Editor]
  BY <1>1 DEF Editor
<1>3. /\ \A e \in Definitions : e # d => editor'[e] = editor[e]
      /\ editor'[d].pending = roles
      /\ editor'[d].submitting = editor[d].submitting
  BY <1>1 DEF Editor
<1>4. EditorStep(d)
  BY <1>2, <1>3 DEF EditorStep, Editing
<1> QED
  BY <1>4, EditorStepOK

LEMMA ReviewStep ==
    ASSUME AInv, NEW d \in Definitions, Review(d)
    PROVE  AInv'
<1>1. shown[d] \in Binding /\ Editing(d)
  BY DEF AInv, TypeOK, RowsOK, Review, Editing, Maybe
<1>2. SelectedRoles(d) \in SUBSET Roles /\ SelectedRoles(d) \subseteq shown[d].roles
  BY <1>1 DEF SelectedRoles, Binding
<1>3. PICK roles \in {SelectedRoles(d), {}} :
          editor' = [editor EXCEPT ![d].pending = roles]
  BY DEF Review
<1>4. roles \in Maybe(SUBSET Roles) /\ roles \subseteq shown[d].roles
  BY <1>2, <1>3 DEF Maybe
<1> QED
  BY <1>1, <1>3, <1>4, PendingStep DEF Review

LEMMA DismissStep ==
    ASSUME AInv, NEW d \in Definitions, Dismiss(d)
    PROVE  AInv'
<1>1. None \in Maybe(SUBSET Roles)
  BY DEF Maybe
<1> QED
  BY <1>1, PendingStep DEF Dismiss

-----------------------------------------------------------------------------
(***************************************************************************)
(* The authorization pages: narrowings.                                    *)
(***************************************************************************)

\* A narrowing an editor awaits is alone, and the binding it is of is shown.
LEMMA AwaitedAlone ==
    ASSUME AInv, NEW n \in narrowings, n.live
    PROVE  /\ n \in Narrowing /\ n.of \in Definitions /\ n.roles \in SUBSET Roles
           /\ Awaited(n)
           /\ shown[n.of] \in Binding
           /\ IsPast(shown[n.of], binding[n.of])
           /\ editor[n.of].pending = None
           /\ \A m \in narrowings \ {n} : m.live => m.of # n.of
<1>1. n \in Narrowing /\ n.of \in Definitions /\ n.roles \in SUBSET Roles /\ Awaited(n)
  BY DEF AInv, TypeOK, AskingOK, Narrowing
<1>2. shown[n.of] \in Binding /\ IsPast(shown[n.of], binding[n.of])
  BY <1>1 DEF AInv, TypeOK, RowsOK, ShownIsPast, Awaited, Maybe
<1>3. editor[n.of].pending = None
  BY <1>1 DEF AInv, EditorsOK, Awaited
<1> QED
  BY <1>1, <1>2, <1>3 DEF AInv, AskingOK

LEMMA ConfirmStep ==
    ASSUME AInv, NEW d \in Definitions, Confirm(d)
    PROVE  AInv'
<1>0. PICK request : request = Request(d)
  OBVIOUS
<1>1. /\ editor \in [Definitions -> Editor] /\ editor[d] \in Editor /\ d \in Slots
      /\ page = "authorization" /\ phase = "ready" /\ ~editor[d].submitting
      /\ editor[d].pending \in SUBSET Roles /\ editor[d].pending \subseteq shown[d].roles
  BY DEF AInv, TypeOK, EditorsOK, Confirm, Editor, Maybe, Slots
<1>2. /\ request \in Narrowing /\ request.of = d /\ request.roles = editor[d].pending
      /\ request.status = "sent"
  BY <1>0, <1>1 DEF AInv, TypeOK, Request, Narrowing, Maybe
<1>3. narrowings' = narrowings \cup {request}
  BY <1>0 DEF Confirm
<1>4. /\ editor' \in [Definitions -> Editor]
      /\ editor'[d].submitting /\ editor'[d].pending = None
      /\ \A e \in Definitions : e # d => editor'[e] = editor[e]
  BY <1>1 DEF Confirm, Editor, Maybe
<1>5. /\ refusal' \in [Slots -> Maybe(Audits)] /\ refusal'[d] = None
      /\ trace' \in [Slots -> Trace] /\ trace'[d].of = None
      /\ \A s \in Slots : s # d => refusal'[s] = refusal[s] /\ trace'[s] = trace[s]
  BY <1>1, UnreadOK DEF AInv, TypeOK, Confirm, Maybe
<1>6. \A r \in reads' : r \in reads /\ ~(r.kind = "trace" /\ r.slot = d)
  BY DEF Confirm, TraceReads
<1>7. TypeOK'
  BY <1>2, <1>3, <1>4, <1>5, <1>6 DEF AInv, TypeOK, Confirm
<1>8. ReadsOK'
  BY <1>6 DEF AInv, ReadsOK, Confirm
<1>9. RowsOK' /\ EditorsOK'
  BY <1>1, <1>4 DEF AInv, RowsOK, ShownIsPast, EditorsOK, Confirm
<1>10. AskingOK'
  <2>1. \A n \in narrowings : n.live => n.of # d
    BY <1>1 DEF AInv, AskingOK, Awaited
  <2>2. ASSUME NEW n \in narrowings, n.live PROVE Awaited(n)'
    <3>1. Awaited(n) /\ n.of \in Definitions /\ n.of \in Slots /\ n.of # d
      BY <2>1, <2>2 DEF AInv, TypeOK, AskingOK, Narrowing, Slots
    <3> QED
      BY <1>4, <1>5, <1>6, <3>1 DEF Awaited, TraceReads, Confirm
  <2>3. Awaited(request)'
    BY <1>1, <1>2, <1>4, <1>5, <1>6 DEF Awaited, TraceReads, Confirm
  <2> QED
    BY <1>2, <1>3, <2>1, <2>2, <2>3 DEF AInv, AskingOK
<1>11. TracesOK'
  <2>1. \A r \in reads' : r.slot \in Slots
    BY <1>6 DEF AInv, TypeOK, Read
  <2> QED
    BY <1>1, <1>5, <1>6, <2>1 DEF AInv, TracesOK, TraceIsOfRefusal, Confirm
<1> QED
  BY <1>7, <1>8, <1>9, <1>10, <1>11 DEF AInv

\* A binding that only loses roles keeps what is read or shown of it past.
LEMMA BindingNarrows ==
    ASSUME AInv, NEW d \in Definitions, NEW roles \in SUBSET binding[d].roles,
           binding' = [binding EXCEPT ![d] = Narrowed(roles, binding[d])],
           UNCHANGED <<page, phase, shown, reads>>
    PROVE  /\ binding' \in [Definitions -> Binding]
           /\ ReadsOK' /\ RowsOK'
           /\ \A e \in Definitions : \A a \in Binding :
                 IsPast(a, binding[e]) => IsPast(a, binding'[e])
<1>1. binding \in [Definitions -> Binding] /\ roles \in SUBSET Roles
  BY DEF AInv, TypeOK, Binding
<1>2. binding' \in [Definitions -> Binding]
  <2>1. Narrowed(roles, binding[d]) \in Binding
    BY <1>1 DEF Narrowed, Binding
  <2> QED
    BY <1>1, <2>1
<1>3. \A e \in Definitions : \A a \in Binding :
         IsPast(a, binding[e]) => IsPast(a, binding'[e])
  BY <1>1, PastNarrowed
<1>4. ReadsOK'
  <2>1. ASSUME NEW r \in reads, r.kind = "binding", r.result # None
        PROVE  IsPast(r.result, binding'[r.slot])
    <3>1. r.result \in Binding /\ r.slot \in Definitions /\ IsPast(r.result, binding[r.slot])
      BY <2>1 DEF AInv, TypeOK, ReadsOK, Read, Maybe
    <3> QED
      BY <1>3, <3>1
  <2> QED
    BY <2>1 DEF AInv, ReadsOK
<1>5. RowsOK'
  <2>1. ASSUME NEW e \in Definitions, shown[e] # None
        PROVE  IsPast(shown[e], binding'[e])
    <3>1. shown[e] \in Binding /\ IsPast(shown[e], binding[e])
      BY <2>1 DEF AInv, TypeOK, RowsOK, ShownIsPast, Maybe
    <3> QED
      BY <1>3, <3>1
  <2> QED
    BY <2>1 DEF AInv, RowsOK, ShownIsPast
<1> QED
  BY <1>2, <1>3, <1>4, <1>5

LEMMA OtherNarrowsStep ==
    ASSUME AInv, NEW d \in Definitions, OtherNarrows(d)
    PROVE  AInv'
<1>1. PICK roles \in SUBSET binding[d].roles :
          binding' = [binding EXCEPT ![d] = Narrowed(roles, binding[d])]
  BY DEF OtherNarrows
<1>2. /\ binding' \in [Definitions -> Binding] /\ ReadsOK' /\ RowsOK'
      /\ \A e \in Definitions : \A a \in Binding :
            IsPast(a, binding[e]) => IsPast(a, binding'[e])
  BY <1>1, BindingNarrows DEF OtherNarrows
<1>3. TypeOK' /\ EditorsOK' /\ TracesOK'
  BY <1>2 DEF AInv, TypeOK, EditorsOK, TracesOK, TraceIsOfRefusal, OtherNarrows
<1>4. AskingOK'
  <2> SUFFICES ASSUME NEW n \in narrowings, n.live PROVE Awaited(n)'
    BY DEF AInv, AskingOK, OtherNarrows
  <2>1. Awaited(n) /\ n.of \in Definitions
    BY DEF AInv, TypeOK, AskingOK, Narrowing
  <2> QED
    BY <1>2, <2>1 DEF Awaited, TraceReads, OtherNarrows
<1> QED
  BY <1>2, <1>3, <1>4 DEF AInv

\* Once served, a narrowing that is awaited is answered, and another is gone.
Answered(n, m) ==
    m.of = n.of /\ m.roles = n.roles /\ m.live = n.live /\ m \in Narrowing

LEMMA ServeStep ==
    ASSUME AInv, NEW n \in narrowings, Serve(n)
    PROVE  AInv'
<1>1. n \in Narrowing /\ n.of \in Definitions /\ n.roles \in SUBSET Roles
  BY DEF AInv, TypeOK, Narrowing
<1>2. CASE /\ Narrows(n.roles, binding[n.of])
           /\ binding' = [binding EXCEPT ![n.of] = Narrowed(n.roles, binding[n.of])]
           /\ narrowings' = (narrowings \ {n}) \cup
                IF n.live THEN {[n EXCEPT !.status = "accepted", !.result = binding'[n.of]]}
                ELSE {}
  <2>0. PICK answer : answer = [n EXCEPT !.status = "accepted", !.result = binding'[n.of]]
    OBVIOUS
  <2>1. /\ binding' \in [Definitions -> Binding] /\ ReadsOK' /\ RowsOK'
        /\ \A e \in Definitions : \A a \in Binding :
              IsPast(a, binding[e]) => IsPast(a, binding'[e])
    BY <1>1, <1>2, BindingNarrows DEF Narrows, Serve
  <2>2. binding'[n.of] = Narrowed(n.roles, binding[n.of]) /\ binding[n.of] \in Binding
    BY <1>1, <1>2 DEF AInv, TypeOK
  <2>3. Answered(n, answer) /\ answer.status = "accepted" /\ answer.result = binding'[n.of]
    BY <1>1, <2>0, <2>1 DEF Answered, Narrowing, Maybe
  <2>4. narrowings' = (narrowings \ {n}) \cup IF n.live THEN {answer} ELSE {}
    BY <1>2, <2>0
  <2>5. TypeOK' /\ EditorsOK' /\ TracesOK'
    BY <2>1, <2>3, <2>4 DEF AInv, TypeOK, EditorsOK, TracesOK, TraceIsOfRefusal, Serve, Answered
  <2>6. ASSUME NEW m \in narrowings \ {n}, m.live PROVE Awaited(m)'
    <3>1. Awaited(m) /\ m.of \in Definitions
      BY <2>6 DEF AInv, TypeOK, AskingOK, Narrowing
    <3> QED
      BY <2>1, <3>1 DEF Awaited, TraceReads, Serve
  <2>7. ASSUME n.live PROVE Awaited(answer)'
    <3>1. /\ Awaited(n) /\ shown[n.of] \in Binding
          /\ IsPast(shown[n.of], binding[n.of])
      BY <2>7, AwaitedAlone
    <3>2. binding'[n.of] \in Binding /\ binding'[n.of].revision > shown[n.of].revision
      BY <1>1, <1>2, <2>2, <3>1, PastNarrowed DEF Narrows
    <3>3. IsPast(binding'[n.of], binding'[n.of])
      BY <3>2, PastItself
    <3> QED
      BY <2>3, <3>1, <3>2, <3>3 DEF Awaited, TraceReads, Serve, Answered
  <2>8. AskingOK'
    <3>1. CASE n.live
      <4>1. \A m \in narrowings \ {n} : m.live => m.of # answer.of
        BY <2>3, <3>1, AwaitedAlone DEF Answered
      <4>2. narrowings' = (narrowings \ {n}) \cup {answer}
        BY <2>4, <3>1
      <4> QED
        BY <2>6, <2>7, <3>1, <4>1, <4>2 DEF AInv, AskingOK
    <3>2. CASE ~n.live
      BY <2>4, <2>6, <3>2 DEF AInv, AskingOK
    <3> QED
      BY <3>1, <3>2
  <2> QED
    BY <2>1, <2>5, <2>8 DEF AInv
<1>3. CASE \E a \in Maybe(Audits) :
             /\ narrowings' = (narrowings \ {n}) \cup
                   IF n.live THEN {[n EXCEPT !.status = "refused", !.audit = a]} ELSE {}
             /\ UNCHANGED binding
  <2>1. PICK a \in Maybe(Audits) :
          narrowings' = (narrowings \ {n}) \cup
             IF n.live THEN {[n EXCEPT !.status = "refused", !.audit = a]} ELSE {}
    BY <1>3
  <2> DEFINE answer == [n EXCEPT !.status = "refused", !.audit = a]
  <2>2. Answered(n, answer) /\ answer.status = "refused"
    BY <1>1 DEF Answered, Narrowing
  <2> HIDE DEF answer
  <2>3. narrowings' = (narrowings \ {n}) \cup IF n.live THEN {answer} ELSE {}
    BY <2>1 DEF answer
  <2>4. UNCHANGED <<binding, page, phase, shown, editor, refusal, trace, reads, sent>>
    BY <1>3 DEF Serve
  <2>5. TypeOK' /\ ReadsOK' /\ RowsOK' /\ EditorsOK' /\ TracesOK'
    BY <2>2, <2>3, <2>4 DEF AInv, TypeOK, ReadsOK, RowsOK, ShownIsPast, EditorsOK,
                            TracesOK, TraceIsOfRefusal, Answered
  <2>6. ASSUME NEW m \in narrowings, m.live PROVE Awaited(m)'
    BY <2>4, <2>6 DEF AInv, AskingOK, Awaited, TraceReads
  <2>7. n.live => Awaited(answer)'
    BY <2>2, <2>4 DEF AInv, AskingOK, Awaited, TraceReads, Answered
  <2>8. AskingOK'
    <3>1. CASE n.live
      <4>1. \A m \in narrowings \ {n} : m.live => m.of # answer.of
        BY <2>2, <3>1, AwaitedAlone DEF Answered
      <4>2. narrowings' = (narrowings \ {n}) \cup {answer}
        BY <2>3, <3>1
      <4> QED
        BY <2>6, <2>7, <3>1, <4>1, <4>2 DEF AInv, AskingOK
    <3>2. CASE ~n.live
      BY <2>3, <2>6, <3>2 DEF AInv, AskingOK
    <3> QED
      BY <3>1, <3>2
  <2> QED
    BY <2>5, <2>8 DEF AInv
<1> QED
  BY <1>2, <1>3 DEF Serve

\* The editor of a narrowing that was awaited is free again; what it waited for
\* is gone, or no longer awaited.
LEMMA Unlocked ==
    ASSUME AInv, NEW n \in narrowings, n.live,
           NEW selected \in SUBSET Roles,
           editor' = [editor EXCEPT ![n.of].selected = selected, ![n.of].submitting = FALSE],
           narrowings' \subseteq Narrowing,
           \A m \in narrowings' : m.live => m \in narrowings \ {n},
           UNCHANGED <<page, phase>>,
           \A d \in Definitions : d # n.of => shown'[d] = shown[d]
    PROVE  /\ editor' \in [Definitions -> Editor]
           /\ EditorsOK'
           /\ \A m \in narrowings' : m.live =>
                 /\ m \in narrowings /\ Awaited(m) /\ m.of \in Definitions /\ m.of # n.of
                 /\ editor'[m.of] = editor[m.of] /\ shown'[m.of] = shown[m.of]
           /\ \A m, k \in narrowings' : m.live /\ k.live /\ m.of = k.of => m = k
<1>1. /\ editor \in [Definitions -> Editor] /\ n.of \in Definitions
      /\ editor[n.of] \in Editor /\ editor[n.of].pending = None
      /\ \A m \in narrowings \ {n} : m.live => m.of # n.of
  BY AwaitedAlone DEF AInv, TypeOK
<1>2. editor' \in [Definitions -> Editor]
  BY <1>1 DEF Editor
<1>3. /\ \A d \in Definitions : d # n.of => editor'[d] = editor[d]
      /\ editor'[n.of].pending = None /\ editor'[n.of].submitting = FALSE
  BY <1>1 DEF Editor
<1>4. EditorsOK'
  BY <1>3 DEF AInv, EditorsOK
<1>5. ASSUME NEW m \in narrowings', m.live
      PROVE  /\ m \in narrowings /\ Awaited(m) /\ m.of \in Definitions /\ m.of # n.of
             /\ editor'[m.of] = editor[m.of] /\ shown'[m.of] = shown[m.of]
  <2>1. m \in narrowings \ {n} /\ m.of \in Definitions
    BY <1>5 DEF Narrowing
  <2> QED
    BY <1>1, <1>3, <1>5, <2>1 DEF AInv, AskingOK
<1>6. \A m, k \in narrowings' : m.live /\ k.live /\ m.of = k.of => m = k
  BY <1>5 DEF AInv, AskingOK
<1> QED
  BY <1>2, <1>4, <1>5, <1>6

LEMMA FinishNarrowingStep ==
    ASSUME AInv, NEW n \in narrowings, FinishNarrowing(n)
    PROVE  AInv'
<1>1. /\ n.live /\ n \in Narrowing /\ n.of \in Definitions /\ n.result \in Binding
      /\ IsPast(n.result, binding[n.of])
      /\ page = "authorization" /\ phase = "ready"
  BY AwaitedAlone DEF FinishNarrowing, Awaited
<1>2. /\ shown' \in [Definitions -> Maybe(Binding)] /\ shown'[n.of] = n.result
      /\ \A d \in Definitions : d # n.of => shown'[d] = shown[d]
  BY <1>1 DEF AInv, TypeOK, FinishNarrowing, Maybe
<1>3. /\ n.result.roles \in SUBSET Roles /\ n.result # None
      /\ \A m \in narrowings' : m \in narrowings \ {n}
      /\ narrowings' \subseteq Narrowing
  BY <1>1, Absent DEF AInv, TypeOK, FinishNarrowing, Binding
<1>4. /\ editor' = [editor EXCEPT ![n.of].selected = n.result.roles, ![n.of].submitting = FALSE]
      /\ UNCHANGED <<page, phase>>
  BY DEF FinishNarrowing
<1>5. /\ editor' \in [Definitions -> Editor]
      /\ EditorsOK'
      /\ \A m \in narrowings' : m.live =>
            /\ m \in narrowings /\ Awaited(m) /\ m.of \in Definitions /\ m.of # n.of
            /\ editor'[m.of] = editor[m.of] /\ shown'[m.of] = shown[m.of]
      /\ \A m, k \in narrowings' : m.live /\ k.live /\ m.of = k.of => m = k
  BY <1>1, <1>2, <1>3, <1>4, Unlocked
<1>6. TypeOK'
  BY <1>2, <1>3, <1>5 DEF AInv, TypeOK, FinishNarrowing
<1>7. ReadsOK'
  BY <1>1 DEF AInv, ReadsOK, FinishNarrowing
<1>8. RowsOK'
  BY <1>1, <1>2, <1>3 DEF AInv, RowsOK, ShownIsPast, FinishNarrowing
<1>9. AskingOK'
  <2> SUFFICES ASSUME NEW m \in narrowings', m.live PROVE Awaited(m)'
    BY <1>5 DEF AskingOK
  <2> QED
    BY <1>5 DEF Awaited, TraceReads, FinishNarrowing
<1>10. TracesOK'
  BY <1>1 DEF AInv, TracesOK, TraceIsOfRefusal, FinishNarrowing
<1> QED
  BY <1>5, <1>6, <1>7, <1>8, <1>9, <1>10 DEF AInv

LEMMA FailNarrowingStep ==
    ASSUME AInv, NEW n \in narrowings, FailNarrowing(n)
    PROVE  AInv'
<1>1. /\ n.live /\ n \in Narrowing /\ n.of \in Definitions /\ n.of \in Slots
      /\ n.audit \in Maybe(Audits)
      /\ page = "authorization" /\ phase = "ready"
      /\ trace[n.of].of = None /\ TraceReads(n.of) = {}
  BY AwaitedAlone DEF FailNarrowing, Awaited, Narrowing, Slots
<1>2. /\ editor \in [Definitions -> Editor] /\ editor[n.of] \in Editor
      /\ editor[n.of].selected \in SUBSET Roles
  BY <1>1 DEF AInv, TypeOK, Editor
<1>3. editor' = [editor EXCEPT ![n.of].selected = editor[n.of].selected,
                              ![n.of].submitting = FALSE]
  BY <1>1, <1>2 DEF FailNarrowing, Editor
<1>4. /\ \A m \in narrowings' : m \in narrowings \ {n}
      /\ narrowings' \subseteq Narrowing
      /\ UNCHANGED <<page, phase, shown>>
  BY DEF AInv, TypeOK, FailNarrowing
<1>5. /\ editor' \in [Definitions -> Editor]
      /\ EditorsOK'
      /\ \A m \in narrowings' : m.live =>
            /\ m \in narrowings /\ Awaited(m) /\ m.of \in Definitions /\ m.of # n.of
            /\ editor'[m.of] = editor[m.of] /\ shown'[m.of] = shown[m.of]
      /\ \A m, k \in narrowings' : m.live /\ k.live /\ m.of = k.of => m = k
  BY <1>1, <1>2, <1>3, <1>4, Unlocked
<1>6. /\ refusal' \in [Slots -> Maybe(Audits)]
      /\ \A s \in Slots : s # n.of => refusal'[s] = refusal[s]
  BY <1>1 DEF AInv, TypeOK, FailNarrowing
<1>7. TypeOK'
  BY <1>4, <1>5, <1>6 DEF AInv, TypeOK, FailNarrowing
<1>8. ReadsOK' /\ RowsOK'
  BY DEF AInv, ReadsOK, RowsOK, ShownIsPast, FailNarrowing
<1>9. AskingOK'
  <2> SUFFICES ASSUME NEW m \in narrowings', m.live PROVE Awaited(m)'
    BY <1>5 DEF AskingOK
  <2>1. Awaited(m) /\ m.of \in Slots /\ m.of # n.of /\ editor'[m.of] = editor[m.of]
    BY <1>5 DEF Slots
  <2> QED
    BY <1>6, <2>1 DEF Awaited, TraceReads, FailNarrowing
<1>10. TracesOK'
  <2>1. \A r \in reads : r.slot \in Slots /\ (r.kind = "trace" => r.slot # n.of)
    BY <1>1 DEF AInv, TypeOK, Read, TraceReads
  <2> QED
    BY <1>1, <1>6, <2>1 DEF AInv, TracesOK, TraceIsOfRefusal, FailNarrowing
<1> QED
  BY <1>5, <1>7, <1>8, <1>9, <1>10 DEF AInv

LEMMA LoseNarrowingStep ==
    ASSUME AInv, NEW n \in narrowings, LoseNarrowing(n)
    PROVE  AInv'
<1>1. n.live /\ n \in Narrowing /\ n.of \in Definitions
  BY AwaitedAlone DEF LoseNarrowing
<1>2. /\ editor \in [Definitions -> Editor] /\ editor[n.of] \in Editor
      /\ editor[n.of].selected \in SUBSET Roles
  BY <1>1 DEF AInv, TypeOK, Editor
<1>3. editor' = [editor EXCEPT ![n.of].selected = editor[n.of].selected,
                              ![n.of].submitting = FALSE]
  BY <1>1, <1>2 DEF LoseNarrowing, Editor
<1>4. /\ \A m \in narrowings' : m.live => m \in narrowings \ {n}
      /\ narrowings' \subseteq Narrowing
      /\ UNCHANGED <<page, phase, shown>>
  <2>1. [n EXCEPT !.live = FALSE] \in Narrowing /\ ~[n EXCEPT !.live = FALSE].live
    BY <1>1 DEF Narrowing
  <2> QED
    BY <2>1 DEF AInv, TypeOK, LoseNarrowing
<1>5. /\ editor' \in [Definitions -> Editor]
      /\ EditorsOK'
      /\ \A m \in narrowings' : m.live =>
            /\ m \in narrowings /\ Awaited(m) /\ m.of \in Definitions /\ m.of # n.of
            /\ editor'[m.of] = editor[m.of] /\ shown'[m.of] = shown[m.of]
      /\ \A m, k \in narrowings' : m.live /\ k.live /\ m.of = k.of => m = k
  BY <1>1, <1>2, <1>3, <1>4, Unlocked
<1>6. TypeOK'
  BY <1>4, <1>5 DEF AInv, TypeOK, LoseNarrowing
<1>7. ReadsOK' /\ RowsOK' /\ TracesOK'
  BY DEF AInv, ReadsOK, RowsOK, ShownIsPast, TracesOK, TraceIsOfRefusal, LoseNarrowing
<1>8. AskingOK'
  <2> SUFFICES ASSUME NEW m \in narrowings', m.live PROVE Awaited(m)'
    BY <1>5 DEF AskingOK
  <2> QED
    BY <1>5 DEF Awaited, TraceReads, LoseNarrowing
<1> QED
  BY <1>5, <1>6, <1>7, <1>8 DEF AInv

LEMMA AuthorizationPagesStep == ASSUME AInv, Step PROVE AInv'
<1>1. CASE Retry
  <2>1. page \in Maybe(Pages)
    BY DEF AInv, TypeOK
  <2> QED
    BY <1>1, <2>1, MountStep DEF Retry
<1>2. ASSUME NEW s \in Slots, OpenTrace(s) PROVE AInv'
  BY <1>2, OpenTraceStep
<1>3. ASSUME NEW s \in Slots, SettleRead(s) PROVE AInv'
  BY <1>3, FinishHoldersStep, FinishListsStep, FinishBindingStep, FailLoadStep,
     FinishTraceStep DEF SettleRead
<1>4. ASSUME NEW d \in Definitions, User(d) PROVE AInv'
  BY <1>4, ToggleStep, ReviewStep, DismissStep, ConfirmStep DEF User
<1>5. ASSUME NEW d \in Definitions, SettleNarrowing(d) PROVE AInv'
  BY <1>5, FinishNarrowingStep, FailNarrowingStep, LoseNarrowingStep DEF SettleNarrowing
<1>6. ASSUME NEW d \in Definitions, OtherNarrows(d) PROVE AInv'
  BY <1>6, OtherNarrowsStep
<1>7. ASSUME NEW r \in reads, ServeBinding(r) PROVE AInv'
  BY <1>7, ServeBindingStep
<1>8. ASSUME NEW n \in narrowings, Serve(n) PROVE AInv'
  BY <1>8, ServeStep
<1> QED
  BY <1>1, <1>2, <1>3, <1>4, <1>5, <1>6, <1>7, <1>8 DEF Step

LEMMA AuthorizationPagesRest == ASSUME AInv, UNCHANGED vars PROVE AInv'
<1>1. TypeOK' /\ ReadsOK' /\ RowsOK' /\ EditorsOK' /\ TracesOK'
  BY DEF AInv, TypeOK, ReadsOK, RowsOK, ShownIsPast, EditorsOK, TracesOK,
         TraceIsOfRefusal, vars
<1>2. AskingOK'
  BY DEF AInv, AskingOK, Awaited, TraceReads, vars
<1> QED
  BY <1>1, <1>2 DEF AInv

-----------------------------------------------------------------------------
(***************************************************************************)
(* The configuration pages.                                                *)
(***************************************************************************)

LEMMA AbsentChange == None \notin C!Change /\ None \notin C!Surfaces
BY AbsentAssumption

LEMMA WithinOK ==
    ASSUME NEW a \in C!Change
    PROVE  /\ Within(a, a)
           /\ \A b, e \in C!Change : Within(a, b) /\ Within(b, e) => Within(a, e)
BY DEF C!Change, Within

LEMMA CallOK ==
    ASSUME NEW id \in Nat, NEW act \in {"read", "save", "release"}, NEW ordinal \in Nat
    PROVE  LET c == C!CallOf(id, act, ordinal)
           IN  c \in C!Call /\ c.act = act /\ c.live /\ c.result = None
BY DEF C!CallOf, C!Call, C!Maybe

LEMMA FirstCallsOK ==
    ASSUME NEW q
    PROVE  /\ C!FirstCalls(q) \subseteq C!Call
           /\ q = None => C!FirstCalls(q) = {}
           /\ \A c, e \in C!FirstCalls(q) : c = e
           /\ \A c \in C!FirstCalls(q) : c.act = "read" /\ c.live /\ c.result = None
<1>1. \A c \in C!FirstCalls(q) : c = C!CallOf(0, "read", 0) /\ q # None
  BY DEF C!FirstCalls
<1> QED
  BY <1>1, CallOK

LEMMA ConfigurationInit == ASSUME C!Init PROVE CInv
<1>1. /\ change \in C!Change /\ surface \in C!Maybe(C!Surfaces) /\ proposed = None
      /\ busy = FALSE /\ acts = 0
      /\ stage = IF surface = None THEN "away" ELSE "loading"
      /\ asked = C!FirstCalls(surface)
  BY DEF C!Init, C!Change
<1>2. C!TypeOK
  BY <1>1, FirstCallsOK DEF C!TypeOK, C!Maybe
<1>3. CallsOK
  BY <1>1, FirstCallsOK DEF CallsOK
<1> QED
  BY <1>1, <1>2, <1>3 DEF CInv, C!ProposalIsPast

LEMMA VisitStep ==
    ASSUME CInv, NEW q \in C!Maybe(C!Surfaces), C!Visit(q)
    PROVE  CInv'
<1>1. \A c \in C!Abandoned : c \in C!Call /\ c.act # "read" /\ ~c.live /\ c.result = None
  <2> SUFFICES ASSUME NEW c \in C!Abandoned
               PROVE  c \in C!Call /\ c.act # "read" /\ ~c.live /\ c.result = None
    OBVIOUS
  <2>1. PICK e \in asked : /\ e.act # "read" /\ e.result = None
                           /\ c = [e EXCEPT !.live = FALSE]
    BY DEF C!Abandoned
  <2> QED
    BY <2>1 DEF CInv, C!TypeOK, C!Call
<1>2. /\ asked' = C!FirstCalls(q) \cup C!Abandoned
      /\ surface' = q /\ proposed' = None /\ busy' = FALSE
      /\ stage' = IF q = None THEN "away" ELSE "loading"
      /\ UNCHANGED <<change, acts>>
  BY DEF C!Visit
<1>3. C!TypeOK'
  BY <1>1, <1>2, FirstCallsOK DEF CInv, C!TypeOK, C!Maybe
<1>4. CallsOK'
  BY <1>1, <1>2, FirstCallsOK DEF CallsOK
<1> QED
  BY <1>2, <1>3, <1>4 DEF CInv, C!ProposalIsPast

LEMMA ActStep ==
    ASSUME CInv, C!Usable, NEW act \in {"save", "release"}, NEW ordinal \in Nat,
           C!Act(act, ordinal)
    PROVE  CInv'
<1>1. PICK c : c = C!CallOf(acts', act, ordinal)
  OBVIOUS
<1>2. acts' \in Nat
  BY DEF CInv, C!TypeOK, C!Act
<1>3. c \in C!Call /\ c.act = act /\ c.live /\ c.result = None
  BY <1>1, <1>2, CallOK
<1>4. /\ asked' = asked \cup {c} /\ busy' = TRUE
      /\ UNCHANGED <<change, surface, stage, proposed>>
  BY <1>1 DEF C!Act
<1>5. \A e \in asked : ~e.live /\ e.act # "read"
  BY DEF CInv, CallsOK, C!Usable
<1>6. C!TypeOK'
  BY <1>2, <1>3, <1>4 DEF CInv, C!TypeOK
<1>7. CallsOK'
  BY <1>3, <1>4, <1>5 DEF CInv, CallsOK, C!Usable
<1> QED
  BY <1>4, <1>6, <1>7 DEF CInv, C!ProposalIsPast, C!Usable

\* The change at the service only grows.
LEMMA ChangeGrows ==
    ASSUME CInv, change' \in C!Change, Within(change, change'),
           UNCHANGED <<surface, stage, proposed, busy>>
    PROVE  /\ \A c \in asked : c.result # None => Within(c.result, change')
           /\ C!ProposalIsPast'
<1>1. \A c \in asked : c.result # None => c.result \in C!Change /\ Within(c.result, change)
  BY DEF CInv, CallsOK, C!TypeOK, C!Call, C!Maybe
<1>2. proposed # None => proposed \in C!Change /\ Within(proposed, change)
  BY DEF CInv, C!TypeOK, C!Maybe, C!ProposalIsPast, Within
<1>3. change \in C!Change
  BY DEF CInv, C!TypeOK
<1>4. \A c \in asked : c.result # None => Within(c.result, change')
  BY <1>1, <1>3, WithinOK
<1>5. proposed # None => Within(proposed, change')
  BY <1>2, <1>3, WithinOK
<1> QED
  BY <1>4, <1>5 DEF C!ProposalIsPast, Within

LEMMA SavedOK ==
    ASSUME CInv, NEW ordinal \in Nat
    PROVE  /\ C!Saved \in C!Change /\ Within(change, C!Saved)
           /\ C!Released(ordinal) \in C!Change /\ Within(change, C!Released(ordinal))
BY DEF CInv, C!TypeOK, C!Change, C!Saved, C!Released, Within

LEMMA ConfigurationServeStep ==
    ASSUME CInv, NEW c \in asked, C!Serve(c)
    PROVE  CInv'
<1>1. c \in C!Call /\ change \in C!Change
  BY DEF CInv, C!TypeOK
<1>2. change' \in C!Change /\ Within(change, change')
  <2>1. CASE UNCHANGED change
    BY <1>1, <2>1, WithinOK
  <2>2. CASE change' = C!Saved
    BY <2>2, SavedOK
  <2>3. CASE change' = C!Released(c.ordinal)
    <3>1. c.ordinal \in Nat
      BY <1>1 DEF C!Call
    <3> QED
      BY <2>3, <3>1, SavedOK
  <2> QED
    BY <2>1, <2>2, <2>3 DEF C!Serve
<1>3. PICK answer : answer = [c EXCEPT !.result = change']
  OBVIOUS
<1>4. /\ answer \in C!Call /\ answer.act = c.act /\ answer.live = c.live
      /\ answer.result = change'
  BY <1>1, <1>2, <1>3 DEF C!Call, C!Maybe
<1>5. /\ asked' = (asked \ {c}) \cup IF c.live THEN {answer} ELSE {}
      /\ UNCHANGED <<surface, stage, proposed, busy, acts>>
  BY <1>3 DEF C!Serve
<1>6. C!TypeOK'
  BY <1>2, <1>4, <1>5 DEF CInv, C!TypeOK
<1>7. /\ \A e \in asked : e.result # None => Within(e.result, change')
      /\ C!ProposalIsPast'
  BY <1>2, <1>5, ChangeGrows
<1>8. Within(change', change')
  BY <1>2, WithinOK
<1>9. CallsOK'
  <2>1. \A e \in asked \ {c} : c.live => ~e.live
    BY DEF CInv, CallsOK
  <2>2. c.live /\ c.act # "read" => Within(proposed, change')
    <3> HAVE c.live /\ c.act # "read"
    <3>1. proposed # None
      BY DEF CInv, CallsOK
    <3> QED
      BY <1>5, <1>7, <3>1 DEF C!ProposalIsPast, Within
  <2> QED
    BY <1>4, <1>5, <1>7, <1>8, <2>1, <2>2 DEF CInv, CallsOK
<1> QED
  BY <1>5, <1>6, <1>7, <1>9 DEF CInv

LEMMA ConfigurationFinishStep ==
    ASSUME CInv, NEW c \in asked, C!Finish(c)
    PROVE  CInv'
<1>1. c \in C!Call /\ c.result \in C!Change /\ Within(c.result, change)
  BY DEF CInv, CallsOK, C!TypeOK, C!Call, C!Maybe, C!Finish
<1>2. \A e \in asked' : e \in asked /\ ~e.live /\ e.act # "read"
  BY DEF CInv, CallsOK, C!Finish
<1>3. /\ c.act = "read" => stage' = "ready" /\ busy' = busy /\ ~busy
      /\ c.act # "read" => stage' = stage /\ busy' = FALSE /\ stage = "ready"
      /\ surface # None
  BY AbsentChange DEF CInv, CallsOK, C!TypeOK, C!Finish
<1>4. /\ proposed' = IF surface = "proposal" THEN c.result ELSE None
      /\ UNCHANGED <<change, surface, acts>>
  BY DEF C!Finish
<1>5. C!TypeOK'
  BY <1>1, <1>2, <1>3, <1>4 DEF CInv, C!TypeOK, C!Maybe
<1>6. CallsOK'
  BY <1>2, <1>4 DEF CInv, CallsOK
<1> QED
  BY <1>1, <1>3, <1>4, <1>5, <1>6, AbsentChange DEF CInv, C!ProposalIsPast, Within

LEMMA ConfigurationFailStep ==
    ASSUME CInv, NEW c \in asked, C!Fail(c)
    PROVE  CInv'
<1>1. [c EXCEPT !.live = FALSE] \in C!Call /\ ~[c EXCEPT !.live = FALSE].live
  BY DEF CInv, C!TypeOK, C!Call
<1>2. \A e \in asked' : /\ e \in C!Call /\ ~e.live /\ e.act # "read"
                        /\ e.result # None => e \in asked
  <2>1. \A e \in asked \ {c} : e \in C!Call /\ ~e.live /\ e.act # "read"
    BY DEF CInv, CallsOK, C!TypeOK, C!Fail
  <2>2. /\ [c EXCEPT !.live = FALSE].act = c.act
        /\ [c EXCEPT !.live = FALSE].result = c.result
    BY DEF CInv, C!TypeOK, C!Call
  <2> QED
    BY <1>1, <2>1, <2>2 DEF C!Fail
<1>3. /\ stage' = "failed" /\ busy' \in BOOLEAN /\ surface # None
      /\ UNCHANGED <<change, surface, proposed, acts>>
  BY DEF CInv, CallsOK, C!TypeOK, C!Fail
<1>4. C!TypeOK'
  <2>1. asked' \subseteq C!Call
    BY <1>2
  <2>2. (stage' = "away") = (surface' = None)
    BY <1>3
  <2> QED
    BY <1>3, <2>1, <2>2 DEF CInv, C!TypeOK
<1>5. CallsOK'
  <2>1. \A e \in asked' : ~e.live /\ e.act # "read"
    BY <1>2
  <2>2. \A e \in asked' : e.result # None => Within(e.result, change)
    BY <1>2 DEF CInv, CallsOK
  <2> QED
    BY <1>3, <2>1, <2>2 DEF CallsOK
<1> QED
  BY <1>3, <1>4, <1>5 DEF CInv, C!ProposalIsPast

LEMMA OtherAuthorStep == ASSUME CInv, C!OtherAuthor PROVE CInv'
<1>1. change' \in C!Change /\ Within(change, change')
  <2>1. CASE change' = C!Saved
    BY <2>1, SavedOK
  <2>2. CASE \/ change' = [change EXCEPT !.edited = TRUE, !.checked = FALSE]
             \/ change' = [change EXCEPT !.checked = TRUE]
    <3>1. change \in C!Change
      BY DEF CInv, C!TypeOK
    <3>2. /\ change' \in C!Change
          /\ change'.versions = change.versions /\ change'.released = change.released
      BY <2>2, <3>1 DEF C!Change
    <3> QED
      BY <3>1, <3>2 DEF C!Change, Within
  <2> QED
    BY <2>1, <2>2 DEF C!OtherAuthor
<1>2. UNCHANGED <<surface, stage, proposed, busy, asked, acts>>
  BY DEF C!OtherAuthor
<1>3. /\ \A c \in asked : c.result # None => Within(c.result, change')
      /\ C!ProposalIsPast'
  BY <1>1, <1>2, ChangeGrows
<1> QED
  BY <1>1, <1>2, <1>3 DEF CInv, C!TypeOK, CallsOK

LEMMA ConfigurationPagesStep == ASSUME CInv, C!Step PROVE CInv'
<1>1. CASE C!Save
  BY <1>1, ActStep DEF C!Save
<1>2. CASE C!Release
  <2>1. proposed.versions \in Nat
    BY <1>2 DEF CInv, C!TypeOK, C!Maybe, C!Change, C!Release, C!Usable
  <2> QED
    BY <1>2, <2>1, ActStep DEF C!Release
<1>3. CASE C!OtherAuthor
  BY <1>3, OtherAuthorStep
<1>4. CASE C!Settle
  BY <1>4, ConfigurationFinishStep, ConfigurationFailStep DEF C!Settle
<1>5. ASSUME NEW c \in asked, C!Serve(c) PROVE CInv'
  BY <1>5, ConfigurationServeStep
<1> QED
  BY <1>1, <1>2, <1>3, <1>4, <1>5 DEF C!Step

LEMMA ConfigurationPagesRest == ASSUME CInv, UNCHANGED configuration PROVE CInv'
BY DEF CInv, C!TypeOK, CallsOK, C!ProposalIsPast, configuration

-----------------------------------------------------------------------------
(***************************************************************************)
(* The theorems.                                                           *)
(***************************************************************************)

LEMMA NavigateStep ==
    ASSUME AInv, CInv, NEW p \in Maybe(Pages), NEW q \in Maybe(C!Surfaces), Navigate(p, q)
    PROVE  AInv' /\ CInv'
<1>1. q \in C!Maybe(C!Surfaces)
  BY DEF Maybe, C!Maybe
<1> QED
  BY <1>1, MountStep, VisitStep DEF Navigate

LEMMA AppStep == ASSUME AppInv, [AppNext]_all PROVE AppInv'
<1>1. CASE AuthorizationStep
  BY <1>1, AuthorizationPagesStep, ConfigurationPagesRest DEF AuthorizationStep, AppInv
<1>2. CASE ConfigurationStep
  BY <1>2, ConfigurationPagesStep, AuthorizationPagesRest DEF ConfigurationStep, AppInv
<1>3. ASSUME NEW p \in Maybe(Pages), NEW q \in Maybe(C!Surfaces), Navigate(p, q)
      PROVE  AppInv'
  <2>1. AInv' /\ CInv'
    BY <1>3, NavigateStep DEF AppInv
  <2>2. visits' \in Nat
    BY <1>3 DEF Navigate, AppInv
  <2> QED
    BY <2>1, <2>2 DEF AppInv
<1>4. CASE UNCHANGED all
  <2>1. UNCHANGED vars /\ UNCHANGED configuration /\ UNCHANGED visits
    BY <1>4 DEF all
  <2> QED
    BY <2>1, AuthorizationPagesRest, ConfigurationPagesRest DEF AppInv
<1> QED
  BY <1>1, <1>2, <1>3, <1>4 DEF AppNext

\* The inductive invariant of the administration pages holds throughout.
THEOREM AppInvariance == AppSpec => []AppInv
<1>1. AppInit => AppInv
  BY InitStep, ConfigurationInit DEF AppInit, AppInv
<1>2. AppInv /\ [AppNext]_all => AppInv'
  BY AppStep
<1> QED
  BY <1>1, <1>2, PTL DEF AppSpec

\* Every variable of the administration pages keeps its type.
THEOREM AppTypes == AppSpec => []AppTypeOK
<1>1. AppInv => AppTypeOK
  BY DEF AppInv, AInv, CInv, AppTypeOK
<1> QED
  BY <1>1, AppInvariance, PTL

\* Whatever a page shows, its service has or had (AuthorizationAdminPage's onSaved,
\* send's reading of a 422), whoever else narrows, edits, saves or releases.
THEOREM AppTruth == AppSpec => []AppShowsPast
<1>1. AppInv => AppShowsPast
  BY DEF AppInv, AInv, CInv, RowsOK, AppShowsPast
<1> QED
  BY <1>1, AppInvariance, PTL

\* An editor asks for a part of what its row shows (selectedRoles).
THEOREM AsksWithin == AppSpec => []AsksWithinShown
<1>1. AppInv => AsksWithinShown
  <2> SUFFICES ASSUME AppInv, NEW n \in narrowings, n.live
               PROVE  shown[n.of] # None /\ n.roles \subseteq shown[n.of].roles
    BY DEF AsksWithinShown
  <2>1. Awaited(n) /\ shown[n.of] \in Binding
    BY AwaitedAlone DEF AppInv
  <2> QED
    BY <2>1, Absent DEF Awaited
<1> QED
  BY <1>1, AppInvariance, PTL

\* A trace that is told is of the refusal it stands under (its key).
THEOREM TracesFollow == AppSpec => []TraceIsOfRefusal
<1>1. AppInv => TraceIsOfRefusal
  BY DEF AppInv, AInv, TracesOK
<1> QED
  BY <1>1, AppInvariance, PTL

LEMMA RowsForward ==
    ASSUME AInv, Step
    PROVE  \A d \in Definitions :
              shown[d] # None /\ shown'[d] # None => shown'[d].revision >= shown[d].revision
<1>0. \A d \in Definitions : shown[d] # None => shown[d].revision \in Nat
  BY DEF AInv, TypeOK, Maybe, Binding
<1>1. CASE UNCHANGED shown
  BY <1>0, <1>1
<1>2. CASE shown' = NoRows
  BY <1>2 DEF NoRows
<1>3. ASSUME NEW r \in reads, FinishBinding(r)
      PROVE  \A d \in Definitions :
                shown[d] # None /\ shown'[d] # None => shown'[d].revision >= shown[d].revision
  <2>1. shown[r.slot] = None /\ r.slot \in Definitions
    BY <1>3 DEF AInv, ReadsOK, FinishBinding
  <2>2. \A d \in Definitions : d # r.slot => shown'[d] = shown[d]
    BY <1>3 DEF AInv, TypeOK, FinishBinding
  <2> QED
    BY <1>0, <2>1, <2>2
<1>4. ASSUME NEW n \in narrowings, FinishNarrowing(n)
      PROVE  \A d \in Definitions :
                shown[d] # None /\ shown'[d] # None => shown'[d].revision >= shown[d].revision
  <2>1. /\ n.of \in Definitions /\ n.result \in Binding
        /\ n.result.revision > shown[n.of].revision
        /\ shown[n.of] \in Binding
    BY <1>4, AwaitedAlone DEF FinishNarrowing, Awaited
  <2>2. /\ shown'[n.of] = n.result
        /\ \A d \in Definitions : d # n.of => shown'[d] = shown[d]
    BY <1>4, <2>1 DEF AInv, TypeOK, FinishNarrowing
  <2>3. n.result.revision >= shown[n.of].revision
    BY <2>1 DEF Binding
  <2> QED
    BY <1>0, <2>2, <2>3
<1>5. ASSUME NEW s \in Slots, SettleRead(s)
      PROVE  UNCHANGED shown \/ shown' = NoRows \/ \E r \in reads : FinishBinding(r)
  BY <1>5 DEF SettleRead, FinishHolders, FinishLists, FailLoad, FinishTrace
<1>6. ASSUME NEW d \in Definitions, SettleNarrowing(d)
      PROVE  UNCHANGED shown \/ \E n \in narrowings : FinishNarrowing(n)
  BY <1>6 DEF SettleNarrowing, FailNarrowing, LoseNarrowing
<1>7. \/ UNCHANGED shown \/ shown' = NoRows
      \/ \E r \in reads : FinishBinding(r)
      \/ \E n \in narrowings : FinishNarrowing(n)
  BY <1>5, <1>6 DEF Step, Retry, Mount, OpenTrace, User, Toggle, Review, Dismiss, Confirm,
                    OtherNarrows, ServeBinding, Serve
<1> QED
  BY <1>1, <1>2, <1>3, <1>4, <1>7

LEMMA ProposalForward ==
    ASSUME CInv, C!Step, proposed # None, proposed' # None
    PROVE  Within(proposed, proposed')
<1>1. proposed \in C!Change
  BY DEF CInv, C!TypeOK, C!Maybe
<1>2. CASE UNCHANGED proposed
  BY <1>1, <1>2, WithinOK
<1>3. ASSUME NEW c \in asked, C!Finish(c) PROVE Within(proposed, proposed')
  <2>1. c.act # "read"
    BY <1>3 DEF CInv, CallsOK
  <2> QED
    BY <1>3, <2>1 DEF CInv, CallsOK, C!Finish
<1> QED
  BY <1>2, <1>3 DEF C!Step, C!Save, C!Release, C!Act, C!OtherAuthor, C!Settle, C!Fail, C!Serve

\* No answer takes a page that stays mounted back to an earlier state of its
\* service (submitting, busy).
THEOREM AppForward == AppSpec => AppNeverGoesBack
<1>1. ASSUME AppInv, [AppNext]_all PROVE [GoesForward]_all
  <2>1. /\ \A d \in Definitions : shown[d] # None => shown[d].revision \in Nat
        /\ proposed # None => proposed \in C!Change
    BY <1>1 DEF AppInv, AInv, CInv, TypeOK, C!TypeOK, Maybe, C!Maybe, Binding
  <2>2. CASE AuthorizationStep
    <3>1. \A d \in Definitions :
             shown[d] # None /\ shown'[d] # None => shown'[d].revision >= shown[d].revision
      BY <1>1, <2>2, RowsForward DEF AppInv, AuthorizationStep
    <3>2. UNCHANGED proposed
      BY <2>2 DEF AuthorizationStep, configuration
    <3> QED
      BY <2>1, <3>1, <3>2 DEF GoesForward, C!Change
  <2>3. CASE ConfigurationStep
    <3>1. UNCHANGED shown
      BY <2>3 DEF ConfigurationStep, vars
    <3>2. proposed # None /\ proposed' # None => Within(proposed, proposed')
      BY <1>1, <2>3, ProposalForward DEF AppInv, ConfigurationStep
    <3>3. proposed # None /\ proposed' # None => proposed' \in C!Change
      BY <1>1, AppStep DEF AppInv, CInv, C!TypeOK, C!Maybe
    <3> QED
      BY <2>1, <3>1, <3>2, <3>3 DEF GoesForward, Within, C!Change
  <2>4. ASSUME NEW p \in Maybe(Pages), NEW q \in Maybe(C!Surfaces), Navigate(p, q)
        PROVE  GoesForward
    BY <2>4 DEF Navigate, Mount, NoRows, C!Visit, GoesForward
  <2> QED
    BY <1>1, <2>2, <2>3, <2>4 DEF AppNext
<1> QED
  BY <1>1, AppInvariance, PTL DEF AppSpec, AppNeverGoesBack

-----------------------------------------------------------------------------
(***************************************************************************)
(* Who waits has been heard: what the liveness of the pages rests on,      *)
(* beside the fairness of the calls.                                       *)
(***************************************************************************)

\* A page that loads has a read under way, and one for every row it still
\* lacks once it knows its rows.
LoadAwaited ==
    phase = "loading" =>
        \/ \E r \in reads : r.kind \in {"holders", "lists"}
        \/ /\ \E d \in Definitions : shown[d] = None
           /\ \A d \in Definitions : shown[d] = None =>
                 \E r \in reads : r.kind = "binding" /\ r.slot = d

\* A locked editor awaits a narrowing, a trace that is being read a read.
EditorsAwaited ==
    \A d \in Definitions : editor[d].submitting => \E n \in narrowings : n.live /\ n.of = d

TracesAwaited ==
    \A s \in Slots : trace[s].status = "loading" => TraceReads(s) # {}

\* The configuration pages wait for their read, or for the act they sent.
ConfigurationAwaited ==
    /\ stage = "loading" => \E c \in asked : c.live /\ c.act = "read"
    /\ busy => \E c \in asked : c.live /\ c.act # "read"

AppAwaits == LoadAwaited /\ EditorsAwaited /\ TracesAwaited /\ ConfigurationAwaited

LEMMA LoadStaysAwaited == ASSUME AInv, LoadAwaited, Step PROVE LoadAwaited'
<1>1. CASE /\ UNCHANGED <<phase, shown>>
           /\ \A r \in reads : r.kind # "trace" => r \in reads'
  BY <1>1 DEF LoadAwaited
<1>2. CASE phase' # "loading"
  BY <1>2 DEF LoadAwaited
<1>3. CASE Retry
  BY <1>3 DEF Retry, Mount, FirstReads, ReadOf, LoadAwaited, AInv, TypeOK, Maybe, Pages
<1>4. ASSUME NEW r \in reads, FinishLists(r) PROVE LoadAwaited'
  <2>1. shown' = NoRows /\ \A d \in Definitions : ReadOf("binding", d, None) \in reads'
    BY <1>4 DEF FinishLists, AInv, ReadsOK
  <2>2. \A d \in Definitions : /\ shown'[d] = None
                               /\ ReadOf("binding", d, None).kind = "binding"
                               /\ ReadOf("binding", d, None).slot = d
    BY <2>1 DEF NoRows, ReadOf
  <2> QED
    BY <2>1, <2>2, DefinitionsAssumption DEF LoadAwaited
<1>5. ASSUME NEW r \in reads, ServeBinding(r) PROVE LoadAwaited'
  <2> DEFINE s == [r EXCEPT !.result = binding[r.slot]]
  <2>1. s.kind = r.kind /\ s.slot = r.slot
    BY DEF AInv, TypeOK, Read
  <2>2. reads' = (reads \ {r}) \cup {s} /\ UNCHANGED <<phase, shown>> /\ r.kind = "binding"
    BY <1>5 DEF ServeBinding
  <2> HIDE DEF s
  <2> QED
    BY <2>1, <2>2 DEF LoadAwaited
<1>6. ASSUME NEW r \in reads, FinishBinding(r), phase' = "loading" PROVE LoadAwaited'
  <2>1. /\ r.slot \in Definitions /\ shown' = [shown EXCEPT ![r.slot] = r.result]
        /\ r.result # None /\ reads' = reads \ {r} /\ phase' = phase
    BY <1>6 DEF FinishBinding, AInv, ReadsOK
  <2>2. \E d \in Definitions : shown'[d] = None
    BY <1>6 DEF FinishBinding
  <2>3. \A q \in reads : q.kind \notin {"holders", "lists"}
    BY <1>6 DEF FinishBinding, AInv, ReadsOK
  <2>4. \A d \in Definitions : shown'[d] = None =>
           \E q \in reads' : q.kind = "binding" /\ q.slot = d
    <3> SUFFICES ASSUME NEW d \in Definitions, shown'[d] = None
                 PROVE  \E q \in reads' : q.kind = "binding" /\ q.slot = d
      OBVIOUS
    <3>1. d # r.slot /\ shown[d] = None
      BY <2>1 DEF AInv, TypeOK
    <3>2. PICK q \in reads : q.kind = "binding" /\ q.slot = d
      BY <1>6, <2>1, <2>3, <3>1 DEF LoadAwaited
    <3> QED
      BY <2>1, <3>1, <3>2
  <2> QED
    BY <2>2, <2>4 DEF LoadAwaited
<1>7. ASSUME NEW n \in narrowings, FinishNarrowing(n) PROVE phase' # "loading"
  BY <1>7 DEF FinishNarrowing, AInv, AskingOK, Awaited
<1>8. ASSUME NEW s \in Slots, OpenTrace(s) \/ SettleRead(s)
      PROVE  \/ phase' # "loading"
             \/ UNCHANGED <<phase, shown>> /\ \A r \in reads : r.kind # "trace" => r \in reads'
             \/ \E r \in reads : FinishLists(r) \/ FinishBinding(r)
  BY <1>8 DEF OpenTrace, SettleRead, FinishHolders, FailLoad, FinishTrace
<1>9. ASSUME NEW d \in Definitions, User(d) \/ OtherNarrows(d)
      PROVE  UNCHANGED <<phase, shown>> /\ \A r \in reads : r.kind # "trace" => r \in reads'
  BY <1>9 DEF User, Toggle, Review, Dismiss, Confirm, TraceReads, OtherNarrows
<1>10. ASSUME NEW d \in Definitions, SettleNarrowing(d)
       PROVE  \/ UNCHANGED <<phase, shown, reads>>
              \/ \E n \in narrowings : FinishNarrowing(n)
  BY <1>10 DEF SettleNarrowing, FailNarrowing, LoseNarrowing
<1>11. ASSUME NEW n \in narrowings, Serve(n) PROVE UNCHANGED <<phase, shown, reads>>
  BY <1>11 DEF Serve
<1> QED
  BY <1>1, <1>2, <1>3, <1>4, <1>5, <1>6, <1>7, <1>8, <1>9, <1>10, <1>11 DEF Step

\* A page that was mounted afresh has no locked editor.
LEMMA EditorsStayAwaited == ASSUME AInv, EditorsAwaited, Step PROVE EditorsAwaited'
<1>0. editor \in [Definitions -> Editor] /\ narrowings \subseteq Narrowing
  BY DEF AInv, TypeOK
<1>1. CASE /\ \A d \in Definitions : editor'[d].submitting => editor[d].submitting
           /\ narrowings' = narrowings
  BY <1>1 DEF EditorsAwaited
<1>2. CASE Retry
  BY <1>2, FreshEditorOK DEF Retry, Mount, NoEditors, EditorsAwaited
<1>3. ASSUME NEW d \in Definitions, Confirm(d) PROVE EditorsAwaited'
  <2>1. Request(d).live /\ Request(d).of = d
    BY DEF Request
  <2>2. /\ narrowings' = narrowings \cup {Request(d)}
        /\ \A e \in Definitions : e # d => editor'[e] = editor[e]
    BY <1>0, <1>3 DEF Confirm
  <2> QED
    BY <2>1, <2>2 DEF EditorsAwaited
<1>4. ASSUME NEW n \in narrowings, Serve(n) PROVE EditorsAwaited'
  <2>1. PICK m : /\ m.live = n.live /\ m.of = n.of
                 /\ narrowings' = (narrowings \ {n}) \cup IF n.live THEN {m} ELSE {}
    <3>1. CASE narrowings' = (narrowings \ {n}) \cup
                  IF n.live THEN {[n EXCEPT !.status = "accepted", !.result = binding'[n.of]]}
                  ELSE {}
      <4>1. /\ [n EXCEPT !.status = "accepted", !.result = binding'[n.of]].live = n.live
            /\ [n EXCEPT !.status = "accepted", !.result = binding'[n.of]].of = n.of
        BY <1>0 DEF Narrowing
      <4> QED
        BY <3>1, <4>1
    <3>2. ASSUME NEW a \in Maybe(Audits),
                 narrowings' = (narrowings \ {n}) \cup
                    IF n.live THEN {[n EXCEPT !.status = "refused", !.audit = a]} ELSE {}
          PROVE  \E m : /\ m.live = n.live /\ m.of = n.of
                        /\ narrowings' = (narrowings \ {n}) \cup IF n.live THEN {m} ELSE {}
      <4>1. /\ [n EXCEPT !.status = "refused", !.audit = a].live = n.live
            /\ [n EXCEPT !.status = "refused", !.audit = a].of = n.of
        BY <1>0 DEF Narrowing
      <4> QED
        BY <3>2, <4>1
    <3> QED
      BY <1>4, <3>1, <3>2 DEF Serve
  <2>2. editor' = editor
    BY <1>4 DEF Serve
  <2> QED
    BY <2>1, <2>2 DEF EditorsAwaited
<1>5. ASSUME NEW n \in narrowings, FinishNarrowing(n) \/ FailNarrowing(n) \/ LoseNarrowing(n)
      PROVE  EditorsAwaited'
  <2>1. n.of \in Definitions /\ n.live
    BY <1>0, <1>5 DEF Narrowing, FinishNarrowing, FailNarrowing, LoseNarrowing
  <2>2. /\ ~editor'[n.of].submitting
        /\ \A e \in Definitions : e # n.of => editor'[e] = editor[e]
    <3>1. CASE FinishNarrowing(n)
      BY <1>0, <2>1, <3>1 DEF Editor, FinishNarrowing
    <3>2. CASE FailNarrowing(n) \/ LoseNarrowing(n)
      BY <1>0, <2>1, <3>2 DEF Editor, FailNarrowing, LoseNarrowing
    <3> QED
      BY <1>5, <3>1, <3>2
  <2>3. narrowings \ {n} \subseteq narrowings'
    BY <1>5 DEF FinishNarrowing, FailNarrowing, LoseNarrowing
  <2> QED
    BY <2>2, <2>3 DEF EditorsAwaited
<1>6. ASSUME NEW r \in reads, FinishBinding(r) PROVE EditorsAwaited'
  BY <1>6, <1>1, FreshEditorOK DEF FinishBinding, FreshEditor, EditorsAwaited
<1>7. ASSUME NEW s \in Slots, OpenTrace(s) \/ SettleRead(s)
      PROVE  UNCHANGED <<editor, narrowings>> \/ \E r \in reads : FinishBinding(r)
  BY <1>7 DEF OpenTrace, SettleRead, FinishHolders, FinishLists, FailLoad, FinishTrace
<1>8. ASSUME NEW d \in Definitions, Review(d) \/ Dismiss(d) \/ \E role \in Roles : Toggle(d, role)
      PROVE  /\ \A e \in Definitions : editor'[e].submitting => editor[e].submitting
             /\ narrowings' = narrowings
  BY <1>0, <1>8 DEF Review, Dismiss, Toggle, Editor
<1>9. ASSUME NEW d \in Definitions, OtherNarrows(d) PROVE UNCHANGED <<editor, narrowings>>
  BY <1>9 DEF OtherNarrows
<1>10. ASSUME NEW r \in reads, ServeBinding(r) PROVE UNCHANGED <<editor, narrowings>>
  BY <1>10 DEF ServeBinding
<1> QED
  BY <1>1, <1>2, <1>3, <1>4, <1>5, <1>6, <1>7, <1>8, <1>9, <1>10
  DEF Step, User, SettleNarrowing

\* Nothing is read of a trace while rows are loaded, so that a load that fails
\* drops no read of a trace that waits for it.
LEMMA TracesStayAwaited == ASSUME AInv, TracesAwaited, Step PROVE TracesAwaited'
<1>0. trace \in [Slots -> Trace] /\ reads \subseteq Read
  BY DEF AInv, TypeOK
<1>1. CASE /\ trace' = trace
           /\ \A r \in reads : r.kind = "trace" => r \in reads'
  BY <1>1 DEF TracesAwaited, TraceReads
<1>2. CASE Retry
  BY <1>2 DEF Retry, Mount, Unread, TracesAwaited
<1>3. ASSUME NEW r \in reads, FinishLists(r) \/ FailLoad(r) PROVE TracesAwaited'
  <2>1. phase = "loading" /\ trace' = trace
    BY <1>3 DEF FinishLists, FailLoad, AInv, ReadsOK
  <2>2. \A s \in Slots : trace[s].status # "loading"
    BY <2>1 DEF AInv, TracesOK, TracesAwaited, TraceReads
  <2> QED
    BY <2>1, <2>2 DEF TracesAwaited
<1>4. ASSUME NEW r \in reads, FinishTrace(r) PROVE TracesAwaited'
  <2>1. /\ r.slot \in Slots /\ trace'[r.slot].status # "loading"
        /\ \A s \in Slots : s # r.slot => trace'[s] = trace[s]
        /\ reads' = reads \ {r}
    BY <1>0, <1>4 DEF FinishTrace, Read
  <2> QED
    BY <2>1 DEF TracesAwaited, TraceReads
<1>5. ASSUME NEW s \in Slots, OpenTrace(s) PROVE TracesAwaited'
  <2>1. /\ ReadOf("trace", s, refusal[s]) \in reads' /\ reads \subseteq reads'
        /\ \A q \in Slots : q # s => trace'[q] = trace[q]
    BY <1>0, <1>5 DEF OpenTrace
  <2>2. /\ ReadOf("trace", s, refusal[s]).kind = "trace"
        /\ ReadOf("trace", s, refusal[s]).slot = s
    BY DEF ReadOf
  <2> QED
    BY <2>1, <2>2 DEF TracesAwaited, TraceReads
<1>6. ASSUME NEW d \in Definitions, Confirm(d) PROVE TracesAwaited'
  <2>1. /\ trace'[d].status # "loading" /\ reads' = reads \ TraceReads(d)
        /\ \A s \in Slots : s # d => trace'[s] = trace[s]
    BY <1>0, <1>6 DEF Confirm, Unread, Slots
  <2> QED
    BY <2>1 DEF TracesAwaited, TraceReads
<1>7. ASSUME NEW r \in reads,
             FinishHolders(r) \/ FinishBinding(r) \/ ServeBinding(r)
      PROVE  TracesAwaited'
  BY <1>7, <1>1 DEF FinishHolders, FinishBinding, ServeBinding
<1>8. ASSUME NEW d \in Definitions,
             \/ Review(d) \/ Dismiss(d) \/ \E role \in Roles : Toggle(d, role)
             \/ SettleNarrowing(d) \/ OtherNarrows(d)
      PROVE  UNCHANGED <<trace, reads>>
  BY <1>8 DEF Review, Dismiss, Toggle, SettleNarrowing, FinishNarrowing, FailNarrowing,
              LoseNarrowing, OtherNarrows
<1>9. ASSUME NEW n \in narrowings, Serve(n) PROVE UNCHANGED <<trace, reads>>
  BY <1>9 DEF Serve
<1> QED
  BY <1>1, <1>2, <1>3, <1>4, <1>5, <1>6, <1>7, <1>8, <1>9 DEF Step, User, SettleRead

LEMMA ConfigurationStaysAwaited ==
    ASSUME CInv, ConfigurationAwaited, C!Step
    PROVE  ConfigurationAwaited'
<1>0. asked \subseteq C!Call
  BY DEF CInv, C!TypeOK
<1>1. ASSUME NEW act \in {"save", "release"}, NEW ordinal, C!Act(act, ordinal), stage = "ready"
      PROVE  ConfigurationAwaited'
  <2>1. C!CallOf(acts', act, ordinal).live /\ C!CallOf(acts', act, ordinal).act = act
    BY DEF C!CallOf
  <2> QED
    BY <1>1, <2>1 DEF C!Act, ConfigurationAwaited
<1>2. CASE C!Save \/ C!Release
  BY <1>1, <1>2 DEF C!Save, C!Release, C!Usable
<1>3. CASE C!OtherAuthor
  BY <1>3 DEF C!OtherAuthor, ConfigurationAwaited
<1>4. ASSUME NEW c \in asked, C!Finish(c) \/ C!Fail(c) PROVE ConfigurationAwaited'
  <2>1. c.live
    BY <1>4 DEF C!Finish, C!Fail
  <2>2. stage' # "loading" /\ ~busy'
    BY <1>4, <2>1 DEF C!Finish, C!Fail, CInv, CallsOK
  <2> QED
    BY <2>2 DEF ConfigurationAwaited
<1>5. ASSUME NEW c \in asked, C!Serve(c) PROVE ConfigurationAwaited'
  <2> DEFINE answered == [c EXCEPT !.result = change']
  <2>1. answered.live = c.live /\ answered.act = c.act
    BY <1>0 DEF C!Call
  <2>2. asked' = (asked \ {c}) \cup (IF c.live THEN {answered} ELSE {})
        /\ UNCHANGED <<stage, busy>>
    BY <1>5 DEF C!Serve
  <2> HIDE DEF answered
  <2> QED
    BY <2>1, <2>2 DEF ConfigurationAwaited
<1> QED
  BY <1>2, <1>3, <1>4, <1>5 DEF C!Step, C!Settle

LEMMA FreshIsAwaited ==
    ASSUME NEW p \in Maybe(Pages), NEW q \in C!Maybe(C!Surfaces)
    PROVE  /\ Init /\ page = p => LoadAwaited /\ EditorsAwaited /\ TracesAwaited
           /\ Mount(p) => LoadAwaited' /\ EditorsAwaited' /\ TracesAwaited'
           /\ C!Init => ConfigurationAwaited
           /\ C!Visit(q) => ConfigurationAwaited'
<1>1. p # None => \E r \in FirstReads(p) : r.kind \in {"holders", "lists"}
  BY DEF FirstReads, ReadOf, Maybe, Pages
<1>2. \A d \in Definitions : ~NoEditors[d].submitting
  BY FreshEditorOK DEF NoEditors
<1>3. \A x : x # None => \E c \in C!FirstCalls(x) : c.live /\ c.act = "read"
  BY DEF C!FirstCalls, C!CallOf
<1>4. Init /\ page = p => LoadAwaited /\ EditorsAwaited /\ TracesAwaited
  BY <1>1, <1>2 DEF Init, LoadAwaited, EditorsAwaited, TracesAwaited, Unread
<1>5. Mount(p) => LoadAwaited' /\ EditorsAwaited' /\ TracesAwaited'
  BY <1>1, <1>2 DEF Mount, LoadAwaited, EditorsAwaited, TracesAwaited, Unread
<1>6. C!Init => ConfigurationAwaited
  BY <1>3 DEF C!Init, ConfigurationAwaited
<1>7. C!Visit(q) => ConfigurationAwaited'
  BY <1>3 DEF C!Visit, ConfigurationAwaited
<1> QED
  BY <1>4, <1>5, <1>6, <1>7

\* Whenever a page loads, an editor is locked, a trace is being read or the
\* proposal's page is busy, the call whose end ends that is under way: no lost,
\* late or refused call, and no page that was left, makes a page wait for nothing
\* (the catch and finally of each handler; with the fairness of the calls,
\* AppSettles).
THEOREM WaitsAreAwaited == AppSpec => []AppAwaits
<1>1. AppInit => AppAwaits
  BY FreshIsAwaited DEF AppInit, Init, C!Init, AppAwaits
<1>2. AppInv /\ AppAwaits /\ [AppNext]_all => AppAwaits'
  <2> SUFFICES ASSUME AppInv, AppAwaits, [AppNext]_all PROVE AppAwaits'
    OBVIOUS
  <2> USE DEF AppInv, AppAwaits
  <2>1. CASE AuthorizationStep
    <3>1. ConfigurationAwaited'
      BY <2>1 DEF AuthorizationStep, configuration, ConfigurationAwaited
    <3> QED
      BY <2>1, <3>1, LoadStaysAwaited, EditorsStayAwaited, TracesStayAwaited
      DEF AuthorizationStep
  <2>2. CASE ConfigurationStep
    <3>1. LoadAwaited' /\ EditorsAwaited' /\ TracesAwaited'
      BY <2>2 DEF ConfigurationStep, vars, LoadAwaited, EditorsAwaited, TracesAwaited, TraceReads
    <3> QED
      BY <2>2, <3>1, ConfigurationStaysAwaited DEF ConfigurationStep
  <2>3. ASSUME NEW p \in Maybe(Pages), NEW q \in Maybe(C!Surfaces), Navigate(p, q)
        PROVE  AppAwaits'
    <3>1. q \in C!Maybe(C!Surfaces)
      BY DEF Maybe, C!Maybe
    <3> QED
      BY <2>3, <3>1, FreshIsAwaited DEF Navigate
  <2>4. CASE UNCHANGED all
    BY <2>4 DEF all, vars, configuration, LoadAwaited, EditorsAwaited, TracesAwaited,
                TraceReads, ConfigurationAwaited
  <2> QED
    BY <2>1, <2>2, <2>3, <2>4 DEF AppNext
<1> QED
  BY <1>1, <1>2, AppInvariance, PTL DEF AppSpec

=============================================================================
