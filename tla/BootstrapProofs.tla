--------------------------- MODULE BootstrapProofs ---------------------------
(***************************************************************************)
(* Theorems about the running router and the identity of its keys, for     *)
(* every file, every count of peers and every order of the calls.          *)
(***************************************************************************)
EXTENDS RouterOwnership, TLAPS

Ended == {"crashed", "hung"}

\* Reading, hashing or freeing ends the process, whatever the file: one that
\* load takes has no link, because an iwp dict of two entries is not cloned, and
\* the free of a router info goes through its link.
LEMMA ReadEnds == ReadFile => mode' \in Ended
<1> SUFFICES ASSUME ReadFile PROVE mode' \in Ended
  OBVIOUS
<1> DEFINE i == Info(bootfile)
<1>1. CASE LoadEnds
  BY <1>1 DEF LoadEnds, LoadOutcomes, Ended
<1>2. CASE "running" \in LoadOutcomes(bootfile) /\ ~LoadEnds
  <2>1. ~(Loaded(bootfile) /\ HasLink(bootfile))
    BY <1>2 DEF LoadOutcomes, Loaded
  <2>2. i.link = FALSE
    BY <2>1 DEF Info, EmptyInfo, HasLink
  <2>3. FreeOutcomes(i) = {"crashed"}
    BY <2>2 DEF FreeOutcomes
  <2>4. ~Verified(i)
    BY DEF Verified, InfoLen, SigLen
  <2> QED
    BY <1>2, <2>3, <2>4 DEF ReadFile, Ended
<1> QED
  BY <1>1, <1>2 DEF ReadFile

\* No tick over a bootstrap file that can be opened is survived, whatever the
\* file and whatever was called or read before (router_info_load,
\* router_info_hash, router_info_free).
THEOREM NoFileIsSurvived ==
    OSpec => [][Tick /\ TooFew /\ bootstrap /\ bootfile.kind # "unopened" => mode' \in Ended]_bvars
<1>1. Tick /\ TooFew /\ bootstrap /\ bootfile.kind # "unopened" => mode' \in Ended
  BY ReadEnds DEF Tick
<1> QED
  BY <1>1, PTL

\* While the process runs, the router infos left are those of unopened files.
Books ==
    /\ infos \in Nat
    /\ mode \in Ended \/ (infos = unopened /\ reads = 0)

\* A step of the ticker, or of whoever writes the file, keeps the books.
LEMMA BooksStep == Books /\ BNext => Books'
<1> SUFFICES ASSUME Books, BNext PROVE Books'
  OBVIOUS
<1> USE DEF Books
<1>1. CASE Run \/ Close
  BY <1>1 DEF Run, Close, Ended
<1>2. CASE Tick
  <2>1. CASE UNCHANGED <<mode, infos, reads, unopened>>
    BY <2>1
  <2>2. CASE /\ infos' = Counted(infos) /\ unopened' = Counted(unopened)
             /\ UNCHANGED <<mode, reads>>
    BY <2>2 DEF Counted
  <2>3. CASE ReadFile
    BY <2>3, ReadEnds DEF ReadFile, LoadEnds, Counted
  <2> QED
    BY <1>2, <2>1, <2>2, <2>3 DEF Tick
<1>3. ASSUME NEW f \in File, Write(f) PROVE Books'
  BY <1>3 DEF Write
<1> QED
  BY <1>1, <1>2, <1>3 DEF BNext

\* Whatever is called in between, and however often the file comes and goes,
\* what a running process has lost it has lost to ticks that could not open the
\* file (router_context_ensure_min_peers).
THEOREM LeaksAreBounded == OSpec => []LeaksAreUnopened
<1>1. OInit => Books
  BY DEF OInit, BInit, Books
<1>2. Books /\ [ONext]_<<bvars, ovars>> => Books'
  <2> SUFFICES ASSUME Books, [ONext]_<<bvars, ovars>> PROVE Books'
    OBVIOUS
  <2>1. CASE BNext
    BY <2>1, BooksStep
  <2>2. CASE UNCHANGED bvars
    BY <2>2 DEF Books, bvars
  <2>3. CASE Regenerate \/ UpdateRouterInfo \/ UpdateRouterInfoNull \/ FreeContext
    BY <2>3 DEF Regenerate, UpdateRouterInfo, UpdateRouterInfoNull, FreeContext, Usable, rest, Books, Ended
  <2> QED
    BY <2>1, <2>2, <2>3 DEF ONext
<1>3. Books => LeaksAreUnopened
  BY DEF Books, LeaksAreUnopened, Ended
<1> QED
  BY <1>1, <1>2, <1>3, PTL DEF OSpec

\* What keeps the identity that is shared from being freed twice: the router
\* info that has it crashes the process where it is freed, so that a process that
\* has not crashed has freed none.
NothingGone == mode # "crashed" => gone = {}

\* Keys and router info never have an identity that has been freed, for as long
\* as the process runs.
THEOREM IdentityStays == OSpec => []IdentityOutlivesUse
<1>1. OInit => NothingGone
  BY DEF OInit, NothingGone
<1>2. NothingGone /\ [ONext]_<<bvars, ovars>> => NothingGone'
  <2> SUFFICES ASSUME NothingGone, [ONext]_<<bvars, ovars>>, mode' # "crashed"
               PROVE  gone' = {}
    BY DEF NothingGone
  <2>1. CASE BNext /\ UNCHANGED ovars
    <3>1. mode # "crashed"
      BY <2>1 DEF BNext, Run, Close, Tick, Write
    <3> QED
      BY <2>1, <3>1 DEF NothingGone, ovars
  <2>2. CASE Regenerate \/ FreeContext
    BY <2>2 DEF Regenerate, FreeContext, Usable, rest, ovars, NothingGone
  <2>3. CASE UpdateRouterInfo
    <3>1. FreeInfo => mode' = "crashed"
      BY DEF FreeInfo, FreeOutcomes, GeneratedInfo
    <3> QED
      BY <2>3, <3>1 DEF UpdateRouterInfo, Usable, NothingGone
  <2>4. CASE UpdateRouterInfoNull
    BY <2>4 DEF UpdateRouterInfoNull, Crash
  <2>5. CASE UNCHANGED <<bvars, ovars>>
    BY <2>5 DEF bvars, ovars, NothingGone
  <2> QED
    BY <2>1, <2>2, <2>3, <2>4, <2>5 DEF ONext
<1>3. NothingGone => IdentityOutlivesUse
  BY DEF NothingGone, IdentityOutlivesUse
<1> QED
  BY <1>1, <1>2, <1>3, PTL DEF OSpec
=============================================================================
