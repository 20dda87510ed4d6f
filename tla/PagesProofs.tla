---------------------------- MODULE PagesProofs ----------------------------
(***************************************************************************)
(* Proofs about the pages, for any number of sessions, charts, programs,   *)
(* documents, dashboards, controllers and steps: an inductive invariant    *)
(* for each.                                                               *)
(***************************************************************************)
EXTENDS SessionDetail, ProgramLibrary, ProgramEditor, SessionsPage, DashboardEditor,
        ControllersPage, RigConfig, Faceplate, ProgramBuilder, SequenceTheorems,
        FiniteSetTheorems, TLAPS

-----------------------------------------------------------------------------
(* The series and charts of a session, and its name (SessionDetail).       *)

Names == Titles \cup {Untitled}
Shells == [id : Ids \cup {0}, name : Names]
Series == [is : {"none", "asked", "held"}, n : Nat]
Pictures == [id : Ids \cup {0}, state : [is : {"hidden", "loading", "failed", "held"}, n : Nat]]

DetailTypeOK ==
    /\ names \in [Ids -> Names] /\ points \in [Ids -> Nat]
    /\ id \in Ids /\ shell \in Shells /\ shellRead \in Shells
    /\ saving \in [id : Ids \cup {0}, name : Names, keeps : BOOLEAN]
    /\ draftName \in Names
    /\ cache \in [Ids -> Series] /\ inFlight \in [Ids -> Nat]
    /\ charts \in [Charts -> Pictures]

\* A series is asked for just while its request is in flight...
AskedIsInFlight == \A i \in Ids : inFlight[i] = (IF cache[i].is = "asked" THEN 1 ELSE 0)

\* ... and a chart has what the cache has, or waits for it.
OfTheCache ==
    \A c \in Charts :
        /\ charts[c].id = 0 => charts[c].state.is = "hidden"
        /\ charts[c].state.is = "loading" => /\ charts[c].state = Being("loading")
                                             /\ cache[charts[c].id].is = "asked"
        /\ charts[c].state.is = "held" => cache[charts[c].id] = charts[c].state

DInv == DetailTypeOK /\ AskedIsInFlight /\ OfTheCache /\ DraftIsOfTheShown

\* Nothing has been asked for and no chart is on screen.
LEMMA DInvInit == DetailInit => DInv
  BY DetailBounds
  DEF DetailInit, DInv, DetailTypeOK, AskedIsInFlight, OfTheCache, DraftIsOfTheShown, Names, Shells,
      Series, Pictures, NoShell, NoSave, Being

\* A step that leaves the series and the charts alone.
LEMMA SeriesStay ==
    ASSUME AskedIsInFlight, OfTheCache, UNCHANGED seriesVars
    PROVE  AskedIsInFlight' /\ OfTheCache'
  BY DEF AskedIsInFlight, OfTheCache, seriesVars

\* Asking for the shell, reading it and what becomes of its name.
LEMMA ShellKeeps ==
    ASSUME DInv, FollowsLink \/ ShellRead \/ ShellLands
    PROVE  DInv'
  <1> USE DEF DInv
  <1>1. CASE FollowsLink
    <2>1. AskedIsInFlight' /\ OfTheCache'
      BY <1>1, SeriesStay DEF FollowsLink
    <2>2. DetailTypeOK' /\ DraftIsOfTheShown'
      BY <1>1 DEF FollowsLink, DetailTypeOK, DraftIsOfTheShown, Names, Shells, NoShell, recordVars, nameVars, seriesVars
    <2> QED BY <2>1, <2>2
  <1>2. CASE ShellRead
    <2>1. AskedIsInFlight' /\ OfTheCache'
      BY <1>2, SeriesStay DEF ShellRead
    <2>2. DetailTypeOK' /\ DraftIsOfTheShown'
      BY <1>2 DEF ShellRead, DetailTypeOK, DraftIsOfTheShown, Names, Shells, recordVars, nameVars, seriesVars
    <2> QED BY <2>1, <2>2
  <1>3. CASE ShellLands
    <2>1. DetailTypeOK'
      BY <1>3 DEF ShellLands, ResetsDraft, DetailTypeOK, Names, Shells, Pictures, Being, recordVars
    <2>2. DraftIsOfTheShown'
      BY <1>3 DEF ShellLands, ResetsDraft, DraftIsOfTheShown
    <2>3. AskedIsInFlight' /\ OfTheCache'
      BY <1>3 DEF ShellLands, AskedIsInFlight, OfTheCache, Being
    <2> QED BY <2>1, <2>2, <2>3
  <1> QED BY <1>1, <1>2, <1>3

\* The name that is typed, saved and answered.
LEMMA NameKeeps ==
    ASSUME DInv, TypesName \/ EscapesName \/ SavesName \/ RenameAnswered
    PROVE  DInv'
  <1> USE DEF DInv
  <1>1. AskedIsInFlight' /\ OfTheCache'
    BY SeriesStay DEF TypesName, EscapesName, SavesName, RenameAnswered
  <1>2. DraftIsOfTheShown'
    BY DEF DraftIsOfTheShown, TypesName, EscapesName, SavesName, RenameAnswered, shellVars, NoShell
  <1>3. CASE TypesName \/ EscapesName
    <2>1. DetailTypeOK'
      BY <1>3 DEF DetailTypeOK, TypesName, EscapesName, Names, Shells, recordVars, shellVars, seriesVars
    <2> QED BY <1>1, <1>2, <2>1
  <1>5. CASE SavesName
    <2>1. saving' \in [id : Ids \cup {0}, name : Names, keeps : BOOLEAN]
      BY <1>5 DEF DetailTypeOK, SavesName
    <2>2. DetailTypeOK'
      BY <1>5, <2>1 DEF DetailTypeOK, SavesName, recordVars, shellVars, seriesVars
    <2> QED BY <1>1, <1>2, <2>2
  <1>4. CASE RenameAnswered
    <2>1. NoShell \in Shells /\ NoSave \in [id : Ids \cup {0}, name : Names, keeps : BOOLEAN]
      BY DEF NoShell, NoSave, Shells, Names
    <2>2. DetailTypeOK'
      BY <1>4, <2>1 DEF DetailTypeOK, RenameAnswered, Names, Shells, seriesVars
    <2> QED BY <1>1, <1>2, <2>2
  <1> QED BY <1>3, <1>4, <1>5

\* A chart comes on screen and is taken off it again.
LEMMA ChartKeeps ==
    ASSUME DInv, NEW c \in Charts, ChartShown(c) \/ ChartRemounts(c)
    PROVE  DInv'
  <1> USE DEF DInv
  <1>1. DraftIsOfTheShown'
    BY DEF ChartShown, ChartRemounts, DraftIsOfTheShown, shellVars, nameVars
  <1>2. CASE ChartShown(c)
    <2> DEFINE i == charts[c].id
    <2>1. i \in Ids /\ cache[i] \in Series /\ charts[c].state.is = "hidden" /\ inFlight[i] \in Nat
      BY <1>2 DEF ChartShown, DetailTypeOK, Pictures
    <2>2. CASE cache[i].is = "none"
      <3>1. /\ charts' = [charts EXCEPT ![c].state = Being("loading")]
            /\ cache' = [cache EXCEPT ![i] = Being("asked")]
            /\ inFlight' = [inFlight EXCEPT ![i] = @ + 1]
        BY <1>2, <2>2 DEF ChartShown
      <3>2. DetailTypeOK'
        BY <1>2, <2>1, <3>1 DEF ChartShown, DetailTypeOK, Pictures, Series, Being, recordVars, shellVars, nameVars
      <3>3. AskedIsInFlight'
        BY <2>1, <2>2, <3>1 DEF AskedIsInFlight, DetailTypeOK, Being
      <3>4. \A d \in Charts : charts'[d] = IF d = c THEN [id |-> i, state |-> Being("loading")] ELSE charts[d]
        BY <3>1 DEF DetailTypeOK, Pictures
      <3>5. \A j \in Ids : cache'[j] = IF j = i THEN Being("asked") ELSE cache[j]
        BY <3>1 DEF DetailTypeOK
      <3>6. \A d \in Charts : charts[d].id \in Ids \cup {0}
        BY DEF DetailTypeOK, Pictures
      <3>7. OfTheCache'
        BY <2>1, <2>2, <3>4, <3>5, <3>6, DetailBounds DEF OfTheCache, Being
      <3> QED BY <1>1, <3>2, <3>3, <3>7
    <2>3. CASE cache[i].is # "none"
      <3>1. /\ charts' = [charts EXCEPT ![c].state = IF cache[i].is = "held" THEN cache[i] ELSE Being("loading")]
            /\ cache' = cache /\ inFlight' = inFlight
        BY <1>2, <2>3 DEF ChartShown
      <3>2. DetailTypeOK'
        BY <1>2, <2>1, <2>3, <3>1 DEF ChartShown, DetailTypeOK, Pictures, Series, Being, recordVars, shellVars, nameVars
      <3>3. AskedIsInFlight'
        BY <3>1 DEF AskedIsInFlight
      <3>4. \A d \in Charts : charts'[d] =
              IF d = c THEN [id |-> i, state |-> IF cache[i].is = "held" THEN cache[i] ELSE Being("loading")]
              ELSE charts[d]
        BY <3>1 DEF DetailTypeOK, Pictures
      <3>5. OfTheCache'
        BY <2>1, <2>3, <3>1, <3>4, DetailBounds DEF OfTheCache, Series, Being
      <3> QED BY <1>1, <3>2, <3>3, <3>5
    <2> QED BY <2>2, <2>3
  <1>3. CASE ChartRemounts(c)
    <2>1. DetailTypeOK'
      BY <1>3 DEF ChartRemounts, DetailTypeOK, Pictures, Being, recordVars, shellVars, nameVars
    <2>2. AskedIsInFlight' /\ OfTheCache'
      BY <1>3 DEF ChartRemounts, AskedIsInFlight, OfTheCache, DetailTypeOK, Pictures, Being
    <2> QED BY <1>1, <2>1, <2>2
  <1> QED BY <1>2, <1>3

\* The one request of a series is answered: every chart that waited has its answer,
\* and a failure leaves the cache as if nobody had asked.
LEMMA SeriesKeeps ==
    ASSUME DInv, NEW i \in Ids, SeriesAnswered(i)
    PROVE  DInv'
  <1> USE DEF DInv
  <1>1. PICK answer \in {Holding(points[i]), Being("failed")} :
          /\ inFlight[i] > 0
          /\ inFlight' = [inFlight EXCEPT ![i] = @ - 1]
          /\ cache' = [cache EXCEPT ![i] = HeldAfter(answer)]
          /\ charts' = [c \in Charts |-> IF charts[c] = [id |-> i, state |-> Being("loading")]
                                         THEN [charts[c] EXCEPT !.state = answer] ELSE charts[c]]
          /\ UNCHANGED <<recordVars, shellVars, nameVars>>
    BY DEF SeriesAnswered
  <1>2. cache[i].is = "asked" /\ inFlight[i] = 1
    BY <1>1 DEF AskedIsInFlight
  <1>3. /\ HeldAfter(answer) \in Series /\ HeldAfter(answer).is # "asked"
        /\ answer.is = "held" => HeldAfter(answer) = answer
        /\ answer \in [is : {"failed", "held"}, n : Nat]
    BY <1>1 DEF Holding, Being, HeldAfter, DetailTypeOK, Series
  <1>4. DraftIsOfTheShown'
    BY <1>1 DEF DraftIsOfTheShown, shellVars, nameVars
  <1>5. DetailTypeOK'
    BY <1>1, <1>2, <1>3 DEF DetailTypeOK, Pictures, recordVars, shellVars, nameVars
  <1>6. AskedIsInFlight'
    BY <1>1, <1>2, <1>3 DEF AskedIsInFlight, DetailTypeOK
  <1>7. OfTheCache'
    <2> SUFFICES ASSUME NEW c \in Charts
                 PROVE  /\ charts'[c].id = 0 => charts'[c].state.is = "hidden"
                        /\ charts'[c].state.is = "loading" => /\ charts'[c].state = Being("loading")
                                                              /\ cache'[charts'[c].id].is = "asked"
                        /\ charts'[c].state.is = "held" => cache'[charts'[c].id] = charts'[c].state
      BY DEF OfTheCache
    <2>1. charts[c] \in Pictures
      BY DEF DetailTypeOK
    <2>2. CASE charts[c] = [id |-> i, state |-> Being("loading")]
      BY <1>1, <1>3, <2>2 DEF DetailTypeOK, OfTheCache, Being
    <2>3. CASE charts[c] # [id |-> i, state |-> Being("loading")]
      <3>1. charts'[c] = charts[c]
        BY <1>1, <2>3
      <3>2. CASE charts[c].id # i
        BY <1>1, <3>1, <3>2 DEF OfTheCache, DetailTypeOK
      <3>3. CASE charts[c].id = i
        BY <1>1, <1>2, <1>3, <2>1, <2>3, <3>1, <3>3 DEF OfTheCache, DetailTypeOK, Pictures, Being
      <3> QED BY <3>2, <3>3
    <2> QED BY <2>2, <2>3
  <1> QED BY <1>4, <1>5, <1>6, <1>7

\* Every step keeps the invariant.
LEMMA DInvStep == DInv /\ [DetailNext]_detailVars => DInv'
  <1> SUFFICES ASSUME DInv, [DetailNext]_detailVars
               PROVE  DInv'
    OBVIOUS
  <1>1. CASE Grows \/ EndsSession
    <2>1. DraftIsOfTheShown' /\ AskedIsInFlight' /\ OfTheCache'
      BY <1>1, SeriesStay DEF DInv, Grows, EndsSession, DraftIsOfTheShown, shellVars, nameVars
    <2>2. DetailTypeOK'
      BY <1>1 DEF DInv, DetailTypeOK, Grows, EndsSession, shellVars, nameVars, seriesVars
    <2> QED BY <2>1, <2>2 DEF DInv
  <1>2. CASE FollowsLink \/ ShellRead \/ ShellLands
    BY <1>2, ShellKeeps
  <1>3. CASE TypesName \/ EscapesName \/ SavesName \/ RenameAnswered
    BY <1>3, NameKeeps
  <1>4. ASSUME NEW c \in Charts, ChartShown(c) \/ ChartRemounts(c) PROVE DInv'
    BY <1>4, ChartKeeps
  <1>5. ASSUME NEW i \in Ids, SeriesAnswered(i) PROVE DInv'
    BY <1>5, SeriesKeeps
  <1>6. CASE UNCHANGED detailVars
    BY <1>6 DEF DInv, DetailTypeOK, AskedIsInFlight, OfTheCache, DraftIsOfTheShown, detailVars
  <1> QED BY <1>1, <1>2, <1>3, <1>4, <1>5, <1>6 DEF DetailNext

\* A chart that shows that it is loading has a request in flight that will be
\* answered: a failure is forgotten, so the next mount asks again.
THEOREM LoadingHasARequest == DetailSpec => []LoadingIsAsked
  <1>1. DInv => LoadingIsAsked
    BY DEF DInv, DetailTypeOK, AskedIsInFlight, OfTheCache, LoadingIsAsked, Pictures
  <1> QED
    BY <1>1, DInvInit, DInvStep, PTL DEF DetailSpec

\* Two charts of one session that have loaded show the same points, of one request.
THEOREM ChartsAlwaysAgree == DetailSpec => []ChartsAgree
  <1>1. DInv => ChartsAgree
    BY DEF DInv, AskedIsInFlight, OfTheCache, ChartsAgree
  <1> QED
    BY <1>1, DInvInit, DInvStep, PTL DEF DetailSpec

\* What the name box holds is the name of the session shown, or was typed for it.
THEOREM DraftStaysItsOwn == DetailSpec => []DraftIsOfTheShown
  <1>1. DInv => DraftIsOfTheShown
    BY DEF DInv
  <1> QED
    BY <1>1, DInvInit, DInvStep, PTL DEF DetailSpec

-----------------------------------------------------------------------------
(* The list of programs (ProgramLibrary).                                  *)

\* A fetch that still counts has missed no change of this page's...
IsAFetch(f) == f \in [seen : {f.seen}, missed : {f.missed}, live : BOOLEAN]
FetchesMiss(fs) ==
    /\ fs = [i \in DOMAIN fs |-> fs[i]]
    /\ \A i \in DOMAIN fs : IsAFetch(fs[i]) /\ (fs[i].live => fs[i].missed = {})

\* ... and there is one as long as the list lacks any.
LInv == FetchesMiss(fetches) /\ OwnChangesShow

\* Of a refresh comes one fetch that counts, which has missed nothing.
LEMMA RefreshAsksAnew ==
    ASSUME NEW fs, \A j \in DOMAIN fs : IsAFetch(fs[j]), Refreshed(fs)
    PROVE  FetchesMiss(fetches') /\ loading'
  <1>1. PICK i \in 1..MaxFetches \ DOMAIN fs :
          fetches' = [j \in DOMAIN fs \cup {i} |-> IF j = i THEN Fetch ELSE Aborted(fs[j])]
    BY DEF Refreshed
  <1>2. \A j \in DOMAIN fs : IsAFetch(Aborted(fs[j])) /\ ~Aborted(fs[j]).live
    BY DEF IsAFetch, Aborted
  <1>3. IsAFetch(Fetch) /\ Fetch.live /\ Fetch.missed = {}
    BY DEF IsAFetch, Fetch
  <1> QED BY <1>1, <1>2, <1>3 DEF FetchesMiss, loading

\* The changes marked as missed leave fetches what they are.
LEMMA MissedAreFetches ==
    ASSUME NEW n, FetchesMiss(fetches)
    PROVE  \A j \in DOMAIN Missed(fetches, n) : IsAFetch(Missed(fetches, n)[j])
  BY DEF FetchesMiss, Missed, IsAFetch

\* Every step of the page of programs keeps its invariant.
LEMMA LInvStep == LInv /\ [LibraryNext]_libraryVars => LInv'
  <1> SUFFICES ASSUME LInv, [LibraryNext]_libraryVars
               PROVE  LInv'
    OBVIOUS
  <1>0. \A j \in DOMAIN fetches : IsAFetch(fetches[j])
    BY DEF LInv, FetchesMiss
  <1>1. ASSUME NEW i \in DOMAIN fetches, FetchReads(i) PROVE LInv'
    <2>1. /\ fetches' = [fetches EXCEPT ![i].seen = shelf']
          /\ ownUnseen' = ownUnseen
      BY <1>1 DEF FetchReads
    <2>2. FetchesMiss(fetches')
      BY <2>1 DEF LInv, FetchesMiss, IsAFetch
    <2>3. loading' = loading
      BY <2>1, <1>0 DEF loading, IsAFetch
    <2> QED BY <2>1, <2>2, <2>3 DEF LInv, OwnChangesShow
  <1>2. ASSUME NEW i \in DOMAIN fetches, FetchLands(i) PROVE LInv'
    <2>1. /\ fetches' = [j \in DOMAIN fetches \ {i} |-> fetches[j]]
          /\ IF fetches[i].live THEN ownUnseen' = fetches[i].missed ELSE ownUnseen' = ownUnseen
      BY <1>2 DEF FetchLands
    <2>2. FetchesMiss(fetches')
      BY <2>1 DEF LInv, FetchesMiss
    <2>3. CASE fetches[i].live
      BY <2>1, <2>2, <2>3 DEF LInv, FetchesMiss, OwnChangesShow
    <2>4. CASE ~fetches[i].live
      <3>1. loading => loading'
        BY <2>1, <2>4 DEF loading
      <3> QED BY <2>1, <2>2, <2>4, <3>1 DEF LInv, OwnChangesShow
    <2> QED BY <2>3, <2>4
  <1>3. ASSUME NEW a \in acts, ActEnds(a) PROVE LInv'
    <2>1. \/ UNCHANGED <<fetches, ownUnseen>>
          \/ Refreshed(Missed(fetches, a.name))
          \/ Refreshed(fetches)
      BY <1>3 DEF ActEnds
    <2>2. CASE UNCHANGED <<fetches, ownUnseen>>
      BY <2>2 DEF LInv, OwnChangesShow, loading
    <2>3. CASE Refreshed(Missed(fetches, a.name)) \/ Refreshed(fetches)
      <3>1. FetchesMiss(fetches') /\ loading'
        BY <1>0, <2>3, RefreshAsksAnew, MissedAreFetches DEF LInv
      <3> QED BY <3>1 DEF LInv, OwnChangesShow
    <2> QED BY <2>1, <2>2, <2>3
  <1>4. CASE Rescans
    <2>1. FetchesMiss(fetches') /\ loading'
      BY <1>0, <1>4, RefreshAsksAnew DEF Rescans
    <2> QED BY <2>1 DEF LInv, OwnChangesShow
  <1>5. CASE UNCHANGED <<fetches, ownUnseen>>
    BY <1>5 DEF LInv, OwnChangesShow, loading
  <1>6. ASSUME NEW n \in Programs, PicksRun(n) \/ PicksDelete(n) \/ PicksFile(n)
        PROVE  UNCHANGED <<fetches, ownUnseen>>
    BY <1>6 DEF PicksRun, PicksDelete, PicksFile
  <1>7. ASSUME Cancels \/ ConfirmsRun \/ ConfirmsRemoval \/ Uploads \/ ProgrammerPolled \/ ProgramEnds
               \/ UNCHANGED libraryVars
        PROVE  UNCHANGED <<fetches, ownUnseen>>
    BY <1>7 DEF Cancels, ConfirmsRun, ConfirmsRemoval, Uploads, ProgrammerPolled, ProgramEnds, libraryVars
  <1> QED BY <1>1, <1>2, <1>3, <1>4, <1>5, <1>6, <1>7 DEF LibraryNext

\* However fetches overtake one another and the page's own changes, a list that is
\* not loading shows every change the page has made.
THEOREM OwnChangesAlwaysShow == LibrarySpec => []OwnChangesShow
  <1>1. LibraryInit => LInv
    BY DEF LibraryInit, LInv, FetchesMiss, IsAFetch, Fetch, OwnChangesShow
  <1>2. LInv => OwnChangesShow
    BY DEF LInv
  <1> QED
    BY <1>1, <1>2, LInvStep, PTL DEF LibrarySpec

-----------------------------------------------------------------------------
(* The checks of a program (ProgramEditor).                                *)

\* Of the checks under way only the one of the tree as it is counts, and none while
\* the pause before it is running.
ChecksOfTheTree ==
    \A c \in checks :
        /\ c \in [doc : {c.doc}, live : BOOLEAN]
        /\ c.live => ~waiting /\ c.doc = tree

VInv == ChecksOfTheTree /\ VerdictIsOfTheTree

\* A step after which a check is due, whatever it did to the tree.
LEMMA RecheckKeeps == VInv /\ Recheck => VInv'
  BY DEF VInv, ChecksOfTheTree, VerdictIsOfTheTree, checking, Recheck

\* A step that leaves the tree, the checks and the verdict alone.
LEMMA ChecksStay == VInv /\ UNCHANGED <<tree, checkVars>> => VInv'
  BY DEF VInv, ChecksOfTheTree, VerdictIsOfTheTree, checking, checkVars

\* Every step of the editor keeps its invariant.
LEMMA VInvStep == VInv /\ [EditorNext]_editorVars => VInv'
  <1> SUFFICES ASSUME VInv, [EditorNext]_editorVars
               PROVE  VInv'
    OBVIOUS
  <1>1. ASSUME NEW d \in Docs \cup {None}, Types(d) PROVE VInv'
    BY <1>1, ChecksStay DEF Types, checkVars
  <1>2. ASSUME NEW d \in Docs, EditsTree(d) PROVE VInv'
    BY <1>2, RecheckKeeps DEF EditsTree
  <1>3. ASSUME NEW d \in Docs, AnotherSaves(d) PROVE VInv'
    BY <1>3, ChecksStay DEF AnotherSaves, paneVars, checkVars
  <1>4. ASSUME NEW f \in Formats, SwitchesFormat(f) PROVE VInv'
    BY <1>4, ChecksStay DEF SwitchesFormat, checkVars
  <1>5. ASSUME NEW v \in 1..MaxSaves, LoadsVersion(v) PROVE VInv'
    BY <1>5, RecheckKeeps DEF LoadsVersion, LoadText
  <1>6. CASE Parses
    <2>1. UNCHANGED <<tree, checkVars>> \/ Recheck
      BY <1>6 DEF Parses
    <2> QED BY <2>1, RecheckKeeps, ChecksStay
  <1>7. CASE AsksCheck
    <2> DEFINE asked == [doc |-> tree, live |-> TRUE]
    <2>1. /\ waiting /\ ~waiting' /\ checks' = checks \cup {asked}
          /\ UNCHANGED <<tree, verdict>>
      BY <1>7 DEF AsksCheck, paneVars
    <2>2. asked \in [doc : {asked.doc}, live : BOOLEAN] /\ asked.live /\ asked.doc = tree
      OBVIOUS
    <2> HIDE DEF asked
    <2> QED BY <2>1, <2>2 DEF VInv, ChecksOfTheTree, VerdictIsOfTheTree, checking
  <1>8. CASE RowArrives
    <2>1. UNCHANGED <<paneVars, checkVars>> \/ LoadText(library[Len(library)])
      BY <1>8 DEF RowArrives
    <2> QED BY <2>1, RecheckKeeps, ChecksStay DEF LoadText, paneVars, checkVars
  <1>9. CASE Saves
    BY <1>9, ChecksStay DEF Saves, paneVars, checkVars
  <1>10. ASSUME NEW c \in checks, CheckLands(c) PROVE VInv'
    <2>1. checks' = checks \ {c} /\ verdict' = Answered(c) /\ UNCHANGED <<tree, waiting>>
      BY <1>10 DEF CheckLands, paneVars
    <2>2. CASE c.live
      BY <2>1, <2>2 DEF Answered, VInv, ChecksOfTheTree, VerdictIsOfTheTree, checking
    <2>3. CASE ~c.live
      BY <2>1, <2>3 DEF Answered, VInv, ChecksOfTheTree, VerdictIsOfTheTree, checking
    <2> QED BY <2>2, <2>3
  <1>11. ASSUME NEW job \in jobs, SaveAnswered(job) PROVE VInv'
    BY <1>11, ChecksStay DEF SaveAnswered, paneVars, checkVars
  <1>12. CASE UNCHANGED editorVars
    BY <1>12, ChecksStay DEF editorVars, checkVars
  <1> QED BY <1>1, <1>2, <1>3, <1>4, <1>5, <1>6, <1>7, <1>8, <1>9, <1>10, <1>11, <1>12 DEF EditorNext

\* In whatever order the checks of the rig are answered, a verdict shown without
\* "checking" is on the tree shown.
THEOREM VerdictStaysOfTheTree == EditorSpec => []VerdictIsOfTheTree
  <1>1. EditorInit => VInv
    BY DEF EditorInit, VInv, ChecksOfTheTree, VerdictIsOfTheTree
  <1>2. VInv => VerdictIsOfTheTree
    BY DEF VInv
  <1> QED
    BY <1>1, <1>2, VInvStep, PTL DEF EditorSpec

-----------------------------------------------------------------------------
(* Buffers kept and forgotten (SessionsPage).                              *)

Session(s) == s \in [scratch : BOOLEAN, open : BOOLEAN, data : {s.data}]

\* The runner's sessions, none with an id that is still to be given.
StoredTypes ==
    /\ nextId \in Nat
    /\ stored = [i \in DOMAIN stored |-> stored[i]]
    /\ \A i \in DOMAIN stored : i \in Nat /\ i < nextId /\ Session(stored[i])

KeepingTyped ==
    keeping \in [id : {keeping.id}, ended : {keeping.ended}, stage : {"none", "asking", "kept"},
                 last : {keeping.last}]

\* What was asked to be kept of the buffer is, while it may be forgotten.
KeptIsCopied ==
    keeping.stage = "kept" =>
        /\ keeping.id \in Nat /\ keeping.id < nextId
        /\ keeping.id \in DOMAIN stored => LastOf(keeping.id, keeping.last) \subseteq copied

SInv == StoredTypes /\ KeepingTyped /\ KeptIsCopied

\* No id is given twice, and what a session holds stays as it is.
DataStays ==
    /\ nextId <= nextId'
    /\ \A i \in DOMAIN stored' : i < nextId => i \in DOMAIN stored /\ stored'[i].data = stored[i].data

\* A session that is added leaves the data of the others as it was.
LEMMA AddsKeeps ==
    ASSUME StoredTypes, NEW s, Session(s), Adds(s)
    PROVE  StoredTypes' /\ DataStays
  <1>1. /\ stored' = [i \in DOMAIN stored \cup {nextId} |-> IF i = nextId THEN s ELSE stored[i]]
        /\ nextId' = nextId + 1
    BY DEF Adds
  <1>2. nextId \in Nat /\ nextId' \in Nat /\ nextId < nextId'
    BY <1>1 DEF StoredTypes
  <1>3. \A i \in DOMAIN stored' : i \in Nat /\ i < nextId' /\ Session(stored'[i])
    BY <1>1, <1>2 DEF StoredTypes
  <1> QED BY <1>1, <1>2, <1>3 DEF StoredTypes, DataStays

\* Sessions removed leave the data of the others as it was.
LEMMA RemovedKeeps ==
    ASSUME StoredTypes, NEW ids, stored' = Removed(ids), nextId' = nextId
    PROVE  StoredTypes' /\ DataStays
  BY DEF StoredTypes, DataStays, Removed, Restrict

\* A session that ends keeps its data.
LEMMA EndsKeeps ==
    ASSUME StoredTypes, NEW j \in DOMAIN stored, stored' = [stored EXCEPT ![j].open = FALSE],
           nextId' = nextId
    PROVE  StoredTypes' /\ DataStays
  <1>1. Session(stored[j])
    BY DEF StoredTypes
  <1>2. Session([stored[j] EXCEPT !.open = FALSE]) /\ [stored[j] EXCEPT !.open = FALSE].data = stored[j].data
    BY <1>1 DEF Session
  <1>3. \A i \in DOMAIN stored : stored'[i] = IF i = j THEN [stored[j] EXCEPT !.open = FALSE] ELSE stored[i]
    BY DEF StoredTypes
  <1>4. DOMAIN stored' = DOMAIN stored /\ stored' = [i \in DOMAIN stored' |-> stored'[i]]
    BY DEF StoredTypes
  <1>5. \A i \in DOMAIN stored : Session(stored'[i]) /\ stored'[i].data = stored[i].data
    BY <1>2, <1>3 DEF StoredTypes
  <1>6. \A i \in DOMAIN stored' : i \in Nat /\ i < nextId' /\ Session(stored'[i])
    BY <1>4, <1>5 DEF StoredTypes
  <1>7. StoredTypes'
    BY <1>4, <1>6 DEF StoredTypes
  <1>8. DataStays
    BY <1>4, <1>5 DEF StoredTypes, DataStays
  <1> QED BY <1>7, <1>8

\* A step that leaves the store of sessions alone.
LEMMA UnchangedKeeps ==
    ASSUME StoredTypes, UNCHANGED <<stored, nextId>>
    PROVE  StoredTypes' /\ DataStays
  BY DEF StoredTypes, DataStays

\* The last minutes of a session that is still there are the same.
LEMMA LastStays ==
    ASSUME StoredTypes, DataStays, NEW i \in DOMAIN stored', i < nextId, NEW n
    PROVE  i \in DOMAIN stored /\ LastOf(i, n)' = LastOf(i, n)
  <1>1. i \in DOMAIN stored /\ stored'[i].data = stored[i].data
    BY DEF DataStays
  <1> QED BY <1>1 DEF LastOf

\* A step that leaves the Keep dialog and what was copied alone.
LEMMA KeepStays ==
    ASSUME SInv, StoredTypes', DataStays, UNCHANGED <<keeping, copied>>
    PROVE  SInv'
  <1>1. KeepingTyped'
    BY DEF SInv, KeepingTyped
  <1>2. KeptIsCopied'
    <2> SUFFICES ASSUME keeping'.stage = "kept"
                 PROVE  /\ keeping'.id \in Nat /\ keeping'.id < nextId'
                        /\ keeping'.id \in DOMAIN stored' => LastOf(keeping.id, keeping.last)' \subseteq copied'
      BY DEF KeptIsCopied
    <2>1. keeping.stage = "kept" /\ keeping.id \in Nat /\ keeping.id < nextId
      BY DEF SInv, KeptIsCopied
    <2>2. nextId \in Nat /\ nextId' \in Nat /\ nextId <= nextId'
      BY DEF SInv, StoredTypes, DataStays
    <2>3. ASSUME keeping'.id \in DOMAIN stored' PROVE LastOf(keeping.id, keeping.last)' \subseteq copied'
      <3>1. /\ keeping.id \in DOMAIN stored
            /\ LastOf(keeping.id, keeping.last)' = LastOf(keeping.id, keeping.last)
        BY <2>1, <2>3, LastStays DEF SInv
      <3> QED BY <2>1, <3>1 DEF SInv, KeptIsCopied
    <2> QED BY <2>1, <2>2, <2>3
  <1> QED BY <1>1, <1>2 DEF SInv

\* A Keep that is answered has copied what it was asked for.
LEMMA KeepAnsweredKeeps == SInv /\ KeepAnswered => SInv'
  <1> SUFFICES ASSUME SInv, KeepAnswered
               PROVE  SInv'
    OBVIOUS
  <1>1. CASE UNCHANGED <<stored, nextId, copied, keeping>>
    BY <1>1, KeepStays, UnchangedKeeps DEF SInv
  <1>2. CASE ~UNCHANGED <<stored, nextId, copied, keeping>>
    <2> DEFINE last == LastOf(keeping.id, keeping.last)
    <2>1. /\ keeping.stage = "asking" /\ keeping.id \in DOMAIN stored
          /\ Adds([scratch |-> FALSE, open |-> FALSE, data |-> last])
          /\ copied' = copied \cup last
          /\ keeping' = [keeping EXCEPT !.stage = "kept"]
      BY <1>2 DEF KeepAnswered
    <2>2. Session([scratch |-> FALSE, open |-> FALSE, data |-> last])
      BY DEF Session
    <2>3. StoredTypes' /\ DataStays
      BY <2>1, <2>2, AddsKeeps DEF SInv
    <2>4. KeepingTyped' /\ keeping'.id = keeping.id /\ keeping'.last = keeping.last
      BY <2>1 DEF SInv, KeepingTyped
    <2>5. keeping.id \in Nat /\ keeping.id < nextId /\ nextId \in Nat /\ nextId' \in Nat /\ nextId <= nextId'
      BY <2>1, <2>3 DEF SInv, StoredTypes, DataStays
    <2>6. keeping.id \in DOMAIN stored' => LastOf(keeping.id, keeping.last)' = last
      <3> SUFFICES ASSUME keeping.id \in DOMAIN stored' PROVE LastOf(keeping.id, keeping.last)' = last
        OBVIOUS
      <3>1. stored'[keeping.id].data = stored[keeping.id].data
        BY <2>3, <2>5 DEF DataStays
      <3>2. stored'[keeping'.id].data = stored[keeping.id].data
        BY <2>4, <3>1
      <3> QED BY <2>4, <3>2 DEF LastOf
    <2> QED BY <2>1, <2>3, <2>4, <2>5, <2>6 DEF SInv, KeptIsCopied
  <1> QED BY <1>1, <1>2

\* Every step of the page of sessions keeps its invariant.
LEMMA SInvStep == SInv /\ [SessionsNext]_pageVars => SInv'
  <1> SUFFICES ASSUME SInv, [SessionsNext]_pageVars
               PROVE  SInv'
    OBVIOUS
  <1>0. StoredTypes
    BY DEF SInv
  <1>1. CASE Ends
    BY <1>0, <1>1, EndsKeeps, KeepStays DEF Ends, Writing, listsVars
  <1>2. CASE Opens
    <2>1. PICK scratch \in BOOLEAN : Adds([scratch |-> scratch, open |-> TRUE, data |-> Data(nextId, 1)])
      BY <1>2 DEF Opens
    <2>2. Session([scratch |-> scratch, open |-> TRUE, data |-> Data(nextId, 1)])
      BY DEF Session
    <2>3. UNCHANGED <<keeping, copied>>
      BY <1>2 DEF Opens, listsVars
    <2> QED BY <1>0, <2>1, <2>2, <2>3, AddsKeeps, KeepStays
  <1>3. CASE AgesOut \/ DeleteAnswered \/ Forgets
    <2>1. (\E ids : stored' = Removed(ids) /\ nextId' = nextId) \/ UNCHANGED <<stored, nextId>>
      BY <1>3 DEF AgesOut, DeleteAnswered, Forgets
    <2>2. UNCHANGED <<keeping, copied>>
      BY <1>3 DEF AgesOut, DeleteAnswered, Forgets, listsVars
    <2> QED BY <1>0, <2>1, <2>2, RemovedKeeps, UnchangedKeeps, KeepStays
  <1>4. CASE KeepAnswered
    BY <1>4, KeepAnsweredKeeps
  <1>5. CASE KeepForgets
    <2>1. StoredTypes'
      BY <1>0, <1>5, RemovedKeeps, UnchangedKeeps DEF KeepForgets
    <2>2. keeping' = NotKeeping
      BY <1>5 DEF KeepForgets
    <2> QED BY <2>1, <2>2 DEF SInv, KeepingTyped, KeptIsCopied, NotKeeping
  <1>6. CASE OpensKeep \/ ClosesKeep
    <2>1. StoredTypes'
      BY <1>0, <1>6, UnchangedKeeps DEF OpensKeep, ClosesKeep
    <2>2. keeping'.stage \in {"none", "asking"} /\ KeepingTyped'
      BY <1>6 DEF OpensKeep, ClosesKeep, KeepingTyped, NotKeeping
    <2> QED BY <2>1, <2>2 DEF SInv, KeptIsCopied
  <1>7. CASE UNCHANGED <<stored, nextId, keeping, copied>>
    BY <1>0, <1>7, UnchangedKeeps, KeepStays
  <1>8. ASSUME \/ ListRead \/ ListLands \/ ListFails \/ RecordingPolled \/ SelectsAll \/ Clears
               \/ AsksBulk \/ CancelsDelete \/ ConfirmsDelete \/ DeleteEnds \/ UNCHANGED pageVars
        PROVE  UNCHANGED <<stored, nextId, keeping, copied>>
    BY <1>8 DEF ListRead, ListLands, ListFails, RecordingPolled, SelectsAll, Clears, AsksBulk,
                CancelsDelete, ConfirmsDelete, DeleteEnds, pageVars, listsVars
  <1>9. ASSUME NEW i \in DOMAIN rows, ShiftClicks(i) \/ Clicks(i) \/ AsksDelete(i)
        PROVE  UNCHANGED <<stored, nextId, keeping, copied>>
    BY <1>9 DEF ShiftClicks, Clicks, AsksDelete, listsVars
  <1> QED BY <1>1, <1>2, <1>3, <1>4, <1>5, <1>6, <1>7, <1>8, <1>9 DEF SessionsNext

\* A buffer is forgotten only when what was asked for of it has been kept, whatever
\* becomes of the runner's sessions between the two requests.
THEOREM KeptBeforeForgottenHolds == SessionsSpec => KeptBeforeForgotten
  <1>1. SessionsInit => SInv
    <2> SUFFICES ASSUME SessionsInit PROVE SInv
      OBVIOUS
    <2>1. KeepingTyped /\ KeptIsCopied
      BY DEF SessionsInit, KeepingTyped, KeptIsCopied, NotKeeping
    <2>2. StoredTypes
      <3>1. PICK open \in BOOLEAN :
              stored = <<[scratch |-> FALSE, open |-> FALSE, data |-> Data(1, 1)],
                         [scratch |-> TRUE, open |-> open, data |-> Data(2, Minutes)]>>
        BY DEF SessionsInit
      <3>2. DOMAIN stored = 1..2 /\ stored = [i \in 1..2 |-> stored[i]]
        BY <3>1
      <3>3. Session(stored[1]) /\ Session(stored[2])
        BY <3>1 DEF Session
      <3>4. nextId = 3
        BY DEF SessionsInit
      <3>5. \A i \in DOMAIN stored : i \in Nat /\ i < nextId /\ Session(stored[i])
        BY <3>2, <3>3, <3>4
      <3>6. stored = [i \in DOMAIN stored |-> stored[i]]
        BY <3>2
      <3> QED BY <3>4, <3>5, <3>6 DEF StoredTypes
    <2> QED BY <2>1, <2>2 DEF SInv
  <1>2. SInv /\ [SessionsNext]_pageVars
        => [KeepForgets /\ stored' # stored => LastOf(keeping.id, keeping.last) \subseteq copied]_pageVars
    BY DEF SInv, KeptIsCopied, KeepForgets
  <1> QED
    BY <1>1, <1>2, SInvStep, PTL DEF SessionsSpec, KeptBeforeForgotten

-----------------------------------------------------------------------------
(* The document a route shows (DashboardEditor).                           *)

\* A document kept, imported or shown under a name is of that name.
IsOf(d, n) == d = NoDoc \/ d.of = n
OwnDocs(f) == f = [n \in Boards |-> f[n]] /\ \A n \in Boards : IsOf(f[n], n)

Routed == route \in Boards \cup {NoName, Bare} /\ home \in Boards \cup {NoName}
OwnJobs == \A j \in jobsD : j.as \in Boards /\ IsOf(j.body, j.as) /\ (j.op = "save" => j.body.of = j.as)

\* The load that counts is of what the route wants; without one, so is what is shown.
OwnLoads == \A l \in loads : l.live => l.name \in Boards /\ l.name = wanted /\ IsOf(l.imported, l.name)
Settled == (\A l \in loads : ~l.live) => IsOf(present, wanted) /\ IsOf(baseline, wanted)

BInv == Routed /\ OwnDocs(kept) /\ OwnDocs(imports) /\ OwnJobs /\ (strayed \/ (OwnLoads /\ Settled))

\* What a route asks for, once the home is resolved, is a dashboard or none.
LEMMA AskedIsName ==
    ASSUME NEW to \in Boards \cup {NoName, Bare}, NEW h \in Boards \cup {NoName}
    PROVE  /\ Asked(to, h) \in Boards \cup {NoName}
           /\ to \in Boards \cup {NoName} => Asked(to, h) = to
  BY BoardBounds DEF Asked, Bare

\* The imported documents on the shelf, put on and taken off.
LEMMA ShelfKeeps ==
    ASSUME NEW f, OwnDocs(f), NEW n \in Boards, NEW d, IsOf(d, n)
    PROVE  OwnDocs([f EXCEPT ![n] = d])
  BY DEF OwnDocs, IsOf

\* No document counts as the document of any route.
LEMMA NoDocIsOfAny == \A n : IsOf(NoDoc, n)
  BY DEF IsOf

\* The built-in overview is the document of the bare route.
LEMMA OverviewIsOfNoName == \A d \in Overviews : IsOf(d, NoName)
  BY DEF Overviews, Doc, IsOf

\* A load that was cancelled answers nobody.
LEMMA CancelledIsNotLive == \A l : ~Cancelled(l).live
  BY DEF Cancelled

\* A route gone to.
LEMMA GoesKeeps ==
    ASSUME BInv, NEW to \in Boards \cup {NoName, Bare}, NEW h \in Boards \cup {NoName}, NEW onShelf,
           OwnDocs(onShelf), Goes(to, h, onShelf)
    PROVE  Routed' /\ OwnDocs(imports') /\ (strayed \/ (OwnLoads' /\ Settled'))
  <1> DEFINE n == Asked(to, h)
  <1>1. route' = to /\ home' = h /\ wanted' = n /\ NowWanted(n, onShelf)
    BY DEF Goes, wanted
  <1>2. n \in Boards \cup {NoName} /\ Routed'
    BY <1>1, AskedIsName DEF Routed
  <1> HIDE DEF n
  <1>3. CASE n = wanted
    <2>1. imports' = onShelf /\ UNCHANGED <<loads, present, baseline>>
      BY <1>1, <1>3 DEF NowWanted
    <2>2. ASSUME ~strayed PROVE OwnLoads' /\ Settled'
      BY <1>1, <1>3, <2>1, <2>2 DEF BInv, OwnLoads, Settled
    <2> QED BY <1>2, <2>1, <2>2
  <1>4. CASE n # wanted /\ n = NoName
    <2>1. /\ present' \in Overviews /\ baseline' = present'
          /\ loads' = {Cancelled(l) : l \in loads} /\ imports' = onShelf
      BY <1>1, <1>4 DEF NowWanted
    <2>2. OwnLoads'
      BY <2>1, CancelledIsNotLive DEF OwnLoads
    <2>3. Settled'
      BY <1>1, <1>4, <2>1, OverviewIsOfNoName DEF Settled
    <2> QED BY <1>2, <2>1, <2>2, <2>3
  <1>5. CASE n # wanted /\ n # NoName
    <2> DEFINE new == [name |-> n, imported |-> onShelf[n], live |-> TRUE]
    <2>1. /\ loads' = {Cancelled(l) : l \in loads} \cup {new}
          /\ imports' = [onShelf EXCEPT ![n] = NoDoc]
          /\ UNCHANGED <<present, baseline>>
      BY <1>1, <1>5 DEF NowWanted
    <2>2. n \in Boards /\ IsOf(onShelf[n], n)
      BY <1>2, <1>5 DEF OwnDocs
    <2>3. new.live /\ new.name = n /\ IsOf(new.imported, n)
      BY <2>2
    <2> HIDE DEF new
    <2>4. OwnLoads' /\ Settled'
      BY <1>1, <2>1, <2>2, <2>3, CancelledIsNotLive DEF OwnLoads, Settled
    <2> QED BY <1>2, <2>1, <2>2, <2>4, ShelfKeeps, NoDocIsOfAny
  <1> QED BY <1>3, <1>4, <1>5

\* The route wants a dashboard or none.
LEMMA WantedIsName == BInv => wanted \in Boards \cup {NoName}
  BY AskedIsName DEF BInv, Routed, wanted

\* Another route, another home, a file imported.
LEMMA RouteKeeps ==
    ASSUME BInv,
           \/ \E to \in Boards \cup {NoName, Bare} : Leaves(to)
           \/ TogglesHome
           \/ \E n \in Boards : Imports(n, MaxRev)
    PROVE  BInv'
  <1>0. OwnDocs(imports) /\ Routed
    BY DEF BInv
  <1>1. UNCHANGED <<kept, jobsD, strayed>>
    BY DEF Leaves, TogglesHome, Imports
  <1>2. OwnDocs(kept)' /\ OwnJobs' /\ (strayed' = strayed)
    BY <1>1 DEF BInv, OwnDocs, OwnJobs, IsOf
  <1>3. ASSUME NEW to \in Boards \cup {NoName, Bare}, Leaves(to) PROVE BInv'
    BY <1>0, <1>2, <1>3, GoesKeeps DEF Leaves, Routed, BInv
  <1>4. CASE TogglesHome
    BY <1>0, <1>2, <1>4, GoesKeeps, WantedIsName DEF TogglesHome, Routed, BInv
  <1>5. ASSUME NEW n \in Boards, Imports(n, MaxRev) PROVE BInv'
    <2>1. Doc(n, MaxRev).of = n
      BY DEF Doc
    <2>2. CASE n = wanted
      <3>1. present' = Doc(n, MaxRev) /\ UNCHANGED <<routeVars, baseline>>
        BY <1>5, <2>2 DEF Imports
      <3>2. Routed' /\ OwnDocs(imports') /\ wanted' = wanted /\ loads' = loads
        BY <1>0, <3>1 DEF Routed, routeVars, shelfOfRoute, wanted
      <3>3. ASSUME ~strayed PROVE OwnLoads' /\ Settled'
        BY <2>1, <2>2, <3>1, <3>2, <3>3 DEF BInv, OwnLoads, Settled, IsOf
      <3> QED BY <1>2, <3>2, <3>3 DEF BInv
    <2>3. CASE n # wanted
      <3>1. Goes(n, home, [imports EXCEPT ![n] = Doc(n, MaxRev)])
        BY <1>5, <2>3 DEF Imports
      <3>2. OwnDocs([imports EXCEPT ![n] = Doc(n, MaxRev)])
        BY <1>0, <2>1, ShelfKeeps DEF IsOf
      <3> QED BY <1>0, <1>2, <3>1, <3>2, GoesKeeps DEF Routed, BInv
    <2> QED BY <2>2, <2>3
  <1> QED BY <1>3, <1>4, <1>5

\* What is shown is edited, reverted, follows the rig, or has arrived.
LEMMA ShownKeeps ==
    ASSUME BInv,
           \/ RigMoves \/ Reverts
           \/ \E r \in 0..MaxRev : Patches(r)
           \/ \E l \in loads : LoadLands(l)
    PROVE  BInv'
  <1>1. /\ UNCHANGED <<kept, route, home, imports, jobsD, strayed>>
        /\ loads' \subseteq loads
    BY DEF RigMoves, Reverts, Patches, LoadLands, routeVars, shelfOfRoute
  <1>2. /\ Routed' /\ OwnDocs(kept') /\ OwnDocs(imports') /\ OwnJobs' /\ wanted' = wanted
    BY <1>1 DEF BInv, Routed, OwnJobs, wanted
  <1> SUFFICES ASSUME ~strayed PROVE OwnLoads' /\ Settled'
    BY <1>1, <1>2 DEF BInv
  <1>3. OwnLoads'
    BY <1>1, <1>2 DEF BInv, OwnLoads
  <1>4. CASE RigMoves \/ Reverts
    <2>1. \/ wanted = NoName /\ present' \in Overviews /\ baseline' = present'
          \/ present' = baseline /\ baseline' = baseline
      BY <1>4 DEF RigMoves, Reverts
    <2>2. loads' = loads
      BY <1>4 DEF RigMoves, Reverts, routeVars, shelfOfRoute
    <2> QED BY <1>2, <1>3, <2>1, <2>2, OverviewIsOfNoName DEF BInv, Settled
  <1>5. ASSUME NEW r \in 0..MaxRev, Patches(r) PROVE Settled'
    <2>1. /\ present # NoDoc /\ present' = Doc(present.of, r) /\ Doc(present.of, r).of = present.of
          /\ baseline' = baseline /\ loads' = loads
      BY <1>5 DEF Patches, Doc, routeVars, shelfOfRoute
    <2> QED BY <1>2, <2>1 DEF BInv, Settled, IsOf
  <1>6. ASSUME NEW l \in loads, LoadLands(l) PROVE Settled'
    <2>1. CASE ~l.live
      <3>1. loads' = loads \ {l} /\ UNCHANGED <<present, baseline>>
        BY <1>6, <2>1 DEF LoadLands
      <3> QED BY <1>2, <2>1, <3>1 DEF BInv, Settled
    <2>2. CASE l.live
      <3>1. /\ present' = IF l.imported # NoDoc THEN l.imported ELSE kept[l.name]
            /\ baseline' = kept[l.name]
        BY <1>6, <2>2 DEF LoadLands
      <3>2. l.name \in Boards /\ l.name = wanted /\ IsOf(l.imported, wanted) /\ IsOf(kept[l.name], wanted)
        BY <2>2 DEF BInv, OwnLoads, OwnDocs
      <3> QED BY <1>2, <3>1, <3>2 DEF Settled
    <2> QED BY <2>1, <2>2
  <1> QED BY <1>3, <1>4, <1>5, <1>6

\* A request to the rig is made, or refused.
LEMMA AsksKeeps ==
    ASSUME BInv,
           \/ Saves2 \/ Removes
           \/ \E n \in Boards : SavesAs(n) \/ Renames(n)
           \/ \E j \in jobsD : Refused(j)
    PROVE  BInv'
  <1>1. UNCHANGED <<kept, routeVars, present, baseline, strayed>>
    BY DEF Saves2, Removes, SavesAs, Renames, Refused
  <1>2. \A n, op : /\ Job(op, n, Under(n)).as = n /\ Job(op, n, Under(n)).body.of = n
                   /\ Job(op, n, NoDoc).as = n /\ Job(op, n, NoDoc).body = NoDoc
                   /\ Job(op, n, NoDoc).op = op
    BY DEF Job, Under, Doc
  <1>3. OwnJobs'
    <2>1. CASE Saves2
      <3>1. wanted \in Boards /\ jobsD' = {Job("save", wanted, Under(wanted))}
        BY <2>1, WantedIsName DEF Saves2
      <3> QED BY <1>2, <3>1 DEF OwnJobs, IsOf
    <2>2. CASE Removes
      <3>1. wanted \in Boards /\ jobsD' = {Job("delete", wanted, NoDoc)}
        BY <2>2, WantedIsName DEF Removes, MayRemove
      <3> QED BY <1>2, <3>1 DEF OwnJobs, IsOf
    <2>3. ASSUME NEW n \in Boards, SavesAs(n) PROVE OwnJobs'
      BY <1>2, <2>3 DEF SavesAs, BInv, OwnJobs, IsOf
    <2>4. ASSUME NEW n \in Boards, Renames(n) PROVE OwnJobs'
      <3>1. \E d \in {Under(n), NoDoc} : jobsD' = jobsD \cup {Job("rename", n, d)}
        BY <2>4 DEF Renames
      <3>2. Job("rename", n, Under(n)).op = "rename"
        BY DEF Job
      <3> QED BY <1>2, <3>1, <3>2 DEF BInv, OwnJobs, IsOf
    <2>5. ASSUME NEW j \in jobsD, Refused(j) PROVE OwnJobs'
      BY <2>5 DEF Refused, BInv, OwnJobs
    <2> QED BY <2>1, <2>2, <2>3, <2>4, <2>5
  <1> QED BY <1>1, <1>3 DEF BInv, Routed, OwnLoads, Settled, wanted, routeVars, shelfOfRoute

\* A save is answered on the page it was asked from, and the route follows its name.
LEMMA SaveKeeps ==
    ASSUME BInv, NEW j \in jobsD, SaveLands(j)
    PROVE  BInv'
  <1> DEFINE to == IF j.as # j.from THEN j.as ELSE route
  <1>1. /\ j.op = "save" /\ jobsD' = jobsD \ {j}
        /\ kept' = [kept EXCEPT ![j.as] = j.body]
        /\ route' = to /\ home' = home
        /\ present' = j.body /\ baseline' = j.body
        /\ strayed' = (strayed \/ wanted # j.from)
        /\ IF Asked(to, home) = wanted THEN UNCHANGED shelfOfRoute
           ELSE /\ loads' = {Cancelled(l) : l \in loads} \cup
                            {[name |-> to, imported |-> imports[to], live |-> TRUE]}
                /\ imports' = [imports EXCEPT ![to] = NoDoc]
    BY DEF SaveLands
  <1>2. j.as \in Boards /\ IsOf(j.body, j.as) /\ j.body.of = j.as
    BY <1>1 DEF BInv, OwnJobs
  <1>3. Routed' /\ OwnJobs' /\ wanted' = Asked(to, home)
    BY <1>1, <1>2 DEF BInv, Routed, OwnJobs, wanted
  <1>4. OwnDocs(kept')
    BY <1>1, <1>2, ShelfKeeps DEF BInv
  <1>5. CASE j.as = j.from
    <2>1. to = route /\ Asked(to, home) = wanted
      BY <1>5 DEF wanted
    <2>2. UNCHANGED <<loads, imports>>
      BY <1>1, <2>1 DEF shelfOfRoute
    <2>3. ASSUME ~strayed' PROVE OwnLoads' /\ Settled'
      <3>1. ~strayed /\ wanted = j.as
        BY <1>1, <1>5, <2>3
      <3> QED BY <1>1, <1>2, <1>3, <2>1, <2>2, <3>1 DEF BInv, OwnLoads, Settled
    <2> QED BY <1>3, <1>4, <2>2, <2>3 DEF BInv
  <1>6. CASE j.as # j.from
    <2>1. to = j.as /\ Asked(to, home) = j.as
      BY <1>2, <1>6, AskedIsName DEF BInv, Routed
    <2> HIDE DEF to
    <2>2. CASE wanted = j.as
      <3>1. UNCHANGED <<loads, imports>> /\ strayed'
        BY <1>1, <1>6, <2>1, <2>2 DEF shelfOfRoute
      <3> QED BY <1>3, <1>4, <3>1 DEF BInv
    <2>3. CASE wanted # j.as
      <3> DEFINE new == [name |-> j.as, imported |-> imports[j.as], live |-> TRUE]
      <3>1. /\ loads' = {Cancelled(l) : l \in loads} \cup {new}
            /\ imports' = [imports EXCEPT ![j.as] = NoDoc]
        BY <1>1, <2>1, <2>3
      <3>2. new.live /\ new.name = j.as /\ IsOf(new.imported, j.as)
        BY <1>2 DEF BInv, OwnDocs
      <3> HIDE DEF new
      <3>3. OwnLoads' /\ Settled'
        BY <1>2, <1>3, <2>1, <3>1, <3>2, CancelledIsNotLive DEF OwnLoads, Settled
      <3>4. OwnDocs(imports')
        BY <1>2, <3>1, ShelfKeeps, NoDocIsOfAny DEF BInv
      <3> QED BY <1>3, <1>4, <3>3, <3>4 DEF BInv
    <2> QED BY <2>2, <2>3
  <1> QED BY <1>5, <1>6

\* A rename and a removal are answered: the route follows.
LEMMA MovesKeep ==
    ASSUME BInv, NEW j \in jobsD, RenameLands(j) \/ RemoveLands(j)
    PROVE  BInv'
  <1>0. j.as \in Boards /\ IsOf(j.body, j.as) /\ jobsD' = jobsD \ {j} /\ (strayed => strayed')
    BY DEF BInv, OwnJobs, RenameLands, RemoveLands
  <1>1. OwnJobs'
    BY <1>0 DEF BInv, OwnJobs
  <1>2. CASE RenameLands(j)
    <2> DEFINE d == Doc(j.as, kept[j.from].rev)
               h == IF j.wasHome THEN j.as ELSE home
               onShelf == [imports EXCEPT ![j.as] = j.body]
    <2>1. kept' = [kept EXCEPT ![j.as] = d, ![j.from] = NoDoc] /\ Goes(j.as, h, onShelf)
      BY <1>2 DEF RenameLands
    <2>2. IsOf(d, j.as)
      BY DEF IsOf, Doc
    <2> HIDE DEF d
    <2>3. OwnDocs([kept EXCEPT ![j.as] = d])
      BY <1>0, <2>2, ShelfKeeps DEF BInv
    <2>4. OwnDocs(kept')
      BY <2>1, <2>3 DEF OwnDocs, IsOf
    <2>5. OwnDocs(onShelf) /\ h \in Boards \cup {NoName}
      BY <1>0, ShelfKeeps DEF BInv, Routed
    <2> HIDE DEF h, onShelf
    <2>6. Routed' /\ OwnDocs(imports') /\ (strayed \/ (OwnLoads' /\ Settled'))
      BY <1>0, <2>1, <2>5, GoesKeeps
    <2> QED BY <1>0, <1>1, <2>4, <2>6 DEF BInv
  <1>3. CASE RemoveLands(j)
    <2>1. /\ kept' = [kept EXCEPT ![j.as] = NoDoc]
          /\ route' = NoName /\ home' = (IF j.wasHome THEN NoName ELSE home)
          /\ IF wanted # NoName THEN NowWanted(NoName, imports)
             ELSE present' = NoDoc /\ baseline' = NoDoc /\ UNCHANGED shelfOfRoute
      BY <1>3 DEF RemoveLands
    <2>2. OwnDocs(kept')
      BY <1>0, <2>1, ShelfKeeps, NoDocIsOfAny DEF BInv
    <2>3. Routed' /\ wanted' = NoName
      BY <2>1, BoardBounds DEF BInv, Routed, wanted, Asked, Bare
    <2>4. CASE wanted # NoName
      <3>1. Goes(NoName, home', imports)
        BY <2>1, <2>4, BoardBounds DEF Goes, Asked, Bare
      <3>2. Routed' /\ OwnDocs(imports') /\ (strayed \/ (OwnLoads' /\ Settled'))
        BY <2>3, <3>1, GoesKeeps DEF Routed, BInv
      <3> QED BY <1>0, <1>1, <2>2, <3>2 DEF BInv
    <2>5. CASE wanted = NoName
      <3>1. present' = NoDoc /\ baseline' = NoDoc /\ UNCHANGED <<loads, imports>>
        BY <2>1, <2>5 DEF shelfOfRoute
      <3>2. ASSUME ~strayed PROVE OwnLoads' /\ Settled'
        BY <2>3, <2>5, <3>1, <3>2, NoDocIsOfAny DEF BInv, OwnLoads, Settled
      <3> QED BY <1>0, <1>1, <2>2, <2>3, <3>1, <3>2 DEF BInv
    <2> QED BY <2>4, <2>5
  <1> QED BY <1>2, <1>3

\* Every step of the page of dashboards keeps its invariant.
LEMMA BInvStep == BInv /\ [DashboardNext]_boardVars => BInv'
  <1> SUFFICES ASSUME BInv, [DashboardNext]_boardVars
               PROVE  BInv'
    OBVIOUS
  <1>1. CASE UNCHANGED boardVars
    BY <1>1 DEF BInv, Routed, OwnJobs, OwnLoads, Settled, wanted, boardVars, routeVars, shelfOfRoute
  <1>2. CASE DashboardNext
    BY <1>2, RouteKeeps, ShownKeeps, AsksKeeps, SaveKeeps, MovesKeep DEF DashboardNext
  <1> QED BY <1>1, <1>2

\* However loads, saves, renames and removals overtake one another, the document shown
\* once it has arrived is the route's, unless an answer came for a page that was left.
THEOREM RouteAlwaysShowsItsOwn == DashboardSpec => []RouteShowsItsOwn
  <1>1. DashboardInit => BInv
    <2> SUFFICES ASSUME DashboardInit PROVE BInv
      OBVIOUS
    <2>1. Routed /\ OwnJobs /\ OwnLoads
      BY DEF DashboardInit, Routed, OwnJobs, OwnLoads
    <2>2. OwnDocs(kept) /\ OwnDocs(imports)
      BY DEF DashboardInit, OwnDocs, IsOf, Doc, NoImports
    <2>3. Settled
      BY BoardBounds DEF DashboardInit, Settled, IsOf, Doc, wanted, Asked, Bare
    <2> QED BY <2>1, <2>2, <2>3 DEF BInv
  <1>2. BInv => RouteShowsItsOwn
    BY DEF BInv, Settled, IsOf, RouteShowsItsOwn, ShownIsWanted, Arrived
  <1> QED
    BY <1>1, <1>2, BInvStep, PTL DEF DashboardSpec

-----------------------------------------------------------------------------
(* The controllers of the store (ControllersPage).                         *)

Modes == {"manual", "regulating"}
Objects == [name : Loops, stamp : Nat, mode : Modes, which : Nat]

\* What the rig says of its controllers, and what of it is on its way.
LoopTypes ==
    /\ attachedAs \in [Loops -> Nat] /\ attachments \in [Loops -> Nat]
    /\ mode \in [Loops -> Modes] /\ objects \in Nat
    /\ frames \in Seq(Objects) /\ ctlAnswer \subseteq Objects

\* What the store holds; of a name it does not hold, the socket has delivered nothing.
Held ==
    /\ ctlLatest \in [Loops -> Objects \cup {NoObject}] /\ heard \in [Loops -> Nat]
    /\ \A n \in Loops : ctlLatest[n] = NoObject => heard[n] = 0

CInv == LoopTypes /\ Held /\ SocketWins

\* What the store shows of a controller is one of its objects.
LEMMA ObjectsAreTyped == CInv => \A n \in Loops : ObjectOf(n) \in Objects
  BY DEF CInv, LoopTypes, ObjectOf, Objects

\* An object is never the absent one, and is stamped.
LEMMA ObjectIsSome == \A o \in Objects : o # NoObject /\ Stamp(o) = o.stamp
  BY ControllersBounds DEF Objects, Modes, Stamp

\* What other clients and the two controls do to the rig.
LEMMA RigKeeps ==
    ASSUME CInv, OtherClient \/ RigStops \/ RigDetaches \/ RigTakesTarget
    PROVE  CInv'
  <1>1. UNCHANGED <<objects, frames, ctlAnswer, ctlLatest, heard>>
    BY DEF OtherClient, RigStops, RigDetaches, RigTakesTarget, storeVars
  <1>2. Held' /\ SocketWins'
    BY <1>1 DEF CInv, Held, SocketWins
  <1>3. attachedAs' \in [Loops -> Nat] /\ attachments' \in [Loops -> Nat]
    <2>1. ASSUME NEW n \in Loops, Attach(n) PROVE attachedAs' \in [Loops -> Nat] /\ attachments' \in [Loops -> Nat]
      BY <2>1 DEF CInv, LoopTypes, Attach
    <2>2. ASSUME NEW n \in Loops, attachedAs' = [attachedAs EXCEPT ![n] = 0], attachments' = attachments
          PROVE  attachedAs' \in [Loops -> Nat] /\ attachments' \in [Loops -> Nat]
      BY <2>2 DEF CInv, LoopTypes
    <2>3. CASE UNCHANGED <<attachedAs, attachments>>
      BY <2>3 DEF CInv, LoopTypes
    <2> QED BY <2>1, <2>2, <2>3 DEF OtherClient, RigStops, RigDetaches, RigTakesTarget, Switch
  <1>4. mode' \in [Loops -> Modes]
    <2>1. CASE OtherClient
      BY <2>1 DEF CInv, LoopTypes, OtherClient, Attach, Switch, Modes
    <2>2. CASE RigStops \/ RigDetaches
      BY <2>2 DEF CInv, LoopTypes, RigStops, RigDetaches, Switch, Modes
    <2>3. CASE RigTakesTarget
      BY <2>3 DEF CInv, LoopTypes, RigTakesTarget, Switch, Modes
    <2> QED BY <2>1, <2>2, <2>3
  <1> QED BY <1>1, <1>2, <1>3, <1>4 DEF CInv, LoopTypes

\* What is sent and asked for, with the stamp the rig has reached.
LEMMA SendingKeeps ==
    ASSUME CInv, Ticks \/ SeedControllers \/ SeedReads
    PROVE  CInv'
  <1>1. UNCHANGED <<attachedAs, attachments, mode, ctlLatest, heard>>
    BY DEF Ticks, SeedControllers, SeedReads, loopVars
  <1>2. Held' /\ SocketWins'
    BY <1>1 DEF CInv, Held, SocketWins
  <1>3. objects' \in Nat
    BY DEF CInv, LoopTypes, Ticks, SeedControllers, SeedReads, loopVars
  <1>4. frames' \in Seq(Objects)
    <2>1. ASSUME NEW n \in Loops, frames' = Append(frames, ObjectOf(n)) PROVE frames' \in Seq(Objects)
      BY <2>1, ObjectsAreTyped DEF CInv, LoopTypes
    <2> QED BY <2>1 DEF CInv, LoopTypes, Ticks, SeedControllers, SeedReads
  <1>5. ctlAnswer' \subseteq Objects
    BY ObjectsAreTyped DEF CInv, LoopTypes, Ticks, SeedControllers, SeedReads
  <1> QED BY <1>1, <1>2, <1>3, <1>4, <1>5 DEF CInv, LoopTypes

\* The socket delivers: the newest object of a name, and the newest heard of.
LEMMA DeliveryKeeps == CInv /\ OnControllers => CInv'
  <1> SUFFICES ASSUME CInv, OnControllers
               PROVE  CInv'
    OBVIOUS
  <1> DEFINE o == Head(frames)
  <1>1. /\ frames # <<>> /\ frames' = Tail(frames)
        /\ ctlLatest' = [ctlLatest EXCEPT ![o.name] = o]
        /\ heard' = [heard EXCEPT ![o.name] = o.stamp]
        /\ UNCHANGED <<attachedAs, attachments, mode, objects, ctlAnswer>>
    BY DEF OnControllers, loopVars
  <1>2. o \in Objects /\ Tail(frames) \in Seq(Objects)
    BY <1>1 DEF CInv, LoopTypes
  <1>3. o.name \in Loops /\ o.stamp \in Nat /\ o # NoObject /\ Stamp(o) = o.stamp
    BY <1>2, ObjectIsSome DEF Objects
  <1> HIDE DEF o
  <1>4. Held' /\ SocketWins'
    BY <1>1, <1>2, <1>3 DEF CInv, Held, SocketWins
  <1> QED BY <1>1, <1>2, <1>4 DEF CInv, LoopTypes

\* The answer lands: only where the store holds nothing, where nothing was heard.
LEMMA SeedKeeps == CInv /\ SeedControllersLand => CInv'
  <1> SUFFICES ASSUME CInv, SeedControllersLand
               PROVE  CInv'
    OBVIOUS
  <1>1. /\ UNCHANGED <<attachedAs, attachments, mode, objects, frames, heard>>
        /\ ctlAnswer' = {}
        /\ ctlLatest' = [n \in Loops |-> IF \E o \in FreshOf(ctlAnswer) : o.name = n
                                         THEN CHOOSE o \in FreshOf(ctlAnswer) : o.name = n
                                         ELSE ctlLatest[n]]
    BY DEF SeedControllersLand, loopVars
  <1>2. \A n \in Loops : \/ ctlLatest'[n] = ctlLatest[n]
                         \/ ctlLatest'[n] \in Objects /\ ctlLatest[n] = NoObject
    <2> SUFFICES ASSUME NEW n \in Loops, NEW o \in FreshOf(ctlAnswer), o.name = n
                 PROVE  ctlLatest'[n] \in Objects /\ ctlLatest[n] = NoObject
      BY <1>1
    <2>1. PICK p \in FreshOf(ctlAnswer) : p.name = n /\ ctlLatest'[n] = p
      BY <1>1
    <2> QED BY <2>1 DEF FreshOf, CInv, LoopTypes
  <1>3. Held' /\ SocketWins'
    <2>1. ctlLatest' \in [Loops -> Objects \cup {NoObject}]
      BY <1>1, <1>2 DEF CInv, Held
    <2>2. \A n \in Loops : ctlLatest'[n] \in Objects => ctlLatest'[n] # NoObject /\ Stamp(ctlLatest'[n]) \in Nat
      BY ObjectIsSome DEF Objects
    <2>3. \A n \in Loops : ctlLatest'[n] = NoObject => heard'[n] = 0
      BY <1>1, <1>2, ObjectIsSome DEF CInv, Held
    <2>4. \A n \in Loops : Stamp(ctlLatest'[n]) >= heard'[n]
      <3> SUFFICES ASSUME NEW n \in Loops PROVE Stamp(ctlLatest'[n]) >= heard'[n]
        OBVIOUS
      <3>1. CASE ctlLatest'[n] = ctlLatest[n]
        BY <1>1, <3>1 DEF CInv, SocketWins
      <3>2. CASE ctlLatest'[n] \in Objects /\ ctlLatest[n] = NoObject
        BY <1>1, <2>2, <3>2 DEF CInv, Held
      <3> QED BY <1>2, <3>1, <3>2
    <2> QED BY <1>1, <2>1, <2>3, <2>4 DEF CInv, Held, SocketWins
  <1> QED BY <1>1, <1>3 DEF CInv, LoopTypes

\* Every step of the store and the page keeps its invariant.
LEMMA CInvStep == CInv /\ [ControllersNext]_controllersVars => CInv'
  <1> SUFFICES ASSUME CInv, [ControllersNext]_controllersVars
               PROVE  CInv'
    OBVIOUS
  <1>1. CASE OtherClient \/ RigStops \/ RigDetaches \/ RigTakesTarget
    BY <1>1, RigKeeps
  <1>2. CASE Ticks \/ SeedControllers \/ SeedReads
    BY <1>2, SendingKeeps
  <1>3. CASE OnControllers
    BY <1>3, DeliveryKeeps
  <1>4. CASE SeedControllersLand
    BY <1>4, SeedKeeps
  <1>5. CASE UNCHANGED <<loopVars, storeVars>>
    BY <1>5 DEF CInv, LoopTypes, Held, SocketWins, loopVars, storeVars
  <1>6. ASSUME \/ RendersControllers \/ LeavesPage \/ EntersPage \/ PressesStop \/ AsksToRemove
               \/ ThinksAgain \/ ConfirmsRemove \/ StopAnswered \/ SendsTarget \/ SetAnswered
               \/ UNCHANGED controllersVars
        PROVE  UNCHANGED <<loopVars, storeVars>>
    BY <1>6 DEF RendersControllers, LeavesPage, EntersPage, PressesStop, AsksToRemove, ThinksAgain,
                ConfirmsRemove, StopAnswered, SendsTarget, SetAnswered, controllersVars, loopVars, storeVars
  <1> QED BY <1>1, <1>2, <1>3, <1>4, <1>5, <1>6 DEF ControllersNext

\* Whatever the order the socket's messages and the answer to the request come in,
\* no controller is shown as it was before what the socket last said of it.
THEOREM SocketAlwaysWins == ControllersSpec => []SocketWins
  <1>1. ControllersInit => CInv
    <2> SUFFICES ASSUME ControllersInit PROVE CInv
      OBVIOUS
    <2>1. LoopTypes
      BY DEF ControllersInit, LoopTypes, Modes
    <2>2. Held /\ SocketWins
      BY DEF ControllersInit, Held, SocketWins, NoMap, Stamp
    <2> QED BY <2>1, <2>2 DEF CInv
  <1>2. CInv => SocketWins
    BY DEF CInv
  <1> QED
    BY <1>1, <1>2, CInvStep, PTL DEF ControllersSpec

-----------------------------------------------------------------------------
(* The feedforward of a new controller (RigConfig).                        *)

\* What was picked is of the target and the source there are.
PickedFits ==
    /\ draft \in [target : {draft.target}, source : {draft.source}, lawReady : {draft.lawReady},
                  feedforward : {draft.feedforward}]
    /\ draft.feedforward # Unset /\ draft.feedforward = "setpoint" => UnitsAgree(draft)

\* Another target or source takes it back; what is offered is of both.
LEMMA PickedFitsStep ==
    ASSUME PickedFits, [ConfigNext]_configVars
    PROVE  PickedFits'
<1>1. CASE UNCHANGED draft
  BY <1>1 DEF PickedFits, UnitsAgree
<1>2. CASE PicksTarget
  BY <1>2 DEF PickedFits, PicksTarget, Drafts, WithTarget
<1>3. CASE PicksSource
  BY <1>3 DEF PickedFits, PicksSource, Drafts, WithSource
<1>4. CASE PicksLaw
  BY <1>4 DEF PickedFits, PicksLaw, Drafts, UnitsAgree
<1>5. CASE UsesFeedforward
  BY <1>5 DEF PickedFits, UsesFeedforward, Drafts, Offered, UnitsAgree
<1>6. CASE \/ QueryLands \/ Polls \/ OpensAdd \/ OpensRemove \/ OpensRestore \/ Closes
           \/ ChoosesDriver \/ EditsConfig \/ Sends \/ RigAnswers \/ ChangeAnswered \/ ChangeRefused
  BY <1>1, <1>6 DEF QueryLands, Polls, OpensAdd, OpensRemove, OpensRestore, OpensDialog, Closes,
     ChoosesDriver, EditsConfig, Sends, RigAnswers, ChangeAnswered, ChangeRefused
<1> QED BY <1>1, <1>2, <1>3, <1>4, <1>5, <1>6 DEF ConfigNext, configVars

\* No controller is asked for with its setpoint passed on between differing units.
THEOREM FeedforwardAlwaysFits == ConfigSpec => []FeedforwardFits
<1>1. ConfigInit => PickedFits
  BY DEF ConfigInit, PickedFits, EmptyDraft
<1>2. PickedFits => FeedforwardFits
  <2> SUFFICES ASSUME PickedFits, Feedforward(draft) = "setpoint" PROVE UnitsAgree(draft)
    BY DEF FeedforwardFits
  <2>1. CASE draft.feedforward # Unset
    BY <2>1 DEF PickedFits, Feedforward
  <2>2. CASE draft.feedforward = Unset /\ ~(draft.target = Unset \/ draft.source = Unset)
    BY <2>2 DEF Feedforward, DefaultFeedforward
  <2>3. CASE draft.feedforward = Unset /\ (draft.target = Unset \/ draft.source = Unset)
    BY <2>3, ConfigBounds DEF PickedFits, Feedforward, DefaultFeedforward
  <2> QED BY <2>1, <2>2, <2>3
<1> QED BY <1>1, <1>2, PickedFitsStep, PTL DEF ConfigSpec

-----------------------------------------------------------------------------
(* The faceplate (Faceplate).                                              *)

FaceTimes == Nat \cup {NoTime}

AgesOK ==
    /\ rigClock \in Nat /\ newestS \in FaceTimes /\ sourceT \in FaceTimes /\ period \in Nat
    /\ sourceT <= newestS

\* What the memo says, it says of the age and the period it was made for: one made
\* of a reading that was not stale calls none stale, one made of a stale one is as
\* far behind as the age says.
MemoOfItsAge ==
    /\ heldPeriod \in Nat /\ heldAge \in Nat \cup {-1}
    /\ fresh.period = heldPeriod
    /\ heldAge = -1 => Level(fresh) = "ok"
    /\ heldAge # -1 => fresh.last \in Nat /\ fresh.now = fresh.last + heldAge

Within(d) == Larger(Lo, Smaller(Hi, d))

\* A tick is of one aim: the demand and what it will give, and one way or another
\* the setpoint, come from it.
TickOfOneAim ==
    \/ /\ controller.aim = Null /\ controller.setpoint = Null /\ controller.reference = Null
       /\ controller.demand = Null /\ controller.expected = Null
    \/ /\ controller.aim \in Int /\ controller.reference = controller.aim
       /\ controller.setpoint \in {controller.aim, Null}
       /\ controller.moving \in BOOLEAN
       /\ controller.correction \in Int
       /\ controller.demand = Gain * controller.aim + controller.correction
       /\ controller.expected = Within(controller.demand)

\* A write gives what was asked, or the limit that was passed.
WriteOfOneDemand ==
    write # Null =>
       \/ write.limit = Null
       \/ write.limit = "high" /\ write.value = Hi /\ write.requested \in Int /\ write.requested > Hi
       \/ write.limit = "low" /\ write.value = Lo /\ write.requested \in Int /\ write.requested < Lo

\* The demand of an aim is a number.
LEMMA DemandIsANumber ==
    ASSUME NEW aim \in Int, NEW share \in Int
    PROVE  Gain * aim + share \in Int
  <1>1. Gain \in Int
    BY FaceBounds
  <1>2. \A g, n \in Int : g * n \in Int
    OBVIOUS
  <1>3. Gain * aim \in Int
    BY <1>1, <1>2
  <1>4. \A m, n \in Int : m + n \in Int
    OBVIOUS
  <1> QED BY <1>3, <1>4

FInv == AgesOK /\ MemoOfItsAge /\ TickOfOneAim /\ WriteOfOneDemand

\* Whole seconds are less than half a second off.
LEMMA RoundedIsNear ==
    ASSUME NEW q \in Nat
    PROVE  Round(q) \in Nat /\ Round(q) > q - Second \div 2
  BY DEF Round, Second

LEMMA DividedBack ==
    ASSUME NEW g \in Nat, g > 0, NEW x \in Int
    PROVE  (g * x) \div g = x
  <1> DEFINE q == (g * x) \div g
  <1>1. q \in Int /\ g * q <= g * x /\ g * x < g * q + g
    OBVIOUS
  <1>2. g * (x - q) >= 0 /\ g * (x - q) < g
    BY <1>1
  <1>3. x - q \in Int
    BY <1>1
  <1>4. ASSUME NEW d \in Int, g * d >= 0, g * d < g PROVE d = 0
    BY <1>4
  <1> QED BY <1>2, <1>3, <1>4, <1>1

LEMMA AimIsRecovered ==
    ASSUME NEW x \in Int
    PROVE  OverGain(Gain * x) = x
  <1>1. Gain \in Int /\ Gain # 0
    BY FaceBounds
  <1>2. CASE Gain > 0
    BY <1>1, <1>2, DividedBack DEF OverGain
  <1>3. CASE Gain < 0
    <2>1. -Gain \in Nat /\ -Gain > 0 /\ -(Gain * x) = (-Gain) * x
      BY <1>1, <1>3
    <2>2. ((-Gain) * x) \div (-Gain) = x
      BY <2>1, DividedBack
    <2> QED BY <1>1, <1>3, <2>1, <2>2 DEF OverGain
  <1> QED BY <1>1, <1>2, <1>3

\* The age is told just while the newest reading is stale.
LEMMA AgeIsOfTheStale ==
    ASSUME AgesOK
    PROVE  /\ Age \in Nat \cup {-1}
           /\ Age = -1 <=> sourceT = NoTime \/ newestS - sourceT <= StaleAfter(period)
           /\ Age # -1 => sourceT \in Nat /\ Age > newestS - sourceT - Second \div 2
  <1>1. sourceT # NoTime => newestS \in Nat /\ sourceT \in Nat /\ newestS - sourceT \in Nat /\ newestS # NoTime
    BY DEF AgesOK, FaceTimes, NoTime
  <1>2. CASE sourceT = NoTime \/ newestS = NoTime \/ newestS - sourceT <= StaleAfter(period)
    BY <1>1, <1>2 DEF Age
  <1>3. CASE ~(sourceT = NoTime \/ newestS = NoTime \/ newestS - sourceT <= StaleAfter(period))
    <2>1. Age = Round(newestS - sourceT)
      BY <1>3 DEF Age
    <2> QED BY <1>1, <1>3, <2>1, RoundedIsNear
  <1> QED BY <1>2, <1>3

\* The memo a render goes by is of the age there is, made anew or not.
LEMMA RenderKeepsMemo ==
    ASSUME AgesOK, MemoOfItsAge, NEW memo,
           memo = IF Remade(Age) THEN Memo(Age) ELSE fresh
    PROVE  /\ memo.period = period
           /\ Age = -1 => Level(memo) = "ok"
           /\ Age # -1 => memo.last \in Nat /\ memo.now = memo.last + Age
  <1>1. /\ Age \in Nat \cup {-1}
        /\ Age = -1 <=> sourceT = NoTime \/ newestS - sourceT <= StaleAfter(period)
        /\ Age # -1 => sourceT \in Nat
    BY AgeIsOfTheStale
  <1>2. CASE Remade(Age)
    <2>1. memo = Memo(Age)
      BY <1>2
    <2>2. memo.period = period /\ memo.last = sourceT
      BY <2>1 DEF Memo
    <2>3. Age = -1 => memo.now = newestS
      BY <2>1 DEF Memo
    <2>4. Age = -1 => Level(memo) = "ok"
      <3>1. newestS \in Int /\ sourceT \in Int /\ StaleAfter(period) \in Int
        BY DEF AgesOK, FaceTimes, NoTime, StaleAfter, Larger, Second
      <3> QED BY <1>1, <2>2, <2>3, <3>1 DEF Level
    <2>5. Age # -1 => memo.now = memo.last + Age
      BY <1>1, <2>1, <2>2 DEF Memo, NoTime
    <2> QED BY <1>1, <2>2, <2>4, <2>5
  <1>3. CASE ~Remade(Age)
    BY <1>3 DEF Remade, MemoOfItsAge
  <1> QED BY <1>2, <1>3

LEMMA FInvInit == FaceInit => FInv
  <1> SUFFICES ASSUME FaceInit PROVE FInv
    OBVIOUS
  <1>1. AgesOK
    BY DEF FaceInit, AgesOK, FaceTimes, NoTime
  <1>2. MemoOfItsAge
    BY DEF FaceInit, MemoOfItsAge, Level
  <1>3. TickOfOneAim /\ WriteOfOneDemand
    BY DEF FaceInit, TickOfOneAim, WriteOfOneDemand
  <1> QED BY <1>1, <1>2, <1>3 DEF FInv

LEMMA FInvStep == FInv /\ [FaceNext]_faceVars => FInv'
  <1> SUFFICES ASSUME FInv, [FaceNext]_faceVars PROVE FInv'
    OBVIOUS
  <1> USE DEF FInv, rigVars, heldVars
  <1>0. /\ Clock \subseteq Nat /\ Periods \subseteq Nat /\ Aims \subseteq Int
        /\ Gain \in Int /\ Lo \in Int /\ Hi \in Int /\ Lo <= Hi /\ Null \notin Int
    BY FaceBounds
  <1>1. CASE UNCHANGED faceVars
    BY <1>1 DEF faceVars, AgesOK, MemoOfItsAge, TickOfOneAim, WriteOfOneDemand
  <1>2. CASE Renders
    <2> DEFINE memo == IF Remade(Age) THEN Memo(Age) ELSE fresh
    <2>1. /\ heldAge' = Age /\ heldPeriod' = period /\ fresh' = memo
          /\ UNCHANGED <<rigVars, newestS, sourceT, period, offline, controller, write, startS>>
      BY <1>2 DEF Renders
    <2>2. /\ memo.period = period
          /\ Age = -1 => Level(memo) = "ok"
          /\ Age # -1 => memo.last \in Nat /\ memo.now = memo.last + Age
      BY RenderKeepsMemo
    <2>3. Age \in Nat \cup {-1} /\ period \in Nat
      BY AgeIsOfTheStale DEF AgesOK
    <2>4. MemoOfItsAge'
      <3> HIDE DEF memo
      <3> QED BY <2>1, <2>2, <2>3 DEF MemoOfItsAge, Level
    <2> QED BY <2>1, <2>4 DEF AgesOK, TickOfOneAim, WriteOfOneDemand
  <1>3. CASE ClockMoves
    BY <1>0, <1>3 DEF ClockMoves, AgesOK, MemoOfItsAge, TickOfOneAim, WriteOfOneDemand
  <1>4. CASE Samples
    BY <1>4 DEF Samples, AgesOK, FaceTimes, NoTime, Larger, MemoOfItsAge, TickOfOneAim, WriteOfOneDemand
  <1>5. CASE ControllerTicks
    <2>1. PICK aim \in Aims, share \in {0, 1}, moving, arrived, resolved, open \in BOOLEAN :
             controller' = Ticked(aim, share, moving, arrived, resolved, open)
      BY <1>5 DEF ControllerTicks
    <2>2. TickOfOneAim'
      <3>1. aim \in Int /\ share \in Int
        BY <1>0
      <3> QED BY <2>1, <3>1 DEF Ticked, TickOfOneAim, Within
    <2>3. UNCHANGED <<rigVars, newestS, sourceT, period, offline, write, startS, heldVars, face>>
      BY <1>5 DEF ControllerTicks
    <2> QED BY <2>2, <2>3 DEF AgesOK, MemoOfItsAge, WriteOfOneDemand
  <1>6. CASE TargetWritten
    <2>1. UNCHANGED <<rigVars, newestS, sourceT, period, offline, controller, startS, heldVars, face>>
      BY <1>6 DEF TargetWritten
    <2>2. controller.demand \in Int
      <3>1. controller.demand # Null
        BY <1>6 DEF TargetWritten
      <3> QED BY <1>0, <3>1 DEF TickOfOneAim
    <2>3. WriteOfOneDemand'
      BY <1>0, <1>6, <2>2 DEF TargetWritten, WriteOfOneDemand, Larger, Smaller
    <2> QED BY <2>1, <2>3 DEF AgesOK, MemoOfItsAge, TickOfOneAim
  <1>7. CASE DeviceRuns
    BY <1>0, <1>7 DEF DeviceRuns, AgesOK, MemoOfItsAge, TickOfOneAim, WriteOfOneDemand
  <1>8. CASE ClockAnswered
    BY <1>8 DEF ClockAnswered, AgesOK, MemoOfItsAge, TickOfOneAim, WriteOfOneDemand
  <1>9. CASE RigRestarts
    BY <1>9 DEF RigRestarts, AgesOK, MemoOfItsAge, TickOfOneAim, WriteOfOneDemand
  <1> QED BY <1>1, <1>2, <1>3, <1>4, <1>5, <1>6, <1>7, <1>8, <1>9 DEF FaceNext

\* What a render shows is true of what the store holds.
LEMMA RenderIsTrue ==
    ASSUME FInv, Renders
    PROVE  SaysWhenStale /\ ShowsTheAim /\ LimitIsReal
  <1> DEFINE memo == IF Remade(Age) THEN Memo(Age) ELSE fresh
  <1>0. /\ Gain \in Int /\ Lo \in Int /\ Hi \in Int /\ Lo <= Hi
        /\ Null \notin Int /\ Null \notin {"high", "low", "no recent reading"}
    BY FaceBounds
  <1>1. face' = Face(Level(memo))
    BY DEF Renders
  <1>2. SaysWhenStale
    <2> SUFFICES ASSUME ~offline, sourceT # NoTime
                 PROVE  /\ newestS - sourceT >= StaleAfter(period) + Second \div 2 => face'.banner = "no recent reading"
                        /\ newestS - sourceT <= StaleAfter(period) => face'.banner # "no recent reading"
      BY DEF SaysWhenStale
    <2>1. face'.banner = Banner(Level(memo))
      BY <1>1 DEF Face
    <2>2. Banner(Level(memo)) = "no recent reading" <=> Level(memo) = "stale"
      BY <1>0 DEF Banner
    <2>3. /\ memo.period = period
          /\ Age = -1 => Level(memo) = "ok"
          /\ Age # -1 => memo.last \in Nat /\ memo.now = memo.last + Age
      BY RenderKeepsMemo DEF FInv
    <2>4. /\ Age \in Nat \cup {-1}
          /\ Age = -1 <=> newestS - sourceT <= StaleAfter(period)
          /\ Age # -1 => Age > newestS - sourceT - Second \div 2
      BY AgeIsOfTheStale DEF FInv
    <2>5. newestS - sourceT \in Int /\ StaleAfter(period) \in Nat
      BY DEF FInv, AgesOK, FaceTimes, NoTime, StaleAfter, Larger, Second
    <2>6. CASE newestS - sourceT <= StaleAfter(period)
      <3>1. Level(memo) = "ok"
        BY <2>3, <2>4, <2>6
      <3>2. face'.banner # "no recent reading"
        <4> HIDE DEF memo
        <4> QED BY <2>1, <2>2, <3>1
      <3>3. ~(newestS - sourceT >= StaleAfter(period) + Second \div 2)
        BY <2>5, <2>6 DEF Second
      <3> QED BY <3>2, <3>3
    <2>7. CASE newestS - sourceT >= StaleAfter(period) + Second \div 2
      <3> HIDE DEF memo
      <3>1. Age # -1 /\ Age > StaleAfter(period)
        BY <2>4, <2>5, <2>7 DEF Second
      <3>2. memo.last \in Nat /\ memo.now = memo.last + Age /\ memo.period = period /\ Age \in Nat
        BY <2>3, <2>4, <3>1
      <3>3. memo.now - memo.last > StaleAfter(memo.period) /\ memo.now # NoTime /\ memo.last # NoTime
        BY <2>5, <3>1, <3>2 DEF NoTime
      <3>4. Level(memo) = "stale"
        BY <3>3 DEF Level
      <3>5. face'.banner = "no recent reading"
        BY <2>1, <2>2, <3>4
      <3>6. ~(newestS - sourceT <= StaleAfter(period))
        BY <2>5, <2>7 DEF Second
      <3> QED BY <3>5, <3>6
    <2> QED BY <2>6, <2>7
  <1>3. ShowsTheAim
    <2>1. face'.target = SetpointOf(controller)
      BY <1>1 DEF Face
    <2>2. CASE controller.aim = Null /\ controller.setpoint = Null /\ controller.reference = Null
               /\ controller.demand = Null
      BY <2>1, <2>2 DEF SetpointOf, ShowsTheAim
    <2>3. CASE /\ controller.aim \in Int /\ controller.reference = controller.aim
               /\ controller.setpoint \in {controller.aim, Null}
               /\ controller.moving \in BOOLEAN
               /\ controller.correction \in Int
               /\ controller.demand = Gain * controller.aim + controller.correction
      <3>0. Gain * controller.aim \in Int
        <4>1. \A g, n \in Int : g * n \in Int
          OBVIOUS
        <4> QED BY <1>0, <2>3, <4>1
      <3>1. Recovered(controller) = controller.aim
        <4>1. ASSUME NEW d \in Int, controller.demand = d + controller.correction
              PROVE  controller.demand - controller.correction = d
          BY <2>3, <4>1
        <4>3. controller.demand - controller.correction = Gain * controller.aim
          BY <2>3, <3>0, <4>1
        <4>2. OverGain(Gain * controller.aim) = controller.aim
          BY <2>3, AimIsRecovered
        <4> QED BY <4>2, <4>3 DEF Recovered
      <3>2. controller.demand \in Int
        <4>1. ASSUME NEW d \in Int, controller.demand = d + controller.correction
              PROVE  controller.demand \in Int
          BY <2>3, <4>1
        <4> QED BY <2>3, <3>0, <4>1
      <3> QED BY <1>0, <2>1, <2>3, <3>1, <3>2 DEF SetpointOf, ShowsTheAim
    <2> QED BY <2>2, <2>3 DEF FInv, TickOfOneAim
  <1>4. LimitIsReal
    <2>1. /\ face'.edge = Edge /\ face'.output = Output
          /\ face'.requested = IF Clamped THEN Requested ELSE Null
      BY <1>1 DEF Face
    <2>2. CASE ~Clamped
      BY <1>0, <2>1, <2>2 DEF Edge, LimitIsReal
    <2>3. CASE Clamped /\ write # Null
      BY <1>0, <2>1, <2>3 DEF Clamped, Edge, Output, Requested, LimitIsReal, FInv, WriteOfOneDemand
    <2>4. CASE Clamped /\ write = Null
      <3>1. controller.expected # Null /\ controller.demand # controller.expected
        BY <2>4 DEF Clamped, Differs
      <3>2. controller.demand \in Int /\ controller.expected = Within(controller.demand)
        BY <3>1, DemandIsANumber DEF FInv, TickOfOneAim
      <3>3. controller.expected \in Int
        BY <1>0, <3>2 DEF Within, Larger, Smaller
      <3>4. Edge = IF controller.demand > controller.expected THEN "high" ELSE "low"
        BY <2>4 DEF Edge
      <3>5. Output = controller.expected /\ Requested = controller.demand
        BY <2>4, <3>1 DEF Output, Requested
      <3>6. /\ controller.demand > controller.expected => controller.expected = Hi /\ controller.demand > Hi
            /\ controller.demand <= controller.expected => controller.expected = Lo /\ controller.demand < Lo
        <4>1. ASSUME NEW d \in Int, d # Within(d)
              PROVE  /\ d > Within(d) => Within(d) = Hi /\ d > Hi
                     /\ d <= Within(d) => Within(d) = Lo /\ d < Lo
          <5>1. Lo \in Int /\ Hi \in Int /\ Lo <= Hi
            BY <1>0
          <5> QED BY <4>1, <5>1 DEF Within, Larger, Smaller
        <4> QED BY <3>1, <3>2, <4>1
      <3> QED BY <2>1, <2>4, <3>2, <3>3, <3>4, <3>5, <3>6 DEF LimitIsReal
    <2> QED BY <2>2, <2>3, <2>4
  <1> QED BY <1>2, <1>3, <1>4

\* A faceplate tells the truth of what the store holds at every render, whatever its
\* memo was made of, for every gain of the feedforward and all limits.
THEOREM FaceAlwaysTrue == FaceSpec => FaceIsTrue
  <1>1. FInv /\ [FaceNext]_faceVars => [Renders => SaysWhenStale /\ ShowsTheAim /\ LimitIsReal]_faceVars
    BY RenderIsTrue
  <1> QED BY <1>1, FInvInit, FInvStep, PTL DEF FaceSpec, FaceIsTrue

-----------------------------------------------------------------------------
(* The builder of a program's steps (ProgramBuilder).                      *)

\* The steps are a list, whatever they say.
StepsAreAList == steps \in Seq(Range(steps)) /\ dragged \in Nat

LEMMA ListOfItsOwn ==
    ASSUME NEW S, NEW s \in Seq(S)
    PROVE  s \in Seq(Range(s))
  <1>1. Len(s) \in Nat /\ DOMAIN s = 1..Len(s) /\ s = [i \in 1..Len(s) |-> s[i]]
    OBVIOUS
  <1>2. \A i \in 1..Len(s) : s[i] \in Range(s)
    BY <1>1 DEF Range
  <1> QED BY <1>1, <1>2

LEMMA InsertedIsAList ==
    ASSUME NEW S, steps \in Seq(S), NEW at \in 1..Len(steps) + 1, NEW step
    PROVE  InsertStep(at, step) \in Seq(S \cup {step})
  <1> DEFINE T == S \cup {step}
  <1>1. steps \in Seq(T) /\ <<step>> \in Seq(T)
    OBVIOUS
  <1>2. SubSeq(steps, 1, at - 1) \in Seq(T) /\ SubSeq(steps, at, Len(steps)) \in Seq(T)
    BY <1>1
  <1> HIDE DEF T
  <1>3. InsertStep(at, step) \in Seq(T)
    BY <1>1, <1>2 DEF InsertStep
  <1> QED BY <1>3 DEF T

LEMMA DroppedIs ==
    ASSUME NEW S, steps \in Seq(S), NEW i \in DOMAIN steps
    PROVE  /\ Dropped(i) \in Seq(S) /\ Len(Dropped(i)) = Len(steps) - 1
           /\ \A k \in 1..Len(steps) - 1 : Dropped(i)[k] = IF k < i THEN steps[k] ELSE steps[k + 1]
  <1>1. i \in 1..Len(steps) /\ Len(steps) \in Nat
    OBVIOUS
  <1> DEFINE a == SubSeq(steps, 1, i - 1)
             b == SubSeq(steps, i + 1, Len(steps))
  <1>2. a \in Seq(S) /\ Len(a) = i - 1 /\ \A k \in 1..i - 1 : a[k] = steps[k]
    BY <1>1
  <1>3. b \in Seq(S) /\ Len(b) = Len(steps) - i /\ \A k \in 1..Len(steps) - i : b[k] = steps[k + i]
    BY <1>1
  <1>4. Dropped(i) = a \o b
    BY DEF Dropped
  <1> HIDE DEF a, b
  <1>5. Dropped(i) \in Seq(S) /\ Len(Dropped(i)) = Len(steps) - 1
    BY <1>1, <1>2, <1>3, <1>4
  <1>6. ASSUME NEW k \in 1..Len(steps) - 1
        PROVE  Dropped(i)[k] = IF k < i THEN steps[k] ELSE steps[k + 1]
    <2>1. CASE k < i
      BY <1>1, <1>2, <1>3, <1>4, <2>1
    <2>2. CASE k >= i
      <3>1. k - (i - 1) \in 1..Len(steps) - i /\ (k - (i - 1)) + i = k + 1
        BY <1>1, <2>2
      <3>2. (a \o b)[k] = b[k - (i - 1)]
        <4>1. k \in 1..Len(a) + Len(b) /\ k > Len(a)
          BY <1>1, <1>2, <1>3, <2>2
        <4>2. \A m \in 1..Len(a) + Len(b) : (a \o b)[m] = IF m <= Len(a) THEN a[m] ELSE b[m - Len(a)]
          BY <1>2, <1>3, ConcatProperties
        <4>3. k - Len(a) = k - (i - 1) /\ ~(k <= Len(a))
          BY <1>1, <1>2, <4>1
        <4> QED BY <4>1, <4>2, <4>3
      <3>3. b[k - (i - 1)] = steps[k + 1]
        BY <1>3, <3>1
      <3> QED BY <1>1, <1>4, <2>2, <3>2, <3>3
    <2> QED BY <1>1, <2>1, <2>2
  <1> QED BY <1>5, <1>6

\* Where the step comes from that stands at k after the one at from was put at `at`.
CameFrom(from, at, k) ==
    IF k = at THEN from
    ELSE LET j == IF k < at THEN k ELSE k - 1 IN IF j < from THEN j ELSE j + 1

\* A move of a step there is: the same number of steps, each from a place of its own.
LEMMA MovedIs ==
    ASSUME NEW S, steps \in Seq(S), NEW from \in DOMAIN steps, NEW to \in 1..Len(steps) + 1,
           to \notin {from, from + 1}
    PROVE  LET at == IF to > from THEN to - 1 ELSE to
           IN /\ at \in 1..Len(steps)
              /\ Moved(from, to) \in Seq(S) /\ Len(Moved(from, to)) = Len(steps)
              /\ \A k \in 1..Len(steps) : Moved(from, to)[k] = steps[CameFrom(from, at, k)]
  <1> DEFINE at == IF to > from THEN to - 1 ELSE to
             rest == Dropped(from)
             a == SubSeq(rest, 1, at - 1)
             b == SubSeq(rest, at, Len(rest))
             n == Len(steps)
  <1>0. n \in Nat /\ from \in 1..n /\ to \in 1..n + 1 /\ at \in 1..n /\ steps[from] \in S
    OBVIOUS
  <1>1. /\ rest \in Seq(S) /\ Len(rest) = n - 1
        /\ \A k \in 1..n - 1 : rest[k] = IF k < from THEN steps[k] ELSE steps[k + 1]
    BY DroppedIs
  <1>2. Moved(from, to) = a \o <<steps[from]>> \o b
    BY DEF Moved
  <1> HIDE DEF rest, at
  <1>3. a \in Seq(S) /\ Len(a) = at - 1 /\ \A k \in 1..at - 1 : a[k] = rest[k]
    BY <1>0, <1>1
  <1>4. b \in Seq(S) /\ Len(b) = n - at /\ \A k \in 1..n - at : b[k] = rest[k + at - 1]
    BY <1>0, <1>1
  <1> HIDE DEF a, b
  <1> DEFINE c == a \o <<steps[from]>>
  <1>5. c \in Seq(S) /\ Len(c) = at /\ c[at] = steps[from] /\ \A k \in 1..at - 1 : c[k] = a[k]
    <2>1. <<steps[from]>> \in Seq(S) /\ Len(<<steps[from]>>) = 1 /\ <<steps[from]>>[1] = steps[from]
      BY <1>0
    <2>2. /\ c \in Seq(S) /\ Len(c) = at - 1 + 1
          /\ \A k \in 1..at - 1 + 1 : c[k] = IF k <= at - 1 THEN a[k] ELSE <<steps[from]>>[k - (at - 1)]
      BY <1>3, <2>1, ConcatProperties
    <2>3. at - 1 + 1 = at /\ at - (at - 1) = 1
      BY <1>0
    <2> QED BY <1>0, <2>1, <2>2, <2>3
  <1>6. Moved(from, to) = c \o b
    BY <1>2
  <1> HIDE DEF c
  <1>7. Moved(from, to) \in Seq(S) /\ Len(Moved(from, to)) = n
    <2>1. c \o b \in Seq(S) /\ Len(c \o b) = Len(c) + Len(b)
      BY <1>4, <1>5, ConcatProperties
    <2> QED BY <1>0, <1>4, <1>5, <1>6, <2>1
  <1>9. /\ \A k \in 1..at : Moved(from, to)[k] = c[k]
        /\ \A k \in at + 1..n : Moved(from, to)[k] = b[k - at]
    <2>1. \A k \in 1..Len(c) + Len(b) : (c \o b)[k] = IF k <= Len(c) THEN c[k] ELSE b[k - Len(c)]
      BY <1>4, <1>5, ConcatProperties
    <2>2. Len(c) = at /\ Len(b) = n - at
      BY <1>4, <1>5
    <2>3. \A k \in 1..n : (c \o b)[k] = IF k <= at THEN c[k] ELSE b[k - at]
      <3>1. Len(c) + Len(b) = n
        BY <1>0, <2>2
      <3> HIDE DEF n
      <3> QED BY <2>1, <2>2, <3>1
    <2>4. \A k \in 1..at : k \in 1..n /\ k <= at
      BY <1>0
    <2>5. \A k \in at + 1..n : k \in 1..n /\ ~(k <= at)
      BY <1>0
    <2> QED BY <1>6, <2>3, <2>4, <2>5
  <1>8. ASSUME NEW k \in 1..n PROVE Moved(from, to)[k] = steps[CameFrom(from, at, k)]
    <2>1. CASE k = at
      BY <1>0, <1>5, <1>9, <2>1 DEF CameFrom
    <2>2. CASE k < at
      <3>1. Moved(from, to)[k] = rest[k] /\ k \in 1..n - 1
        BY <1>0, <1>3, <1>5, <1>9, <2>2
      <3> QED BY <1>0, <1>1, <2>2, <3>1 DEF CameFrom
    <2>3. CASE k > at
      <3>1. k - at \in 1..n - at /\ (k - at) + at - 1 = k - 1 /\ k - 1 \in 1..n - 1
        BY <1>0, <2>3
      <3>2. Moved(from, to)[k] = b[k - at]
        BY <1>0, <1>9, <2>3
      <3>3. Moved(from, to)[k] = rest[k - 1]
        BY <1>4, <3>1, <3>2
      <3>4. CameFrom(from, at, k) = IF k - 1 < from THEN k - 1 ELSE (k - 1) + 1
        BY <1>0, <2>3 DEF CameFrom
      <3> QED BY <1>1, <3>1, <3>3, <3>4
    <2> QED BY <1>0, <2>1, <2>2, <2>3
  <1> QED BY <1>0, <1>7, <1>8 DEF at

\* Two lists whose places correspond say each thing as often.
LEMMA SaidAsOften ==
    ASSUME NEW S, NEW s \in Seq(S), NEW u \in Seq(S), Len(u) = Len(s),
           NEW from \in 1..Len(s), NEW at \in 1..Len(s),
           \A k \in 1..Len(s) : u[k] = s[CameFrom(from, at, k)], NEW x
    PROVE  Count(u, x) = Count(s, x)
  <1> DEFINE n == Len(s)
             Us == {k \in DOMAIN u : u[k] = x}
             Ss == {i \in DOMAIN s : s[i] = x}
             f == [k \in Us |-> CameFrom(from, at, k)]
  <1>0. n \in Nat /\ from \in 1..n /\ at \in 1..n /\ DOMAIN s = 1..n /\ DOMAIN u = 1..n
    OBVIOUS
  <1>1. \A k \in 1..n : CameFrom(from, at, k) \in 1..n
    BY <1>0 DEF CameFrom
  <1>2. \A k, m \in 1..n : CameFrom(from, at, k) = CameFrom(from, at, m) => k = m
    BY <1>0 DEF CameFrom
  <1>3. \A i \in 1..n : \E k \in 1..n : CameFrom(from, at, k) = i
    <2> SUFFICES ASSUME NEW i \in 1..n PROVE \E k \in 1..n : CameFrom(from, at, k) = i
      OBVIOUS
    <2> DEFINE j == IF i < from THEN i ELSE i - 1
               k == IF i = from THEN at ELSE IF j < at THEN j ELSE j + 1
    <2>1. k \in 1..n /\ CameFrom(from, at, k) = i
      BY <1>0 DEF CameFrom
    <2> QED BY <2>1
  <1>4. f \in Bijection(Us, Ss)
    <2>1. \A k \in Us : f[k] \in Ss
      BY <1>0, <1>1
    <2>2. \A k, m \in Us : f[k] = f[m] => k = m
      BY <1>0, <1>2
    <2>3. \A i \in Ss : \E k \in Us : f[k] = i
      BY <1>0, <1>3
    <2> QED BY <2>1, <2>2, <2>3 DEF Bijection, Injection, Surjection, IsInjective
  <1>5. IsFiniteSet(Us)
    <2>1. IsFiniteSet(1..n)
      BY <1>0, FS_Interval
    <2> QED BY <1>0, <2>1, FS_Subset
  <1>6. Cardinality(Us) = Cardinality(Ss)
    <2> HIDE DEF Us, Ss, f
    <2>1. ExistsBijection(Us, Ss)
      BY <1>4 DEF ExistsBijection
    <2> QED BY <1>5, <2>1, FS_Bijection
  <1> QED BY <1>6 DEF Count

\* A move keeps the steps, or puts one that is none among them.
LEMMA MovesKeepSteps ==
    ASSUME StepsAreAList, NEW from \in Nat \ {0}, NEW to \in 1..Len(steps) + 1,
           Change(Moved(from, to))
    PROVE  /\ steps' \in Seq(Range(steps'))
           /\ crashed' \/ (Len(steps') = Len(steps) /\ Permuted)
  <1> DEFINE S == Range(steps)
             at == IF to > from THEN to - 1 ELSE to
  <1>1. steps \in Seq(S) /\ steps' = Moved(from, to)
    BY DEF StepsAreAList, Change
  <1> HIDE DEF S
  <1>2. CASE to \in {from, from + 1}
    <2>1. steps' = steps
      BY <1>1, <1>2 DEF Moved
    <2> QED BY <1>1, <2>1, ListOfItsOwn DEF Permuted
  <1>3. CASE to \notin {from, from + 1} /\ from \in DOMAIN steps
    <2>1. /\ at \in 1..Len(steps)
          /\ steps' \in Seq(S) /\ Len(steps') = Len(steps)
          /\ \A k \in 1..Len(steps) : steps'[k] = steps[CameFrom(from, at, k)]
      BY <1>1, <1>3, MovedIs
    <2>2. from \in 1..Len(steps)
      BY <1>1, <1>3
    <2>3. \A x : Count(steps', x) = Count(steps, x)
      <3> HIDE DEF at
      <3> QED BY <1>1, <2>1, <2>2, SaidAsOften
    <2> QED BY <2>1, <2>3, ListOfItsOwn DEF Permuted
  <1>4. CASE to \notin {from, from + 1} /\ from \notin DOMAIN steps
    <2> DEFINE a == SubSeq(steps, 1, to - 1)
               b == SubSeq(steps, to, Len(steps))
               T == S \cup {NoStep}
    <2>1. Len(steps) \in Nat /\ from > Len(steps) /\ to <= from
      BY <1>1, <1>4
    <2>2. steps' = a \o <<NoStep>> \o b
      <3>1. ~(to > from) /\ Dropped(from) = steps
        BY <1>4, <2>1 DEF Dropped
      <3> QED BY <1>1, <1>4, <3>1 DEF Moved
    <2>3. steps \in Seq(T) /\ <<NoStep>> \in Seq(T)
      BY <1>1
    <2> HIDE DEF T
    <2>4. a \in Seq(T) /\ b \in Seq(T) /\ Len(a) = to - 1
      BY <2>1, <2>3
    <2> HIDE DEF a, b
    <2>5. steps' \in Seq(T) /\ to \in DOMAIN steps' /\ steps'[to] = NoStep
      BY <2>1, <2>2, <2>3, <2>4
    <2>6. crashed'
      BY <1>1, <2>5 DEF Change
    <2> QED BY <2>5, <2>6, ListOfItsOwn
  <1> QED BY <1>2, <1>3, <1>4

LEMMA BuilderInitIsAList == BuilderInit => StepsAreAList
  <1> SUFFICES ASSUME BuilderInit PROVE StepsAreAList
    OBVIOUS
  <1>1. PICK n \in 0..MaxSteps : steps \in [1..n -> Steps]
    BY DEF BuilderInit
  <1>2. n \in Nat
    BY BuilderBounds
  <1>3. steps \in Seq(Steps)
    BY <1>1, <1>2
  <1> QED BY <1>3, ListOfItsOwn DEF StepsAreAList, BuilderInit

LEMMA EditKeepsAList ==
    ASSUME StepsAreAList, NEW i \in DOMAIN steps, NEW step, steps' = [steps EXCEPT ![i] = step]
    PROVE  steps' \in Seq(Range(steps'))
  <1> DEFINE T == Range(steps) \cup {step}
  <1>1. steps \in Seq(T) /\ step \in T
    BY DEF StepsAreAList
  <1> HIDE DEF T
  <1>2. steps' \in Seq(T)
    BY <1>1
  <1> QED BY <1>2, ListOfItsOwn

LEMMA BuilderStep ==
    ASSUME StepsAreAList, [BuilderNext]_builderVars
    PROVE  /\ StepsAreAList'
           /\ Drop \/ MovesByButton => crashed' \/ (Len(steps') = Len(steps) /\ Permuted)
  <1> DEFINE Kept == crashed' \/ (Len(steps') = Len(steps) /\ Permuted)
  <1>0. steps \in Seq(Range(steps)) /\ dragged \in Nat /\ Len(steps) \in Nat /\ DOMAIN steps = 1..Len(steps)
    BY DEF StepsAreAList
  <1>1. CASE UNCHANGED builderVars
    <2>1. UNCHANGED <<steps, dragged>>
      BY <1>1 DEF builderVars
    <2>2. Len(steps') = Len(steps) /\ Permuted
      BY <2>1 DEF Permuted
    <2> QED BY <2>1, <2>2 DEF StepsAreAList
  <1>2. Drop => Kept
    <2> SUFFICES ASSUME Drop PROVE Kept
      OBVIOUS
    <2>1. PICK to \in 1..Len(steps) + 1 : dragged # 0 /\ Change(Moved(dragged, to))
      BY DEF Drop
    <2> QED BY <1>0, <2>1, MovesKeepSteps
  <1>3. MovesByButton => Kept /\ steps' \in Seq(Range(steps')) /\ dragged' = dragged
    <2> SUFFICES ASSUME MovesByButton
                 PROVE  Kept /\ steps' \in Seq(Range(steps')) /\ dragged' = dragged
      OBVIOUS
    <2>1. PICK i \in DOMAIN steps : \/ i > 1 /\ Change(Moved(i, i - 1))
                                    \/ i < Len(steps) /\ Change(Moved(i, i + 2))
      BY DEF MovesByButton
    <2>2. \E to \in 1..Len(steps) + 1 : Change(Moved(i, to))
      <3>1. i > 1 => i - 1 \in 1..Len(steps) + 1
        BY <1>0
      <3>2. i < Len(steps) => i + 2 \in 1..Len(steps) + 1
        BY <1>0
      <3> QED BY <2>1, <3>1, <3>2
    <2>3. i \in Nat \ {0}
      BY <1>0
    <2>4. dragged' = dragged
      BY DEF MovesByButton
    <2> QED BY <2>2, <2>3, <2>4, MovesKeepSteps
  <1>4. ASSUME Inserts \/ Duplicates PROVE StepsAreAList'
    <2>1. \E at \in 1..Len(steps) + 1 : \E step : steps' = InsertStep(at, step)
      <3>1. CASE Inserts
        BY <3>1 DEF Inserts, Change
      <3>2. CASE Duplicates
        <4>1. PICK i \in DOMAIN steps : steps' = InsertStep(i + 1, steps[i])
          BY <3>2 DEF Duplicates, Change
        <4>2. i + 1 \in 1..Len(steps) + 1
          BY <1>0
        <4> QED BY <4>1, <4>2
      <3> QED BY <1>4, <3>1, <3>2
    <2>2. dragged' = dragged
      BY <1>4 DEF Inserts, Duplicates
    <2>3. \E T : steps' \in Seq(T)
      BY ZenonT(30), <1>0, <2>1, InsertedIsAList
    <2> QED BY <1>0, <2>2, <2>3, ListOfItsOwn DEF StepsAreAList
  <1>5. ASSUME Deletes PROVE StepsAreAList'
    <2>1. PICK i \in DOMAIN steps : steps' = Dropped(i) /\ dragged' = dragged
      BY <1>5 DEF Deletes, Change
    <2>2. steps' \in Seq(Range(steps))
      BY <1>0, <2>1, DroppedIs
    <2> QED BY <1>0, <2>1, <2>2, ListOfItsOwn DEF StepsAreAList
  <1>6. ASSUME Drop PROVE StepsAreAList'
    <2>1. PICK to \in 1..Len(steps) + 1 : dragged # 0 /\ Change(Moved(dragged, to))
      BY <1>6 DEF Drop
    <2>2. dragged' = 0
      BY <1>6 DEF Drop
    <2> QED BY <1>0, <2>1, <2>2, MovesKeepSteps DEF StepsAreAList
  <1>7. ASSUME DragStart \/ DragEnd PROVE StepsAreAList'
    BY <1>0, <1>7 DEF DragStart, DragEnd, StepsAreAList
  <1>8. ASSUME OnArgs \/ OnTime \/ OnCommand \/ OnModifier PROVE StepsAreAList'
    <2>1. \E i \in DOMAIN steps : \E step : steps' = [steps EXCEPT ![i] = step]
      <3>1. CASE OnArgs
        BY <3>1 DEF OnArgs, Change
      <3>2. CASE OnTime
        BY <3>2 DEF OnTime, Change
      <3>3. CASE OnCommand
        BY <3>3 DEF OnCommand, Change
      <3>4. CASE OnModifier
        BY <3>4 DEF OnModifier, Change
      <3> QED BY <1>8, <3>1, <3>2, <3>3, <3>4
    <2>2. dragged' = dragged
      BY <1>8 DEF OnArgs, OnTime, OnCommand, OnModifier
    <2>3. steps' \in Seq(Range(steps'))
      BY <2>1, EditKeepsAList
    <2> QED BY <1>0, <2>2, <2>3 DEF StepsAreAList
  <1>9. ASSUME TextReplaces PROVE StepsAreAList'
    <2>1. PICK n \in 0..MaxSteps : \E next \in [1..n -> Steps] : steps' = next /\ dragged' = dragged
      BY <1>9 DEF TextReplaces, Change
    <2>2. n \in Nat
      BY BuilderBounds
    <2>3. steps' \in Seq(Steps)
      BY <2>1, <2>2
    <2> QED BY <1>0, <2>1, <2>3, ListOfItsOwn DEF StepsAreAList
  <1>10. StepsAreAList'
    <2>1. CASE BuilderNext
      BY <1>0, <1>3, <1>4, <1>5, <1>6, <1>7, <1>8, <1>9, <2>1 DEF BuilderNext, StepsAreAList
    <2>2. CASE UNCHANGED builderVars
      BY <1>1, <2>2
    <2> QED BY <2>1, <2>2
  <1> QED BY <1>2, <1>3, <1>10

\* However long the program and wherever the text replaced it while a handle was held,
\* a drag and the buttons that move a step keep every step, as often as it was said.
THEOREM DragsAlwaysKeepSteps == BuilderSpec => DragsKeepSteps
  <1> DEFINE Keeps == Drop \/ MovesByButton => crashed' \/ (Len(steps') = Len(steps) /\ Permuted)
  <1>1. StepsAreAList /\ [BuilderNext]_builderVars => StepsAreAList' /\ [Keeps]_builderVars
    BY BuilderStep
  <1> QED BY <1>1, BuilderInitIsAList, PTL DEF BuilderSpec, DragsKeepSteps
=============================================================================
