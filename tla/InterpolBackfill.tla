--------------------------- MODULE InterpolBackfill ---------------------------
(***************************************************************************)
(* fetchInterpol: each sweep reads page 1 of the notices, then goes on from  *)
(* a cursor kept between sweeps, until it has as many as the source's limit. *)
(* Notices come in at the front and are withdrawn anywhere, so pages shift   *)
(* under the cursor; any page may fail; the process may be told to stop.     *)
(***************************************************************************)
EXTENDS Naturals, Sequences, FiniteSets, SequencesExt, FiniteSetsExt

CONSTANTS Notices,   \* how many there will ever be; the newest has the highest number
          NoticesPerPage,  \* 160 in the code
          Limits,    \* perSourceLimit
          MaxTrouble  \* bound on failed pages and stops

ASSUME BackfillTyped == /\ Notices \in Nat /\ NoticesPerPage \in Nat \ {0}
                        /\ Limits \subseteq Nat \ {0} /\ MaxTrouble \in Nat

VARIABLES limit,
          listed,    \* what the site lists, newest first
          published,
          cursor,    \* cursors.json, as the sweep holds it
          phase, page, last, got, \* the sweep: next page, lastPageFetched, allNotices
          trouble,
          handed,      \* history: the notices handed over
          tails        \* history: those that were read and cut off behind the limit
history == <<handed, tails>>
backfillVars == <<limit, listed, published, cursor, phase, page, last, got, trouble, handed, tails>>

BackfillInit ==
    /\ limit \in Limits
    /\ \E n \in 0 .. Notices : published = n /\ listed = [i \in 1 .. n |-> n + 1 - i]
    /\ cursor = 0 /\ phase = "idle" /\ page = 0 /\ last = 0 /\ got = <<>>
    /\ trouble = 0 /\ handed = {} /\ tails = {}

NewNotice ==
    /\ published < Notices
    /\ published' = published + 1 /\ listed' = <<published'>> \o listed
    /\ UNCHANGED <<limit, cursor, phase, page, last, got, trouble, history>>
Withdraw ==
    /\ \E n \in ToSet(listed) : listed' = SelectSeq(listed, LAMBDA m : m # n)
    /\ trouble < MaxTrouble /\ trouble' = trouble + 1
    /\ UNCHANGED <<limit, published, cursor, phase, page, last, got, history>>

\* buildInterpolPageURL, and parseInterpolNotices, which leaves none out: every
\* notice is given a title.
PageOf(p) == SubSeq(listed, (p - 1) * NoticesPerPage + 1, Min({p * NoticesPerPage, Len(listed)}))

\* Duplicates go, for pages overlap when notices come in, and then the rest
\* behind the limit.
Deduplicated(s) == SelectSeq([i \in DOMAIN s |-> <<i, s[i]>>],
                             LAMBDA e : \A j \in 1 .. e[1] - 1 : s[j] # e[2])
Handed(s) == {e[2] : e \in ToSet(SubSeq(Deduplicated(s), 1, Min({limit, Len(Deduplicated(s))})))}

Hand(s) == /\ handed' = handed \cup Handed(s) /\ tails' = tails \cup (ToSet(s) \ Handed(s))
           /\ phase' = "idle" /\ page' = 0 /\ last' = 0 /\ got' = <<>>

\* Page 1, for what is new.  If it fails the browser may capture one page, and
\* the cursor stays.
FirstPage ==
    /\ phase = "idle"
    /\ phase' = "pages" /\ got' = PageOf(1) /\ last' = 1
    /\ page' = IF cursor < 2 THEN 2 ELSE cursor
    /\ UNCHANGED <<limit, listed, published, cursor, trouble, history>>
FirstPageFails ==
    /\ phase = "idle" /\ trouble < MaxTrouble /\ trouble' = trouble + 1
    /\ \E captured \in {<<>>, PageOf(1)} : handed' = handed \cup ToSet(captured)
    /\ UNCHANGED <<limit, listed, published, cursor, phase, page, last, got, tails>>

\* Mutant of NextPage: the last page is not noted, so the cursor never moves.
NextPageUnnoted ==
    /\ phase = "pages" /\ Len(got) < limit
    /\ got' = got \o PageOf(page) /\ last' = 1
    /\ IF Len(PageOf(page)) < NoticesPerPage THEN phase' = "end" /\ UNCHANGED page
       ELSE page' = page + 1 /\ UNCHANGED phase
    /\ UNCHANGED <<limit, listed, published, cursor, trouble, history>>

\* A page from the cursor on.  A page that is not full is the end of the list,
\* and the next sweep starts at 2 again.
NextPage ==
    /\ phase = "pages" /\ Len(got) < limit
    /\ got' = got \o PageOf(page)
    /\ IF Len(PageOf(page)) < NoticesPerPage THEN phase' = "end" /\ last' = 1 /\ UNCHANGED page
       ELSE last' = page /\ page' = page + 1 /\ UNCHANGED phase
    /\ UNCHANGED <<limit, listed, published, cursor, trouble, history>>
PageFails ==
    /\ phase = "pages" /\ Len(got) < limit /\ phase' = "end"
    /\ trouble < MaxTrouble /\ trouble' = trouble + 1
    /\ UNCHANGED <<limit, listed, published, cursor, page, last, got, history>>

\* The process is told to stop: what there is goes on, uncut.
Stop ==
    /\ phase = "pages" /\ Len(got) < limit
    /\ trouble < MaxTrouble /\ trouble' = trouble + 1
    /\ cursor' = page
    /\ handed' = handed \cup ToSet(got) /\ phase' = "idle" /\ page' = 0 /\ last' = 0 /\ got' = <<>>
    /\ UNCHANGED <<limit, listed, published, tails>>

End ==
    /\ phase = "end" \/ (phase = "pages" /\ Len(got) >= limit)
    /\ cursor' = last + 1
    /\ Hand(got)
    /\ UNCHANGED <<limit, listed, published, trouble>>

Reads == FirstPage \/ NextPage \/ End
BackfillNext == NewNotice \/ Withdraw \/ Reads \/ FirstPageFails \/ PageFails \/ Stop

\* Sweeps go on, and pages answer again in the end, for trouble are bounded.
BackfillSpec == BackfillInit /\ [][BackfillNext]_backfillVars /\ WF_backfillVars(Reads)

-----------------------------------------------------------------------------
\* A notice that stays listed is handed over in the end, although pages shift
\* under the cursor and fail; where the limit falls within a page it is read in
\* the end, and what lies behind the limit cut off.  The limit has to reach past
\* page 1 (fetchInterpol).
BackfillReachesAll ==
    \A n \in 1 .. Notices : <>[](n \in ToSet(listed)) =>
        <>(n \in handed \/ (limit % NoticesPerPage # 0 /\ n \in tails))

\* run.go:1678, "Resume from cursor to backfill older pages.": a notice that
\* stays listed is handed over in the end, whatever the limit.
BackfillHandsOver ==
    \A n \in 1 .. Notices : <>[](n \in ToSet(listed)) => <>(n \in handed)
=============================================================================
