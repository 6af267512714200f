-------------------------- MODULE EditTransactions --------------------------
(***************************************************************************)
(* Applying sealed edit plans: src/ctx/edit_transactions.py.               *)
(*                                                                         *)
(* A plan names, for each span of lines it replaces, the bytes it saw      *)
(* there.  apply reads every target again, finds the span where it is now, *)
(* stages all new contents beside their targets, compares every target     *)
(* once more, and then, file by file, compares and renames.  When anything *)
(* fails it goes back over what it renamed.  Other applies and editors     *)
(* work on the same files, nothing is locked, and each read and each       *)
(* rename is a step.                                                       *)
(*                                                                         *)
(* A file is a sequence of lines, and a digest is the lines it is of.      *)
(***************************************************************************)
EXTENDS Integers, Sequences, FiniteSets, SequencesExt, Sorting

CONSTANTS FileSeq,              \* the files, in the order of their names
          Text,                 \* what a line may say
          Origin,               \* [file -> lines], when the plans were made
          Applies,              \* processes, one plan each
          Plan,                 \* [Applies -> Seq([file, start, end, repl])]
          ExactFiles,           \* those whose plan is for unchanged files only
          MaxCandidates,        \* places a span is looked for
          Notes,                \* lines an editor may add, and never takes out
          Copies,               \* lines an editor may write once more
          Faults,               \* "stage", "rename": which I/O may fail
          MaxEdits, MaxDeaths   \* bounds on editors and on deaths

Files == ToSet(FileSeq)

ASSUME EditAssumption ==
    /\ FileSeq \in Seq(Files) /\ Origin \in [Files -> Seq(Text)]
    /\ \A a \in Applies :
          /\ Plan[a] \in Seq([file : Files, start : Nat, end : Nat, repl : Seq(Text)])
          /\ Plan[a] # <<>>
          /\ \A i \in DOMAIN Plan[a] :
                /\ 1 <= Plan[a][i].start /\ Plan[a][i].start <= Plan[a][i].end
                /\ Plan[a][i].end <= Len(Origin[Plan[a][i].file])
    /\ ExactFiles \subseteq Applies /\ Faults \subseteq {"stage", "rename"}
    /\ Notes \subseteq Text /\ Copies \subseteq Text
    /\ {MaxCandidates, MaxEdits, MaxDeaths} \subseteq Nat

VARIABLES disk,                 \* [Files -> lines]
          temps,                \* temporary files: <<apply, file, for what>>
          phase,
          prep,                 \* prepared: the file, before and after
          at,                   \* ... of which this is the one at hand
          unrestored,           \* rollback_failed
          edits, deaths,        \* what editors did; applies that died
          raced                 \* history: a write came between a compare and its rename

locals == <<phase, prep, at, unrestored>>
editVars == <<disk, temps, locals, edits, deaths, raced>>

-----------------------------------------------------------------------------
(* _prepare, for one file.                                                 *)

EditsOf(a, f) == {i \in DOMAIN Plan[a] : Plan[a][i].file = f}

\* sorted(grouped): the files a plan is for.
Targets(a) ==
    LET places == {i \in DOMAIN FileSeq : EditsOf(a, FileSeq[i]) # {}}
        sorted == InOrder(places, {p \in places \X places : p[1] < p[2]})
    IN  [k \in 1..Cardinality(places) |-> FileSeq[sorted[k]]]

Want(e) == SubSeq(Origin[e.file], e.start, e.end)

\* Where these lines are in a content.
Occurrences(lines, want) ==
    {s \in 1..(Len(lines) - Len(want) + 1) :
        SubSeq(lines, s, s + Len(want) - 1) = want}

\* Mutant: the first of several will do.
FirstPlace(lines, e) ==
    LET places == Occurrences(lines, Want(e))
    IN  {s \in places : \A t \in places : s <= t}

\* _unique_digest_start: where it was, or the one place it has moved to.
Place(lines, e) ==
    LET places == Occurrences(lines, Want(e))
    IN  CASE e.start \in places -> {e.start}
          [] e.start \notin places /\ Cardinality(places) = 1
             /\ Len(lines) - Len(Want(e)) + 1 <= MaxCandidates -> places
          [] OTHER -> {}

\* Mutant: every edit may move by itself.
ResolvesApart(a, f, lines) ==
    \A i \in EditsOf(a, f) : Place(lines, Plan[a][i]) # {}

\* By how much the spans of a file have moved.
Shifts(a, f, lines) ==
    UNION {{s - Plan[a][i].start : s \in Place(lines, Plan[a][i])} : i \in EditsOf(a, f)}

\* All spans are found, moved by the same offset, and do not overlap.
Resolves(a, f, lines) ==
    /\ a \in ExactFiles => lines = Origin[f]
    /\ \A i \in EditsOf(a, f) : Place(lines, Plan[a][i]) # {}
    /\ \A m, n \in Shifts(a, f, lines) : m = n
    /\ \A i, j \in EditsOf(a, f) :
          i = j \/ Plan[a][i].start > Plan[a][j].end \/ Plan[a][j].start > Plan[a][i].end

Shift(a, f, lines) == CHOOSE n \in Shifts(a, f, lines) : TRUE

Ordered(a, f) ==
    InOrder(EditsOf(a, f),
            {p \in EditsOf(a, f) \X EditsOf(a, f) : Plan[a][p[1]].start < Plan[a][p[2]].start})

Splice(e, shift, lines) ==
    SubSeq(lines, 1, e.start + shift - 1) \o e.repl
        \o SubSeq(lines, e.end + shift + 1, Len(lines))

\* Mutant: from the top, where each replacement moves what is below it.
ReplacedForward(a, f, lines) ==
    LET order == Ordered(a, f)
        upTo[k \in 0..Cardinality(EditsOf(a, f))] ==
            IF k = 0 THEN lines
            ELSE Splice(Plan[a][order[k]], Shift(a, f, lines), upTo[k - 1])
    IN  upTo[Cardinality(EditsOf(a, f))]

\* From the bottom up, so that no replacement moves another's span.
Replaced(a, f, lines) ==
    LET count == Cardinality(EditsOf(a, f))
        order == Ordered(a, f)
        from[k \in 1..(count + 1)] ==
            IF k > count THEN lines
            ELSE Splice(Plan[a][order[k]], Shift(a, f, lines), from[k + 1])
    IN  from[1]

-----------------------------------------------------------------------------
EditInit ==
    /\ disk = Origin /\ temps = {}
    /\ phase = [a \in Applies |-> "prepare"]
    /\ prep = [a \in Applies |-> <<>>]
    /\ at = [a \in Applies |-> 1]
    /\ unrestored = [a \in Applies |-> {}]
    /\ edits = 0 /\ deaths = 0 /\ raced = FALSE

Goto(a, place) == phase' = [phase EXCEPT ![a] = place]

Item(a) == prep[a][at[a]]
File(a) == Item(a).file
AtLast(a) == at[a] = Len(prep[a])

\* Mutant: the count of files goes on into the next phase.
OnwardCounting(a, then) ==
    /\ Goto(a, IF AtLast(a) THEN then ELSE phase[a])
    /\ at' = [at EXCEPT ![a] = @ + 1]

\* The next file, or the next phase from its first file on.
Onward(a, then) ==
    /\ Goto(a, IF AtLast(a) THEN then ELSE phase[a])
    /\ at' = [at EXCEPT ![a] = IF AtLast(a) THEN 1 ELSE @ + 1]

\* Mutant: the last one renamed is forgotten.
UndoButLast(a, n) ==
    /\ Goto(a, IF n <= 1 THEN "clean" ELSE "compare back")
    /\ at' = [at EXCEPT ![a] = IF n <= 1 THEN 0 ELSE n - 1]

\* The handler of whatever went wrong, with the first n files renamed.
Undo(a, n) ==
    /\ Goto(a, IF n = 0 THEN "clean" ELSE "compare back")
    /\ at' = [at EXCEPT ![a] = n]

\* Is somebody else between the compare and the rename of f?
InWindow(f, mine) ==
    \E a \in Applies \ mine :
        phase[a] \in {"rename", "stage back", "rename back"} /\ File(a) = f

\* Reading one target and working out what it will be.
Prepare(a) ==
    /\ phase[a] = "prepare"
    /\ LET f == Targets(a)[at[a]]
       IN  IF Resolves(a, f, disk[f])
           THEN /\ prep' = [prep EXCEPT ![a] = Append(@,
                      [file |-> f, before |-> disk[f],
                       after |-> Replaced(a, f, disk[f])])]
                /\ Goto(a, IF at[a] = Len(Targets(a)) THEN "stage" ELSE "prepare")
                /\ at' = [at EXCEPT ![a] = IF @ = Len(Targets(a)) THEN 1 ELSE @ + 1]
           ELSE Goto(a, "refused") /\ UNCHANGED <<prep, at>>
    /\ UNCHANGED <<disk, temps, unrestored, edits, deaths, raced>>

\* _stage: a temporary file beside the target, or, after an error, none.
Stage(a) ==
    /\ phase[a] = "stage"
    /\ temps' = temps \cup {<<a, File(a), "new">>}
    /\ Onward(a, "validate")
    /\ UNCHANGED <<disk, prep, unrestored, edits, deaths, raced>>

StageFails(a) ==
    /\ phase[a] = "stage" /\ "stage" \in Faults
    /\ Undo(a, 0)
    /\ UNCHANGED <<disk, temps, prep, unrestored, edits, deaths, raced>>

\* The whole set, before anything is written.
Validate(a) ==
    /\ phase[a] = "validate"
    /\ IF disk[File(a)] = Item(a).before THEN Onward(a, "compare") ELSE Undo(a, 0)
    /\ UNCHANGED <<disk, temps, prep, unrestored, edits, deaths, raced>>

\* Mutant: what was validated is taken to be so still.
CompareNot(a) ==
    /\ phase[a] = "compare"
    /\ Goto(a, "rename") /\ at' = at
    /\ UNCHANGED <<disk, temps, prep, unrestored, edits, deaths, raced>>

\* And this one again, directly before its rename.
Compare(a) ==
    /\ phase[a] = "compare"
    /\ IF disk[File(a)] = Item(a).before
       THEN Goto(a, "rename") /\ at' = at
       ELSE Undo(a, at[a] - 1)
    /\ UNCHANGED <<disk, temps, prep, unrestored, edits, deaths, raced>>

Rename(a) ==
    /\ phase[a] = "rename"
    /\ raced' = (raced \/ InWindow(File(a), {a}))
    /\ disk' = [disk EXCEPT ![File(a)] = Item(a).after]
    /\ temps' = temps \ {<<a, File(a), "new">>}
    /\ Goto(a, IF AtLast(a) THEN "applied" ELSE "compare")
    /\ at' = [at EXCEPT ![a] = IF AtLast(a) THEN @ ELSE @ + 1]
    /\ UNCHANGED <<prep, unrestored, edits, deaths>>

RenameFails(a) ==
    /\ phase[a] = "rename" /\ "rename" \in Faults
    /\ Undo(a, at[a] - 1)
    /\ UNCHANGED <<disk, temps, prep, unrestored, edits, deaths, raced>>

-----------------------------------------------------------------------------
(* The rollback: the files that were renamed, the last one first.          *)

\* On to the file before, having restored this one or not.
Backward(a, restored) ==
    /\ unrestored' = [unrestored EXCEPT ![a] = IF restored THEN @ ELSE @ \cup {File(a)}]
    /\ Undo(a, at[a] - 1)

\* Mutant: whatever is there is taken to be ours.
CompareBackNot(a) ==
    /\ phase[a] = "compare back"
    /\ Goto(a, "stage back") /\ UNCHANGED <<at, unrestored>>
    /\ UNCHANGED <<disk, temps, prep, edits, deaths, raced>>

\* A third party's change is left alone, and said to be.
CompareBack(a) ==
    /\ phase[a] = "compare back"
    /\ IF disk[File(a)] = Item(a).after
       THEN Goto(a, "stage back") /\ UNCHANGED <<at, unrestored>>
       ELSE Backward(a, FALSE)
    /\ UNCHANGED <<disk, temps, prep, edits, deaths, raced>>

StageBack(a) ==
    /\ phase[a] = "stage back"
    /\ temps' = temps \cup {<<a, File(a), "old">>}
    /\ Goto(a, "rename back")
    /\ UNCHANGED <<disk, prep, at, unrestored, edits, deaths, raced>>

StageBackFails(a) ==
    /\ phase[a] = "stage back" /\ "stage" \in Faults
    /\ Backward(a, FALSE)
    /\ UNCHANGED <<disk, temps, prep, edits, deaths, raced>>

RenameBack(a) ==
    /\ phase[a] = "rename back"
    /\ raced' = (raced \/ InWindow(File(a), {a}))
    /\ disk' = [disk EXCEPT ![File(a)] = Item(a).before]
    /\ temps' = temps \ {<<a, File(a), "old">>}
    /\ Backward(a, TRUE)
    /\ UNCHANGED <<prep, edits, deaths>>

\* Mutant: the temporary file of a failed restore is nobody's.
RenameBackLeaks(a) ==
    /\ phase[a] = "rename back" /\ "rename" \in Faults
    /\ Backward(a, FALSE)
    /\ UNCHANGED <<disk, temps, prep, edits, deaths, raced>>

RenameBackFails(a) ==
    /\ phase[a] = "rename back" /\ "rename" \in Faults
    /\ temps' = temps \ {<<a, File(a), "old">>}
    /\ Backward(a, FALSE)
    /\ UNCHANGED <<disk, prep, edits, deaths, raced>>

\* What was staged and not renamed goes; the apply is refused.
Clean(a) ==
    /\ phase[a] = "clean"
    /\ temps' = {t \in temps : t[1] # a \/ t[3] # "new"}
    /\ Goto(a, "refused")
    /\ UNCHANGED <<disk, prep, at, unrestored, edits, deaths, raced>>

-----------------------------------------------------------------------------
Over == {"applied", "refused", "dead"}

\* The process is killed; nobody finishes what it began.
Die(a) ==
    /\ phase[a] \notin Over /\ deaths < MaxDeaths
    /\ Goto(a, "dead") /\ deaths' = deaths + 1
    /\ UNCHANGED <<disk, temps, prep, at, unrestored, edits, raced>>

\* An editor puts a line in front of the i-th, or takes the i-th out.
Edit(f, i) ==
    /\ edits < MaxEdits
    /\ raced' = (raced \/ InWindow(f, {}))
    /\ \/ \E x \in Copies \cup {n \in Notes : \A g \in Files : n \notin ToSet(disk[g])} :
             disk' = [disk EXCEPT ![f] = InsertAt(@, i, x)]
       \/ /\ disk[f][i] \in ToSet(Origin[f])
          /\ disk' = [disk EXCEPT ![f] = RemoveAt(@, i)]
    /\ edits' = edits + 1
    /\ UNCHANGED <<temps, locals, deaths>>

Apply(a) ==
    \/ Prepare(a) \/ Stage(a) \/ StageFails(a) \/ Validate(a)
    \/ Compare(a) \/ Rename(a) \/ RenameFails(a)
    \/ CompareBack(a) \/ StageBack(a) \/ StageBackFails(a)
    \/ RenameBack(a) \/ RenameBackFails(a) \/ Clean(a)

EditNext ==
    \/ \E a \in Applies : Apply(a) \/ Die(a)
    \/ \E f \in Files : \E i \in DOMAIN disk[f] : Edit(f, i)

EditSpec == EditInit /\ [][EditNext]_editVars

-----------------------------------------------------------------------------
EditTypeOK ==
    /\ disk \in [Files -> Seq(Text)]
    /\ temps \subseteq Applies \X Files \X {"new", "old"}
    /\ phase \in [Applies -> Over \cup {"prepare", "stage", "validate", "compare", "rename",
                  "compare back", "stage back", "rename back", "clean"}]
    /\ \A a \in Applies :
          /\ at[a] \in 0..Len(Targets(a))
          /\ [i \in DOMAIN prep[a] |-> prep[a][i].file] = SubSeq(Targets(a), 1, Len(prep[a]))
          /\ unrestored[a] \subseteq ToSet(Targets(a))
    /\ edits \in 0..MaxEdits /\ deaths \in 0..MaxDeaths /\ raced \in BOOLEAN

\* "A target may move, but it may not change" (lines 16-17): all spans of a file
\* stand at one offset from where they were planned, with the bytes they had,
\* and what is staged is that content with those spans replaced, every other
\* line where it was among its neighbours.
Expected(a, f, lines, n) ==
    FlattenSeq([p \in DOMAIN lines |->
        LET start == {i \in EditsOf(a, f) : p = Plan[a][i].start + n}
            inside == {i \in EditsOf(a, f) :
                          Plan[a][i].start + n < p /\ p <= Plan[a][i].end + n}
        IN  IF start # {} THEN Plan[a][CHOOSE i \in start : TRUE].repl
            ELSE IF inside # {} THEN <<>> ELSE <<lines[p]>>])

OnlyTargets ==
    \A a \in Applies : \A k \in DOMAIN prep[a] :
        LET f == prep[a][k].file
            lines == prep[a][k].before
        IN  \E n \in -Len(Origin[f])..Len(lines) :
                /\ a \in ExactFiles => n = 0
                /\ \A i \in EditsOf(a, f) :
                      Plan[a][i].start + n \in Occurrences(lines, Want(Plan[a][i]))
                /\ prep[a][k].after = Expected(a, f, lines, n)

\* If nobody wrote between a compare and its rename ("the unavoidable
\* cooperative-CAS race", line 453), what apply says is so.  A refusal leaves no
\* line of its own behind except in the files it names; an apply that says
\* "applied" has its lines in every target, whatever else was applied or rolled
\* back meanwhile.
Wrote(a, f) == UNION {ToSet(Plan[a][i].repl) : i \in EditsOf(a, f)}

\* What it takes to tell who wrote a line: no plan's lines were there before,
\* are another plan's for the same file, or are lines an editor writes.
MarksApart ==
    \A a \in Applies : \A f \in Files :
        /\ Wrote(a, f) \cap (ToSet(Origin[f]) \cup Copies \cup Notes) = {}
        /\ \A b \in Applies \ {a} : Wrote(a, f) \cap Wrote(b, f) = {}

RefusalTold ==
    \A a \in Applies : \A f \in Files :
        ~raced /\ phase[a] = "refused" /\ f \notin unrestored[a] =>
            Wrote(a, f) \cap ToSet(disk[f]) = {}
AppliedStays ==
    \A a \in Applies : \A f \in Files :
        ~raced /\ phase[a] = "applied" => Wrote(a, f) \subseteq ToSet(disk[f])

\* No temporary file outlives the apply that made it, whichever write or
\* rename failed, in the rollback too.
NoLitter == \A t \in temps : phase[t[1]] \notin {"applied", "refused"}

\* No plan and no file as it was has the lines an editor adds.
NotesApart ==
    \A f \in Files :
        /\ Notes \cap ToSet(Origin[f]) = {}
        /\ \A a \in Applies : Notes \cap Wrote(a, f) = {}

\* What an editor added is never taken away: compare-and-swap over the whole
\* content, in the rollback as well ("Do not overwrite a third party's
\* post-commit change", lines 467-468).
NotesStay ==
    [][~raced' => \A f \in Files : Notes \cap ToSet(disk[f]) \subseteq ToSet(disk'[f])]_editVars
=============================================================================
