-------------------------------- MODULE Hunks --------------------------------
(***************************************************************************)
(* What the tools do to the patch of a file before it is shown to a model, *)
(* and how the lines a model answers with are found again                  *)
(* (pr_agent/algo/git_patch_processing.py).                                *)
(*                                                                         *)
(* A change is [hunks, tail]: each hunk has the number of lines not shown   *)
(* before it and its lines, "=", "-" or "+"; tail lines are not shown      *)
(* after the last.  What a line says is its place in the change.           *)
(***************************************************************************)
EXTENDS Lists, SequencesExt

CONSTANTS Changes,
          Context,      \* lines git shows around a change
          Extras        \* [before, after, dynamic]: the settings of the extension

\* A change as git cuts it: between two hunks lines are left out, and a hunk
\* begins and ends with all the context there is, whole if lines are left out.
AsGitCuts(c) ==
    /\ c.tail \in Nat
    /\ c.hunks \in Seq([skip : Nat, body : Seq({"=", "-", "+"})])
    /\ \A k \in DOMAIN c.hunks :
        LET body == c.hunks[k].body IN
        /\ k > 1 => c.hunks[k].skip > 0
        /\ c.hunks[k].skip > 0 =>
              Context <= Len(body) /\ \A j \in 1..Context : body[j] = "="
        /\ k < Len(c.hunks) \/ c.tail > 0 =>
              Context <= Len(body) /\ \A j \in 1..Context : body[Len(body) + 1 - j] = "="

ASSUME ChangesAssumption ==
    /\ Context \in Nat \ {0}
    /\ \A e \in Extras : {e.before, e.after, e.dynamic} \subseteq Nat
    /\ \A c \in Changes : AsGitCuts(c)

VARIABLES change,
          section,      \* git finds a heading for what follows it
          old, new,     \* the lines of the file before and after
          patch,        \* [head, body] of every hunk
          seen          \* what was made of the patch

hunkVars == <<change, section, old, new, patch, seen>>

-----------------------------------------------------------------------------
(* The files and the patch git makes. *)

InOld == {"=", "-"}
InNew == {"=", "+"}

Unshown(k, n) == [j \in 1..n |-> [op |-> "=", text |-> <<k, -j>>]]
Body(k) == [j \in DOMAIN change.hunks[k].body |->
               [op |-> change.hunks[k].body[j], text |-> <<k, j>>]]

Lines(list, ops) == Those(list, LAMBDA l : l.op \in ops)

\* A file, hunk by hunk, before or after the change.
Part(k, ops) == Unshown(k, change.hunks[k].skip) \o Lines(Body(k), ops)
UpTo(n, ops) == FlattenSeq([k \in 1..n |-> Part(k, ops)])
File(ops) == UpTo(Len(change.hunks), ops) \o Unshown(0, change.tail)

Count(k, ops) == Len(Lines(Body(k), ops))
Above(k, ops) == Len(UpTo(k - 1, ops)) + change.hunks[k].skip

\* A count of 1 is left out of a header, and read as 0.
Read(n) == IF n = 1 THEN 0 ELSE n
Start(k, ops) == Above(k, ops) + IF Count(k, ops) = 0 THEN 0 ELSE 1

\* The heading, if git finds one, is the first line of the file.
Header(k) ==
    [op |-> "@@",
     text |-> IF section /\ change.hunks[1].skip > 0 THEN <<1, -1>> ELSE <<>>,
     start1 |-> Start(k, InOld), size1 |-> Read(Count(k, InOld)),
     start2 |-> Start(k, InNew), size2 |-> Read(Count(k, InNew))]

GitPatch == [k \in DOMAIN change.hunks |-> [head |-> Header(k), body |-> Body(k)]]

-----------------------------------------------------------------------------
(* process_patch_lines *)

\* file[a - 1 : b - 1] of Python.
Slice(file, a, b) == SubSeq(file, a, IF b - 1 < Len(file) THEN b - 1 ELSE Len(file))

Limits(h, n, e) ==
    LET start1 == IF h.start1 - n > 1 THEN h.start1 - n ELSE 1
        start2 == IF h.start2 - n > 1 THEN h.start2 - n ELSE 1
        size1 == h.size1 + (h.start1 - start1) + e.after
        size2 == h.size2 + (h.start2 - start2) + e.after
        cap == start1 - 1 + size1 - Len(old)
        Capped(size, least) == IF cap <= 0 THEN size
                               ELSE IF size - cap > least THEN size - cap ELSE least
    IN  [h EXCEPT !.start1 = start1, !.start2 = start2,
                  !.size1 = Capped(size1, h.size1), !.size2 = Capped(size2, h.size2)]

Shift(l, i) == [l EXCEPT !.start1 = @ + i, !.start2 = @ + i, !.size1 = @ - i, !.size2 = @ - i]

\* Where the lines of two files before a hunk begin to be the same.
CommonEnds(s, t) == {i \in DOMAIN s : SubSeq(s, i, Len(s)) = SubSeq(t, i, Len(t))}

\* Lines from the heading of the section on, when both files have them.
DynamicLimits(h, e) ==
    LET l == Limits(h, e.dynamic, e)
        before == Slice(old, l.start1, h.start1)
        headings == {i \in DOMAIN before : h.text \in {<<>>, before[i].text}}
        i == Min(headings)
    IN  IF headings # {} /\ i \in CommonEnds(before, Slice(new, l.start2, h.start2))
        THEN [Shift(l, i - 1) EXCEPT !.text = <<>>]
        ELSE Limits(h, e.before, e)

Wider(h, e) == IF e.dynamic > 0 THEN DynamicLimits(h, e) ELSE Limits(h, e.before, e)

\* (mutant) the lines before are not compared with the new file
MutNotCompared(h, l) == [head |-> l, lines |-> Slice(old, l.start1, h.start1)]

\* The longest end of the lines before a hunk that both files have.
CommonEnd(h, l) ==
    LET before == Slice(old, l.start1, h.start1)
        common == CommonEnds(before, Slice(new, l.start2, h.start2))
    IN  IF before = Slice(new, l.start2, h.start2) THEN [head |-> l, lines |-> before]
        ELSE IF common # {}
        THEN [head |-> Shift(l, Min(common) - 1),
              lines |-> SubSeq(before, Min(common), Len(before))]
        ELSE [head |-> h, lines |-> <<>>]

AsContext(s) == [k \in DOMAIN s |-> [op |-> "=", text |-> s[k].text]]
LinesAfter(h, e) == AsContext(Slice(old, h.start1 + h.size1, h.start1 + h.size1 + e.after))

ExtendHunk(hunk, e) ==
    LET c == CommonEnd(hunk.head, Wider(hunk.head, e))
    IN  [head |-> c.head, body |-> AsContext(c.lines) \o hunk.body \o LinesAfter(hunk.head, e)]

\* extend_patch: a new file has nothing to show.
ExtendPatch(e) == IF old = <<>> \/ e.before + e.after = 0 THEN patch
                  ELSE [k \in DOMAIN patch |-> ExtendHunk(patch[k], e)]

-----------------------------------------------------------------------------
(* omit_deletion_hunks: the lines of a hunk are kept until a hunk adds one. *)

Adds(hunk) == \E k \in DOMAIN hunk.body : hunk.body[k].op = "+"
\* (mutants) the hunks after the first addition are lost; nothing is pruned
MutFirstAddition(p) ==
    IF \E k \in DOMAIN p : Adds(p[k]) THEN SubSeq(p, 1, Min({k \in DOMAIN p : Adds(p[k])})) ELSE <<>>
MutNothingPruned(p) == p

OmitDeletions(p) ==
    LET adding == {k \in DOMAIN p : Adds(p[k])}
    IN  IF adding = {} THEN <<>> ELSE SubSeq(p, 1, CHOOSE k \in adding : \A j \in adding : j <= k)

\* decouple_and_convert_to_hunks_with_lines_numbers
Numbered(hunk) ==
    LET lines == Lines(hunk.body, InNew)
    IN  [k \in DOMAIN lines |-> [number |-> hunk.head.start2 + k - 1, op |-> lines[k].op,
                                 text |-> lines[k].text]]
Changed(hunk) == \E k \in DOMAIN hunk.body : hunk.body[k].op # "="
NewHunks(p) ==
    UNION {ToSet(Numbered(p[k])) : k \in {j \in DOMAIN p :
              Changed(p[j]) /\ \E i \in DOMAIN p[j].body : p[j].body[i].op # "-"}}
\* The last hunk is printed only if it has a line of the new file.
OldHunks(p) ==
    UNION {{l \in ToSet(p[k].body) : l.op = "-"} : k \in {j \in DOMAIN p :
              j < Len(p) \/ \E i \in DOMAIN p[j].body : p[j].body[i].op # "-"}}

-----------------------------------------------------------------------------
(* The lines of a patch, one after the other, for what looks lines up. *)

AllLines(p) == FlattenSeq([k \in DOMAIN p |-> <<p[k].head>> \o p[k].body])

\* (mutant) removed lines are counted as well
MutCounted(lines, k) ==
    LET head == CHOOSE h \in 1..k : lines[h].op = "@@" /\ \A j \in (h + 1)..k : lines[j].op # "@@"
    IN  lines[head].start2 - 1 + (k - head)

\* The number the loops count for a line of a patch.
Counted(lines, k) ==
    LET head == CHOOSE h \in 1..k : lines[h].op = "@@" /\ \A j \in (h + 1)..k : lines[j].op # "@@"
    IN  lines[head].start2 - 1 + Cardinality({j \in (head + 1)..k : lines[j].op # "-"})

First(S) == IF S = {} THEN 0 ELSE Min(S)

\* A header without one of its counts (one that is 0 comes with line 0): the
\* loops that look a line up take every count for a number.
LeavesOut(head) == (head.size1 = 0 /\ head.start1 # 0) \/ (head.size2 = 0 /\ head.start2 # 0)
TypeError == -1
Reached(lines, at) ==
    IF \E k \in 1..(IF at = 0 THEN Len(lines) ELSE at) : lines[k].op = "@@" /\ LeavesOut(lines[k])
    THEN TypeError ELSE at

\* find_line_number_of_relevant_line_in_file: by number, and by what it says
\* (a header says the heading of its section); 0 if there is none.
PositionOf(lines, number) == Reached(lines, First({k \in DOMAIN lines : Counted(lines, k) = number}))
Says(line, text) == line.op # "-" /\ line.text = text
PlaceOf(lines, text) == Reached(lines, First({k \in DOMAIN lines : Says(lines[k], text)}))

\* extract_hunk_lines_from_patch, for the new file.
InReach(hunk, a) == hunk.head.start2 <= a /\ a <= hunk.head.start2 + hunk.head.size2
\* (mutant) the line is counted before it is looked at
MutSelectedOf(hunk, a, b) ==
    LET At(k) == hunk.head.start2 + Cardinality({j \in 1..k : hunk.body[j].op # "-"})
    IN  {hunk.body[k] : k \in {j \in DOMAIN hunk.body : a <= At(j) /\ At(j) <= b}}

SelectedOf(hunk, a, b) ==
    LET At(k) == hunk.head.start2 + Cardinality({j \in 1..(k - 1) : hunk.body[j].op # "-"})
    IN  {hunk.body[k] : k \in {j \in DOMAIN hunk.body : a <= At(j) /\ At(j) <= b}}
Selected(a, b) ==
    UNION {SelectedOf(patch[k], a, b) : k \in {j \in DOMAIN patch : InReach(patch[j], a)}}

-----------------------------------------------------------------------------

NotSeen == [how |-> "none", patch |-> <<>>]

HunksInit ==
    /\ section \in BOOLEAN
    /\ old = File(InOld) /\ new = File(InNew)
    /\ patch = GitPatch
    /\ seen = NotSeen

See(how, p) ==
    /\ seen = NotSeen
    /\ seen' = [how |-> how, patch |-> p]
    /\ UNCHANGED <<change, section, old, new, patch>>

Extend == \E e \in Extras : See(IF e.after <= Context + 1 THEN "extended" ELSE "far", ExtendPatch(e))
PruneDeletions == See("pruned", OmitDeletions(patch))

HunksNext == Extend \/ PruneDeletions

-----------------------------------------------------------------------------

Is(how) == seen.how = how
\* Git left the count of the old lines out of no header.
Counts == \A k \in DOMAIN patch : patch[k].head.size1 # 0 \/ patch[k].head.start1 = 0
Said(s) == {l.text : l \in s}
Having(s, op) == {l \in s : l.op = op}

\* The number printed before a line of a "new hunk" is its number in the new
\* file, context the tools added included: what a suggestion of a model is
\* placed by (git_patch_processing.py:361).  The lines added after a hunk are
\* those of the old file, so they must end before the next hunk changes one.
NumbersOfTheNewFile ==
    (Is("pruned") \/ (Is("extended") /\ Counts)) =>
        \A l \in NewHunks(seen.patch) :
            l.number \in DOMAIN new /\ new[l.number].text = l.text

\* No line added is lost, and by the extension none that was removed, but of a
\* file that is emptied: its one hunk has nothing of the new file, so that it is
\* not printed (git_patch_processing.py:395).
ChangesKept ==
    ~Is("none") =>
        /\ Said(Having(NewHunks(seen.patch), "+")) = Said(Having(ToSet(new), "+"))
        /\ ~Is("pruned") /\ new # <<>> =>
              Said(OldHunks(seen.patch)) = Said(Having(ToSet(old), "-"))

\* Pruning ends with a hunk that adds something: a run of deletions at the end
\* of a file is not shown (one before an addition is).
EndsWithAnAddition ==
    Is("pruned") /\ seen.patch # <<>> => Adds(Last(seen.patch))

ShownIn(k, n) == new[n].text \in Said(ToSet(patch[k].body))

\* A comment for a line of the new file is placed at that line of the patch,
\* whether it is looked for by its number or by what it says, unless git left a
\* count out of the header of its hunk or of one before: then neither search
\* gets past that header (algo/utils.py:1149, 1171).
LinesFound ==
    Is("none") =>
    LET lines == AllLines(patch) IN
    \A k \in DOMAIN patch : \A n \in DOMAIN new : ShownIn(k, n) =>
        LET at == PositionOf(lines, n)
        IN  /\ at = PlaceOf(lines, new[n].text)
            /\ IF \E j \in 1..k : LeavesOut(patch[j].head) THEN at = TypeError
               ELSE at # 0 /\ Counted(lines, at) = n

\* Asked about lines of the new file, the tool selects those of them that the
\* hunk of the first one shows, and no other line of the new file.
AskedLines ==
    Is("none") =>
    \A a \in DOMAIN new : \A b \in a..Len(new) : \A k \in DOMAIN patch :
        ShownIn(k, a) =>
            {l.text : l \in {m \in Selected(a, b) : m.op # "-"}}
                = Said(ToSet(patch[k].body)) \cap {new[n].text : n \in a..b}

\* What is made of the patch of a file agrees with the two versions of it: the
\* numbers a model sees, the lines it sees, and the lines its answers and the
\* users' questions are about (git_patch_processing.py, algo/utils.py).
PatchesFaithful ==
    /\ NumbersOfTheNewFile /\ ChangesKept /\ EndsWithAnAddition
    /\ LinesFound /\ AskedLines
=============================================================================
