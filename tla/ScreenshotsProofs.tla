-------------------------- MODULE ScreenshotsProofs --------------------------
(***************************************************************************)
(* What rows and points of screenshots guarantee, for any number of         *)
(* screenshots, runs, executions, faults and pages of the backfill.         *)
(***************************************************************************)
EXTENDS Screenshots, SequenceTheorems, FiniteSetTheorems, TLAPS

(* A run is about a screenshot that was uploaded.                           *)
Posted == \A r \in Runs : pc[r] # "unused" => about[r] \in Shots /\ status[about[r]] # "none"

(* The backfill holds organized screenshots exactly while it embeds them.   *)
Listed ==
    /\ \A i \in DOMAIN batch : status[batch[i].shot] = "organized"
    /\ job = "embedding" <=> batch # <<>>

Typed == TypeOK /\ Posted /\ Listed

-----------------------------------------------------------------------------
(* Whoever holds an insight holds the text that it was made from.           *)
Fits(c) == c.of = c.text

RunFits(r) == pc[r] \in {"save", "embed"} => Fits(local[r])
BatchFits == \A i \in DOMAIN batch : Fits(batch[i].content)
FitInv == InsightFitsText /\ (\A r \in Runs : RunFits(r)) /\ BatchFits

-----------------------------------------------------------------------------
(* Two activities under way on a screenshot are on record.                  *)
CrowdsAreNoted == \A s \in Shots : Crowd(s) > 1 => s \in crowded

(* Alone on its screenshot, a run embeds what its row says, and so does the *)
(* backfill.                                                                *)
RunSaved(r) == pc[r] = "embed" /\ about[r] \notin crowded => local[r] = content[about[r]]
EntrySaved(i) == batch[i].shot \notin crowded => batch[i].content = content[batch[i].shot]
SavedInv == (\A r \in Runs : RunSaved(r)) /\ \A i \in DOMAIN batch : EntrySaved(i)

(* A save that is retried is on record as a fault, or its row as crowded.   *)
RetryNoted(r) ==
    tries[r] = 1 =>
        pc[r] \in {"embed", "ended"} \/ (pc[r] = "save" /\ about[r] \in crowded \cup behind)
RetriesAreNoted == \A r \in Runs : RetryNoted(r)

(* A screenshot is found under its row, or the run that will see to it is   *)
(* about to, or what came between is on record.                             *)
Current(s) ==
    status[s] = "organized" /\ s \notin crowded \cup behind =>
        point[s] = content[s] \/ \E r \in Runs : about[r] = s /\ pc[r] = "embed"
CurrentInv == \A s \in Shots : Current(s)

-----------------------------------------------------------------------------
(* A run's text is its hint, where it has one.                              *)
HintKept(r) ==
    /\ pc[r] = "ocr" => hint[r] = "blank"
    /\ pc[r] \in {"llm", "save", "embed", "ended"} /\ hint[r] # "blank" => local[r].text = hint[r]

(* Alone on its screenshot, a run that has or may get the file name for the *)
(* text found no other text in the row.                                     *)
NoTextLost(r) ==
    /\ pc[r] \in UnderWay /\ about[r] \notin crowded
    /\ hint[r] = "fallback" \/ local[r].text = "fallback" \/ pc[r] = "ocr"
    => content[about[r]].text \notin {"typed", "read"}
TextInv == \A r \in Runs : HintKept(r) /\ NoTextLost(r)

-----------------------------------------------------------------------------
(* What can be put into a content.                                          *)
LEMMA ContentFacts ==
    /\ Nothing \in Content /\ Nothing.text = "blank" /\ Nothing.of = "blank"
    /\ \A c \in Content : c.text \in Text /\ c.of \in Text
  <1>1. Nothing \in Content
    <2>1. Degraded \in Origin /\ "blank" \in Text
      BY DEF Origin, Text
    <2>2. 0 \in 0..MaxRounds
      BY ScreenshotsAssumption
    <2> QED
      BY <2>1, <2>2 DEF Nothing, Content
  <1> QED
    BY <1>1 DEF Nothing, Content

(* A run's text changes, and nothing else of what it holds.                 *)
LEMMA TextEffect ==
    ASSUME NEW f, NEW S, f \in [S -> Content], NEW r \in S, NEW t \in Text
    PROVE  LET g == [f EXCEPT ![r].text = t]
           IN  /\ g \in [S -> Content]
               /\ g[r].text = t /\ g[r].of = f[r].of
               /\ \A q \in S : q # r => g[q] = f[q]
  <1>1. [f[r] EXCEPT !.text = t] \in Content
    BY DEF Content
  <1> QED
    BY <1>1 DEF Content

(* A run's insight changes, and its text does not.                          *)
LEMMA InsightEffect ==
    ASSUME local \in [Runs -> Content], NEW r \in Runs,
           NEW o \in Text, NEW b \in Origin, NEW n \in 0..MaxRounds,
           local' = [local EXCEPT ![r].of = o, ![r].by = b, ![r].round = n]
    PROVE  /\ local' \in [Runs -> Content]
           /\ local'[r].text = local[r].text /\ local'[r].of = o
           /\ \A q \in Runs : q # r => local'[q] = local[q]
  <1>1. /\ [[[local[r] EXCEPT !.of = o] EXCEPT !.by = b] EXCEPT !.round = n] \in Content
        /\ [[[local[r] EXCEPT !.of = o] EXCEPT !.by = b] EXCEPT !.round = n].text = local[r].text
        /\ [[[local[r] EXCEPT !.of = o] EXCEPT !.by = b] EXCEPT !.round = n].of = o
    BY DEF Content
  <1> QED
    BY <1>1

(* A function on 1..n is a sequence of length n.                            *)
LEMMA FunctionIsSeq ==
    ASSUME NEW S, NEW n \in Nat, NEW f \in [1..n -> S]
    PROVE  f \in Seq(S) /\ Len(f) = n
  <1>1. f \in Seq(S)
    BY SeqDef
  <1>2. Len(f) \in Nat /\ 1..Len(f) = 1..n
    BY <1>1, LenProperties
  <1>3. Len(f) = n
    <2>1. CASE Len(f) < n
      <3>1. n \in 1..n /\ n \notin 1..Len(f)
        BY <1>2, <2>1
      <3> QED
        BY <1>2, <3>1
    <2>2. CASE n < Len(f)
      <3>1. Len(f) \in 1..Len(f) /\ Len(f) \notin 1..n
        BY <1>2, <2>2
      <3> QED
        BY <1>2, <3>1
    <2> QED
      BY <1>2, <2>1, <2>2
  <1> QED
    BY <1>1, <1>3

(* The entry that the backfill makes of a row.                              *)
Entry == [shot : Shots, content : Content]

(* A page of the organized rows, as ListOrganizedScreenshots reads it.      *)
LEMMA OrderFacts ==
    ASSUME NEW order \in ByCreation
    PROVE  /\ Cardinality(Organized) \in Nat /\ Cardinality(Organized) <= Cardinality(Shots)
           /\ Cardinality(Shots) \in Nat
           /\ order \in Seq(Organized) /\ Len(order) = Cardinality(Organized)
           /\ order \in [1..Len(order) -> Organized]
           /\ \A i, j \in 1..Len(order) : i # j => order[i] # order[j]
           /\ \A i, j \in 1..Len(order) : i < j => CreatedAt[order[i]] <= CreatedAt[order[j]]
  <1>1. IsFiniteSet(Organized) /\ Cardinality(Organized) <= Cardinality(Shots)
    BY ScreenshotsAssumption, FS_Subset DEF Organized
  <1>2. Cardinality(Organized) \in Nat /\ Cardinality(Shots) \in Nat
    BY <1>1, ScreenshotsAssumption, FS_CardinalityType
  <1>3. /\ order \in [1..Cardinality(Organized) -> Organized]
        /\ \A i, j \in 1..Cardinality(Organized) : i # j => order[i] # order[j]
        /\ \A i, j \in DOMAIN order : i < j => CreatedAt[order[i]] <= CreatedAt[order[j]]
    BY DEF ByCreation, SetToSeqs
  <1>4. order \in Seq(Organized) /\ Len(order) = Cardinality(Organized)
    BY <1>2, <1>3, FunctionIsSeq
  <1> QED
    BY <1>1, <1>2, <1>3, <1>4

(* A page holds organized screenshots, the ones next in the order of        *)
(* creation.                                                                *)
LEMMA PageFacts ==
    ASSUME NEW order \in ByCreation, offset \in 0..Cardinality(Shots)
    PROVE  /\ Page(order) \in Seq(Organized) /\ Len(Page(order)) \in Nat
           /\ DOMAIN Page(order) = 1..Len(Page(order))
           /\ offset + Len(Page(order)) \in 0..Cardinality(Shots)
           /\ offset + Len(Page(order)) <= IF offset <= Len(order) THEN Len(order) ELSE offset
           /\ Len(Page(order)) = 0 => Len(order) <= offset
           /\ \A i \in 1..Len(Page(order)) :
                /\ offset + i \in 1..Len(order)
                /\ Page(order)[i] = order[offset + i]
  <1> DEFINE m == offset + 1
             n == Least(offset + BatchSize, Len(order))
  <1>0. /\ Cardinality(Shots) \in Nat /\ Len(order) \in Nat /\ Len(order) <= Cardinality(Shots)
        /\ BatchSize \in Nat /\ BatchSize > 0 /\ offset \in Nat /\ offset <= Cardinality(Shots)
    BY OrderFacts, ScreenshotsAssumption
  <1>1. /\ m \in Int /\ n \in Int /\ n <= Len(order) /\ n <= offset + BatchSize
        /\ n = Len(order) \/ n = offset + BatchSize
    BY <1>0 DEF Least
  <1>2. \A i \in m..n : order[i] \in Organized
    BY <1>0, <1>1, OrderFacts
  <1>3. Page(order) = SubSeq(order, m, n)
    BY DEF Page
  <1> HIDE DEF n
  <1>4. /\ Page(order) \in Seq(Organized)
        /\ Len(Page(order)) = IF m <= n THEN n - m + 1 ELSE 0
        /\ \A i \in 1..(n - m + 1) : Page(order)[i] = order[m + i - 1]
    BY <1>1, <1>2, <1>3, SubSeqProperties
  <1>5. Len(Page(order)) \in Nat /\ DOMAIN Page(order) = 1..Len(Page(order))
    BY <1>4, LenProperties
  <1>6. ASSUME NEW i \in 1..Len(Page(order))
        PROVE  offset + i \in 1..Len(order) /\ Page(order)[i] = order[offset + i]
    <2>1. m <= n /\ i \in 1..(n - m + 1) /\ m + i - 1 = offset + i
      BY <1>0, <1>1, <1>4
    <2> QED
      BY <1>0, <1>1, <1>4, <2>1
  <1> QED
    BY <1>0, <1>1, <1>4, <1>5, <1>6

-----------------------------------------------------------------------------
(* The variables by what writes them: requests and runs, the backfill.      *)
RowsOK ==
    /\ status \in [Shots -> {"none", "uploaded", "organized"}]
    /\ content \in [Shots -> Content]
    /\ point \in [Shots -> Content]

RunsOK ==
    /\ pc \in [Runs -> {"unused", "abandoned", "settled", "dead"} \cup UnderWay]
    /\ about \in [Runs -> Shots \cup {NoShot}]
    /\ hint \in [Runs -> Text]
    /\ local \in [Runs -> Content]
    /\ round \in [Runs -> 0..MaxRounds]
    /\ tries \in [Runs -> 0..1]

JobOK ==
    /\ job \in {"ready", "listing", "embedding", "done"}
    /\ offset \in 0..Cardinality(Shots)
    /\ batch \in Seq(Entry)
    /\ failed \in BOOLEAN
    /\ owed \subseteq Shots

RecordOK == crowded \subseteq Shots /\ behind \subseteq Shots /\ faults \in 0..MaxFaults

(* The types, split by whom they concern.                                   *)
LEMMA TypeParts == TypeOK <=> RowsOK /\ RunsOK /\ JobOK /\ RecordOK
  BY DEF TypeOK, RowsOK, RunsOK, JobOK, RecordOK, Entry

(* The same after a step.                                                   *)
LEMMA TypePartsNext == (TypeOK <=> RowsOK /\ RunsOK /\ JobOK /\ RecordOK)'
  BY TypeParts, PTL

-----------------------------------------------------------------------------

(* An aborted execution waits in the queue or is dead, and holds nothing.   *)
LEMMA AbortEffect ==
    ASSUME RunsOK, NEW r \in Runs, NEW n, Abort(r, n)
    PROVE  /\ pc' \in [Runs -> {"unused", "abandoned", "settled", "dead"} \cup UnderWay]
           /\ local' \in [Runs -> Content] /\ tries' \in [Runs -> 0..1]
           /\ pc'[r] \in {"queued", "dead"} /\ local'[r] = Nothing /\ tries'[r] = 0
           /\ \A q \in Runs : q # r => pc'[q] = pc[q] /\ local'[q] = local[q] /\ tries'[q] = tries[q]
  <1>1. /\ local' = [local EXCEPT ![r] = Nothing] /\ tries' = [tries EXCEPT ![r] = 0]
        /\ pc' = [pc EXCEPT ![r] = IF n < MaxRounds THEN "queued" ELSE "dead"]
    BY DEF Abort, Forget, Goto
  <1> QED
    BY <1>1, ContentFacts DEF RunsOK, UnderWay

(* GenerateInsight makes the insight of the run's text, and keeps the text. *)
LEMMA GeneratedEffect ==
    ASSUME RunsOK, NEW r \in Runs, GenerateInsight(r)
    PROVE  /\ local' \in [Runs -> Content]
           /\ local'[r].text = local[r].text /\ local'[r].of = local[r].text
           /\ \A q \in Runs : q # r => local'[q] = local[q]
  <1>0. 0 \in 0..MaxRounds /\ local[r].text \in Text /\ r \in Origin /\ Degraded \in Origin
    BY ScreenshotsAssumption, ContentFacts DEF RunsOK, Origin
  <1>1. PICK made \in ProviderInsight(r, local[r].text) \cup {MockInsight(local[r].text)} :
            local' = [local EXCEPT ![r].of = made.of, ![r].by = made.by, ![r].round = made.round]
    BY DEF GenerateInsight, InsightInput
  <1>2. made.of = local[r].text /\ made.by \in Origin /\ made.round \in 0..MaxRounds
    BY <1>0, <1>1 DEF ProviderInsight, MockInsight, RunsOK
  <1>3. local \in [Runs -> Content]
    BY DEF RunsOK
  <1>4. made.of \in Text
    BY <1>0, <1>2
  <1> QED
    BY <1>1, <1>2, <1>3, <1>4, InsightEffect

(* Requests, runs and the backfill keep rows and runs in their types.       *)
LEMMA RunsStep ==
    ASSUME RowsOK, RunsOK, RecordOK, JobOK, Posted, Listed, [Next]_vars
    PROVE  RowsOK' /\ RunsOK' /\ faults' \in 0..MaxFaults /\ Posted'
  <1> DEFINE Goal == RowsOK' /\ RunsOK' /\ faults' \in 0..MaxFaults /\ Posted'
  <1>0. /\ MaxRounds \in Nat /\ MaxRounds > 0 /\ MaxFaults \in Nat
        /\ Hints \in [Shots -> SUBSET {"blank", "typed"}] /\ NoShot \notin Shots
    BY ScreenshotsAssumption
  <1>1. ASSUME NEW r \in Runs, NEW s \in Shots, UploadScreenshot(r, s) PROVE Goal
    <2>1. PICK h \in Hints[s] : Post(r, s, h) /\ content' = [content EXCEPT ![s].text = h]
      BY <1>1 DEF UploadScreenshot
    <2>2. h \in Text /\ status' = [status EXCEPT ![s] = "uploaded"]
      BY <1>0, <1>1 DEF UploadScreenshot, Text
    <2>3. content' \in [Shots -> Content]
      BY <2>1, <2>2, TextEffect DEF RowsOK
    <2>4. RowsOK'
      BY <2>1, <2>2, <2>3 DEF RowsOK, Post
    <2>5. RunsOK'
      BY <2>1, <2>2 DEF Post, Goto, RunsOK, UnderWay
    <2>6. Posted' /\ faults' \in 0..MaxFaults
      BY <2>1, <2>2 DEF Post, Goto, RowsOK, RunsOK, Posted, RecordOK
    <2> QED
      BY <2>4, <2>5, <2>6
  <1>2. ASSUME NEW r \in Runs, NEW s \in Shots, CreateAgentRun(r, s) PROVE Goal
    <2>1. PICK h \in Hints[s] : Post(r, s, h)
      BY <1>2 DEF CreateAgentRun
    <2>2. h \in Text
      BY <1>0 DEF Text
    <2>3. RowsOK'
      BY <1>2, <2>1 DEF CreateAgentRun, RowsOK, Post, rowVars
    <2>4. RunsOK'
      BY <2>1, <2>2 DEF Post, Goto, RunsOK, UnderWay
    <2>5. Posted' /\ faults' \in 0..MaxFaults
      BY <1>2, <2>1 DEF CreateAgentRun, Post, Goto, rowVars, RunsOK, Posted, RecordOK
    <2> QED
      BY <2>3, <2>4, <2>5
  <1>3. ASSUME NEW r \in Runs, NEW s \in Shots, RetryAgent(r, s) PROVE Goal
    <2>1. Post(r, s, content[s].text) /\ UNCHANGED rowVars
      BY <1>3 DEF RetryAgent
    <2>2. content[s].text \in Text
      BY ContentFacts DEF RowsOK
    <2>3. RowsOK'
      BY <2>1 DEF RowsOK, Post, rowVars
    <2>4. RunsOK'
      BY <2>1, <2>2 DEF Post, Goto, RunsOK, UnderWay
    <2>5. Posted' /\ faults' \in 0..MaxFaults
      BY <1>3, <2>1 DEF RetryAgent, Post, Goto, rowVars, RunsOK, Posted, RecordOK
    <2> QED
      BY <2>3, <2>4, <2>5
  <1>4. ASSUME NEW r \in Runs, Enqueue(r) PROVE Goal
    BY <1>4 DEF Enqueue, Goto, RowsOK, RunsOK, RecordOK, Posted, rowVars, UnderWay
  <1>5. ASSUME NEW r \in Runs, ReadShot(r) PROVE Goal
    <2>1. about[r] \in Shots /\ content[about[r]].text \in Text /\ hint[r] \in Text
      BY <1>5, ContentFacts DEF ReadShot, Posted, RowsOK, RunsOK
    <2>2. KnownText(r) \in Text
      BY <2>1 DEF KnownText
    <2>3. round' \in [Runs -> 0..MaxRounds] /\ UNCHANGED <<rowVars, point, about, hint>>
      BY <1>0, <1>5 DEF ReadShot, RunsOK
    <2>4. CASE /\ local' = [local EXCEPT ![r].text = KnownText(r)] /\ UNCHANGED <<tries, faults>>
               /\ Goto(r, IF KnownText(r) = "blank" THEN "ocr" ELSE "llm")
      <3>1. local' \in [Runs -> Content]
        BY <2>2, <2>4, TextEffect DEF RunsOK
      <3> QED
        BY <1>5, <2>3, <2>4, <3>1
           DEF ReadShot, Goto, RowsOK, RunsOK, RecordOK, Posted, rowVars, UnderWay, Working
    <2>5. CASE Fault /\ Abort(r, round[r] + 1)
      BY <1>0, <1>5, <2>3, <2>5, AbortEffect
         DEF ReadShot, RowsOK, RunsOK, RecordOK, Posted, Fault, rowVars, UnderWay
    <2> QED
      BY <1>5, <2>4, <2>5 DEF ReadShot
  <1>6. ASSUME NEW r \in Runs, Recognize(r) PROVE Goal
    <2>1. PICK t \in Text : local' = [local EXCEPT ![r].text = t]
      BY <1>6 DEF Recognize, Extract, Text
    <2>2. local' \in [Runs -> Content]
      BY <2>1, TextEffect DEF RunsOK
    <2> QED
      BY <1>6, <2>2 DEF Recognize, Goto, RowsOK, RunsOK, RecordOK, Posted, rowVars, UnderWay,
         Working
  <1>7. ASSUME NEW r \in Runs, GenerateInsight(r) PROVE Goal
    <2>1. /\ local' \in [Runs -> Content]
      BY <1>7, GeneratedEffect DEF RunsOK
    <2> QED
      BY <1>7, <2>1 DEF GenerateInsight, Goto, RowsOK, RunsOK, RecordOK, Posted, rowVars, UnderWay,
         Working
  <1>8. ASSUME NEW r \in Runs, SaveMemory(r) PROVE Goal
    <2>1. about[r] \in Shots /\ local[r] \in Content
      BY <1>8 DEF SaveMemory, Posted, RunsOK
    <2>2. RowsOK'
      BY <1>8, <2>1 DEF SaveMemory, SaveRow, RowsOK, rowVars
    <2>3. \A s \in Shots : status[s] # "none" => status'[s] # "none"
      BY <1>8, <2>1 DEF SaveMemory, SaveRow, RowsOK, rowVars
    <2>4. RunsOK'
      BY <1>8 DEF SaveMemory, Goto, RunsOK, UnderWay, Working
    <2>5. Posted' /\ faults' \in 0..MaxFaults
      BY <1>8, <2>3 DEF SaveMemory, Goto, RunsOK, RecordOK, Posted
    <2> QED
      BY <2>2, <2>4, <2>5
  <1>9. ASSUME NEW r \in Runs, SaveFails(r) PROVE Goal
    <2>1. about[r] \in Shots /\ local[r] \in Content
      BY <1>9 DEF SaveFails, Posted, RunsOK
    <2>2. RowsOK'
      BY <1>9, <2>1 DEF SaveFails, SaveRow, RowsOK, rowVars
    <2>3. \A s \in Shots : status[s] # "none" => status'[s] # "none"
      BY <1>9, <2>1 DEF SaveFails, SaveRow, RowsOK, rowVars
    <2>4. UNCHANGED <<about, hint, round>>
      BY <1>9 DEF SaveFails
    <2>5. CASE tries' = [tries EXCEPT ![r] = 1] /\ UNCHANGED <<pc, local>> /\ Fault
      <3>1. RunsOK'
        BY <2>4, <2>5 DEF RunsOK
      <3>2. Posted' /\ faults' \in 0..MaxFaults
        BY <1>0, <2>3, <2>4, <2>5 DEF Fault, RecordOK, RunsOK, Posted
      <3> QED
        BY <2>2, <3>1, <3>2
    <2>6. CASE Abort(r, round[r]) /\ UNCHANGED faults
      <3>1. /\ pc' \in [Runs -> {"unused", "abandoned", "settled", "dead"} \cup UnderWay]
            /\ local' \in [Runs -> Content] /\ tries' \in [Runs -> 0..1]
            /\ pc'[r] \in {"queued", "dead"} /\ \A q \in Runs : q # r => pc'[q] = pc[q]
        BY <2>6, AbortEffect DEF RunsOK
      <3>2. RunsOK'
        BY <2>4, <3>1 DEF RunsOK
      <3>3. Posted' /\ faults' \in 0..MaxFaults
        BY <2>1, <2>3, <2>4, <2>6, <3>1, <1>9 DEF SaveFails, RecordOK, RunsOK, Posted
      <3> QED
        BY <2>2, <3>2, <3>3
    <2> QED
      BY <1>9, <2>5, <2>6 DEF SaveFails
  <1>10. ASSUME NEW r \in Runs, Embed(r) PROVE Goal
    <2>1. about[r] \in Shots /\ local[r] \in Content
      BY <1>10 DEF Embed, Posted, RunsOK
    <2>2. point' \in [Shots -> Content]
      BY <1>10, <2>1 DEF Embed, Upsert, EmbeddingInput, RowsOK
    <2>3. faults' \in 0..MaxFaults
      BY <1>0, <1>10 DEF Embed, Fault, RecordOK
    <2>4. RunsOK'
      BY <1>10 DEF Embed, Goto, RunsOK, UnderWay, Working
    <2>5. RowsOK' /\ Posted'
      BY <1>10, <2>2 DEF Embed, Goto, RowsOK, RunsOK, Posted, rowVars
    <2> QED
      BY <2>3, <2>4, <2>5
  <1>11. ASSUME NEW r \in Runs, Settle(r) PROVE Goal
    <2>1. local' \in [Runs -> Content] /\ tries' \in [Runs -> 0..1]
      BY <1>11, ContentFacts DEF Settle, Forget, RunsOK
    <2> QED
      BY <1>11, <2>1 DEF Settle, Goto, RowsOK, RunsOK, RecordOK, Posted, rowVars
  <1>12. ASSUME Crash PROVE Goal
    <2>1. local' \in [Runs -> Content] /\ tries' \in [Runs -> 0..1]
      BY <1>12, ContentFacts DEF Crash
    <2>2. \A r \in Runs : pc'[r] = CASE pc[r] \in Working  -> "queued"
                                     [] pc[r] = "posted" -> "abandoned"
                                     [] OTHER            -> pc[r]
      BY <1>12 DEF Crash
    <2>3. ASSUME NEW r \in Runs
          PROVE  /\ pc'[r] \in {"unused", "abandoned", "settled", "dead"} \cup UnderWay
                 /\ pc'[r] # "unused" => pc[r] # "unused"
      BY <2>2 DEF RunsOK, UnderWay, Working
    <2>4. pc' \in [Runs -> {"unused", "abandoned", "settled", "dead"} \cup UnderWay]
      BY <1>12, <2>3 DEF Crash
    <2>5. faults' \in 0..MaxFaults
      BY <1>0, <1>12 DEF Crash, Fault, RecordOK
    <2>6. RunsOK'
      BY <1>12, <2>1, <2>4 DEF Crash, RunsOK
    <2>7. RowsOK' /\ Posted'
      BY <1>12, <2>3 DEF Crash, RowsOK, Posted, rowVars
    <2> QED
      BY <2>5, <2>6, <2>7
  <1>13. ASSUME StartBackfill PROVE Goal
    BY <1>13 DEF StartBackfill, RowsOK, RunsOK, RecordOK, Posted, rowVars, runVars
  <1>14. ASSUME ListOrganizedScreenshots PROVE Goal
    BY <1>14 DEF ListOrganizedScreenshots, RowsOK, RunsOK, RecordOK, Posted, rowVars, runVars
  <1>15. ASSUME BackfillShot PROVE Goal
    <2>1. Head(batch) \in Entry
      BY <1>15, HeadTailProperties DEF BackfillShot, Listed, JobOK
    <2>2. Head(batch).shot \in Shots /\ Head(batch).content \in Content
      BY <2>1 DEF Entry
    <2>3. point' \in [Shots -> Content]
      BY <1>15, <2>2 DEF BackfillShot, Upsert, RowsOK
    <2>4. faults' \in 0..MaxFaults
      BY <1>0, <1>15 DEF BackfillShot, Fault, RecordOK
    <2> QED
      BY <1>15, <2>3, <2>4 DEF BackfillShot, RowsOK, RunsOK, Posted, rowVars, runVars
  <1>16. ASSUME UNCHANGED vars PROVE Goal
    BY <1>16 DEF vars, RowsOK, RunsOK, RecordOK, Posted, rowVars, runVars, jobVars
  <1> QED
    BY <1>1, <1>2, <1>3, <1>4, <1>5, <1>6, <1>7, <1>8, <1>9, <1>10, <1>11, <1>12, <1>13, <1>14,
       <1>15, <1>16
       DEF Next, Request, Execution, Backfill

(* A page of rows becomes the batch, entry by entry.                        *)
LEMMA ListEffect ==
    ASSUME RowsOK, JobOK, NEW order \in ByCreation,
           batch' = [i \in DOMAIN Page(order) |->
                        [shot |-> Page(order)[i], content |-> content[Page(order)[i]]]]
    PROVE  /\ batch' \in Seq(Entry) /\ Len(batch') = Len(Page(order))
           /\ DOMAIN batch' = 1..Len(Page(order))
           /\ \A i \in 1..Len(Page(order)) :
                /\ Page(order)[i] \in Organized
                /\ batch'[i].shot = Page(order)[i] /\ batch'[i].content = content[Page(order)[i]]
  <1> DEFINE n == Len(Page(order))
  <1>1. n \in Nat /\ DOMAIN Page(order) = 1..n /\ Page(order) \in Seq(Organized)
    BY PageFacts DEF JobOK
  <1>2. \A i \in 1..n : Page(order)[i] \in Organized
    BY <1>1, ElementOfSeq
  <1>3. \A i \in 1..n : [shot |-> Page(order)[i], content |-> content[Page(order)[i]]] \in Entry
    BY <1>2 DEF Organized, Entry, RowsOK
  <1>4. batch' \in [1..n -> Entry]
    BY <1>1, <1>3
  <1>5. batch' \in Seq(Entry) /\ Len(batch') = n
    BY <1>1, <1>4, FunctionIsSeq
  <1>6. \A i \in 1..n : batch'[i] = [shot |-> Page(order)[i], content |-> content[Page(order)[i]]]
    BY <1>1
  <1> QED
    BY <1>1, <1>2, <1>4, <1>5, <1>6

(* The backfill goes on with the entries behind the first.                  *)
LEMMA TailEffect ==
    ASSUME JobOK, Listed, BackfillShot
    PROVE  /\ Head(batch) = batch[1] /\ 1 \in DOMAIN batch /\ DOMAIN batch = 1..Len(batch)
           /\ batch' \in Seq(Entry) /\ DOMAIN batch' = 1..Len(batch')
           /\ Len(batch) \in Nat /\ Len(batch') = Len(batch) - 1
           /\ \A i \in DOMAIN batch' : i + 1 \in DOMAIN batch /\ batch'[i] = batch[i + 1]
           /\ job' = "embedding" <=> batch' # <<>>
           /\ job' \in {"listing", "embedding"}
  <1>1. batch \in Seq(Entry) /\ batch # <<>> /\ batch' = Tail(batch)
    BY DEF JobOK, Listed, BackfillShot
  <1>2. Len(batch) \in Nat /\ Len(batch) > 0 /\ DOMAIN batch = 1..Len(batch)
    BY <1>1, LenProperties, EmptySeq
  <1>3. /\ batch' \in Seq(Entry) /\ Len(batch') = Len(batch) - 1
        /\ \A i \in 1..Len(batch') : batch'[i] = batch[i + 1]
    BY <1>1, HeadTailProperties
  <1>4. DOMAIN batch' = 1..Len(batch')
    BY <1>3, LenProperties
  <1>5. Head(batch) = batch[1]
    BY <1>1 DEF Head
  <1>6. job' = IF batch' = <<>> THEN "listing" ELSE "embedding"
    BY <1>1 DEF BackfillShot
  <1> QED
    BY <1>2, <1>3, <1>4, <1>5, <1>6

(* An organized screenshot stays organized.                                 *)
LEMMA OrganizedStays ==
    ASSUME RowsOK, RunsOK, Posted, [Next]_vars
    PROVE  \A s \in Shots : status[s] = "organized" => status'[s] = "organized"
  <1> DEFINE Goal == \A s \in Shots : status[s] = "organized" => status'[s] = "organized"
  <1>1. ASSUME NEW r \in Runs, NEW s \in Shots, UploadScreenshot(r, s) PROVE Goal
    BY <1>1 DEF UploadScreenshot, RowsOK
  <1>2. ASSUME NEW r \in Runs, NEW s \in Shots, CreateAgentRun(r, s) PROVE Goal
    BY <1>2 DEF CreateAgentRun, Post, Goto, rowVars
  <1>3. ASSUME NEW r \in Runs, NEW s \in Shots, RetryAgent(r, s) PROVE Goal
    BY <1>3 DEF RetryAgent, Post, Goto, rowVars
  <1>4. ASSUME NEW r \in Runs, Enqueue(r) PROVE Goal
    BY <1>4 DEF Enqueue, Goto, rowVars
  <1>5. ASSUME NEW r \in Runs, ReadShot(r) PROVE Goal
    BY <1>5 DEF ReadShot, Goto, rowVars
  <1>6. ASSUME NEW r \in Runs, Recognize(r) PROVE Goal
    BY <1>6 DEF Recognize, Goto, rowVars
  <1>7. ASSUME NEW r \in Runs, GenerateInsight(r) PROVE Goal
    BY <1>7 DEF GenerateInsight, Goto, rowVars
  <1>8. ASSUME NEW r \in Runs, SaveMemory(r) PROVE Goal
    BY <1>8 DEF SaveMemory, SaveRow, RowsOK, Posted
  <1>9. ASSUME NEW r \in Runs, SaveFails(r) PROVE Goal
    BY <1>9 DEF SaveFails, SaveRow, RowsOK, Posted, rowVars
  <1>10. ASSUME NEW r \in Runs, Embed(r) PROVE Goal
    BY <1>10 DEF Embed, Goto, rowVars
  <1>11. ASSUME NEW r \in Runs, Settle(r) PROVE Goal
    BY <1>11 DEF Settle, Goto, rowVars
  <1>12. ASSUME Crash PROVE Goal
    BY <1>12 DEF Crash, rowVars
  <1>13. ASSUME StartBackfill PROVE Goal
    BY <1>13 DEF StartBackfill, rowVars
  <1>14. ASSUME ListOrganizedScreenshots PROVE Goal
    BY <1>14 DEF ListOrganizedScreenshots, rowVars
  <1>15. ASSUME BackfillShot PROVE Goal
    BY <1>15 DEF BackfillShot, rowVars
  <1>16. ASSUME UNCHANGED vars PROVE Goal
    BY <1>16 DEF vars, rowVars
  <1> QED
    BY <1>1, <1>2, <1>3, <1>4, <1>5, <1>6, <1>7, <1>8, <1>9, <1>10, <1>11, <1>12, <1>13, <1>14,
       <1>15, <1>16
       DEF Next, Request, Execution, Backfill

(* The backfill keeps its variables in their types, and holds rows exactly  *)
(* while it embeds them.                                                    *)
LEMMA JobStep ==
    ASSUME RowsOK, RunsOK, RecordOK, JobOK, Posted, Listed, [Next]_vars
    PROVE  JobOK' /\ Listed'
  <1> DEFINE Goal == JobOK' /\ Listed'
  <1>a. \A s \in Shots : status[s] = "organized" => status'[s] = "organized"
    BY OrganizedStays
  <1>b. \A i \in DOMAIN batch : batch[i].shot \in Shots
    <2>1. \A i \in DOMAIN batch : batch[i] \in Entry
      BY ElementOfSeq, LenProperties DEF JobOK
    <2> QED
      BY <2>1 DEF Entry
  <1>c. UNCHANGED jobVars => JobOK' /\ Listed'
    BY <1>a, <1>b DEF JobOK, Listed, jobVars
  <1>1. ASSUME NEW r \in Runs, NEW s \in Shots, UploadScreenshot(r, s) PROVE Goal
    BY <1>1, <1>c DEF UploadScreenshot, Post
  <1>2. ASSUME NEW r \in Runs, NEW s \in Shots, CreateAgentRun(r, s) PROVE Goal
    BY <1>2, <1>c DEF CreateAgentRun, Post
  <1>3. ASSUME NEW r \in Runs, NEW s \in Shots, RetryAgent(r, s) PROVE Goal
    BY <1>3, <1>c DEF RetryAgent, Post
  <1>4. ASSUME NEW r \in Runs, Enqueue(r) PROVE Goal
    BY <1>4, <1>c DEF Enqueue, Goto
  <1>5. ASSUME NEW r \in Runs, ReadShot(r) PROVE Goal
    BY <1>5, <1>c DEF ReadShot, Goto
  <1>6. ASSUME NEW r \in Runs, Recognize(r) PROVE Goal
    BY <1>6, <1>c DEF Recognize, Goto
  <1>7. ASSUME NEW r \in Runs, GenerateInsight(r) PROVE Goal
    BY <1>7, <1>c DEF GenerateInsight, Goto
  <1>8. ASSUME NEW r \in Runs, SaveMemory(r) PROVE Goal
    BY <1>8, <1>c DEF SaveMemory, Goto
  <1>9. ASSUME NEW r \in Runs, SaveFails(r) PROVE Goal
    BY <1>9, <1>c DEF SaveFails, Goto
  <1>10. ASSUME NEW r \in Runs, Embed(r) PROVE Goal
    BY <1>10, <1>c DEF Embed, Goto
  <1>11. ASSUME NEW r \in Runs, Settle(r) PROVE Goal
    BY <1>11, <1>c DEF Settle, Goto
  <1>12. ASSUME Crash PROVE Goal
    BY <1>12, <1>c DEF Crash
  <1>13. ASSUME StartBackfill PROVE Goal
    BY <1>13, <1>a, <1>b DEF StartBackfill, JobOK, Listed, Organized
  <1>14. ASSUME ListOrganizedScreenshots PROVE Goal
    <2>1. PICK order \in ByCreation :
              /\ batch' = [i \in DOMAIN Page(order) |->
                            [shot |-> Page(order)[i], content |-> content[Page(order)[i]]]]
              /\ offset' = offset + Len(Page(order))
              /\ job' = IF Page(order) = <<>> THEN "done" ELSE "embedding"
      BY <1>14 DEF ListOrganizedScreenshots
    <2>2. /\ offset' \in 0..Cardinality(Shots) /\ Len(Page(order)) \in Nat
          /\ Page(order) = <<>> <=> Len(Page(order)) = 0
      BY <2>1, PageFacts, EmptySeq DEF JobOK
    <2>3. /\ batch' \in Seq(Entry) /\ Len(batch') = Len(Page(order))
          /\ DOMAIN batch' = 1..Len(Page(order))
          /\ \A i \in 1..Len(Page(order)) : Page(order)[i] \in Organized /\ batch'[i].shot = Page(order)[i]
      BY <2>1, ListEffect
    <2>4. job' = "embedding" <=> batch' # <<>>
      BY <2>1, <2>2, <2>3, EmptySeq
    <2>5. JobOK'
      BY <1>14, <2>1, <2>2, <2>3 DEF ListOrganizedScreenshots, JobOK
    <2>6. Listed'
      BY <1>a, <2>3, <2>4 DEF Listed, Organized
    <2> QED
      BY <2>5, <2>6
  <1>15. ASSUME BackfillShot PROVE Goal
    <2>1. /\ batch' \in Seq(Entry) /\ job' \in {"listing", "embedding"}
          /\ job' = "embedding" <=> batch' # <<>>
          /\ \A i \in DOMAIN batch' : i + 1 \in DOMAIN batch /\ batch'[i] = batch[i + 1]
      BY <1>15, TailEffect
    <2>2. failed' \in BOOLEAN /\ UNCHANGED <<offset, owed>>
      BY <1>15 DEF BackfillShot, JobOK
    <2>3. JobOK'
      BY <2>1, <2>2 DEF JobOK
    <2>4. Listed'
      BY <1>a, <1>b, <2>1 DEF Listed
    <2> QED
      BY <2>3, <2>4
  <1>16. ASSUME UNCHANGED vars PROVE Goal
    BY <1>16, <1>c DEF vars
  <1> QED
    BY <1>1, <1>2, <1>3, <1>4, <1>5, <1>6, <1>7, <1>8, <1>9, <1>10, <1>11, <1>12, <1>13, <1>14,
       <1>15, <1>16
       DEF Next, Request, Execution, Backfill

(* A screenshot leaves the record of crowds when a run alone on it saves,   *)
(* and that of faults when a run saves, unless it turns out crowded.        *)
HistoryMoved ==
    /\ crowded' \subseteq Shots /\ behind' \subseteq Shots
    /\ \A s \in Shots : s \in crowded /\ s \notin crowded' =>
            \E r \in Runs : SaveMemory(r) /\ about[r] = s /\ Crowd(s) = 1
    /\ \A s \in Shots : s \in behind /\ s \notin crowded' \cup behind' =>
            \E r \in Runs : SaveMemory(r) /\ about[r] = s

(* Every step keeps the records as HistoryMoved allows.                     *)
LEMMA HistoryMoves ==
    ASSUME RowsOK, RunsOK, RecordOK, JobOK, Posted, Listed, [Next]_vars
    PROVE  HistoryMoved
  <1>a. UNCHANGED historyVars => HistoryMoved
    BY DEF HistoryMoved, historyVars, RecordOK
  <1>b. ASSUME NEW S \in SUBSET Shots, Arrive(S) PROVE HistoryMoved
    BY <1>b DEF HistoryMoved, Arrive, RecordOK
  <1>c. ASSUME NEW S \in SUBSET Shots, Interrupt(S) PROVE HistoryMoved
    BY <1>c DEF HistoryMoved, Interrupt, RecordOK
  <1>1. ASSUME NEW r \in Runs, NEW s \in Shots, UploadScreenshot(r, s) PROVE HistoryMoved
    BY <1>1, <1>b DEF UploadScreenshot, Post
  <1>2. ASSUME NEW r \in Runs, NEW s \in Shots, CreateAgentRun(r, s) PROVE HistoryMoved
    BY <1>2, <1>b DEF CreateAgentRun, Post
  <1>3. ASSUME NEW r \in Runs, NEW s \in Shots, RetryAgent(r, s) PROVE HistoryMoved
    BY <1>3, <1>b DEF RetryAgent, Post
  <1>4. ASSUME NEW r \in Runs, Enqueue(r) PROVE HistoryMoved
    BY <1>4, <1>a DEF Enqueue
  <1>5. ASSUME NEW r \in Runs, ReadShot(r) PROVE HistoryMoved
    BY <1>5, <1>a DEF ReadShot
  <1>6. ASSUME NEW r \in Runs, Recognize(r) PROVE HistoryMoved
    BY <1>6, <1>a DEF Recognize
  <1>7. ASSUME NEW r \in Runs, GenerateInsight(r) PROVE HistoryMoved
    BY <1>7, <1>a DEF GenerateInsight
  <1>8. ASSUME NEW r \in Runs, SaveMemory(r) PROVE HistoryMoved
    <2>1. MakeUp(about[r])
      BY <1>8 DEF SaveMemory
    <2>2. crowded' \subseteq Shots /\ behind' \subseteq Shots
      BY <2>1 DEF MakeUp, RecordOK
    <2>3. ASSUME NEW s \in Shots, s \in crowded, s \notin crowded'
          PROVE  about[r] = s /\ Crowd(s) = 1
      BY <2>1, <2>3 DEF MakeUp
    <2>4. ASSUME NEW s \in Shots, s \in behind, s \notin behind' PROVE about[r] = s
      BY <2>1, <2>4 DEF MakeUp
    <2> QED
      BY <1>8, <2>2, <2>3, <2>4 DEF HistoryMoved
  <1>9. ASSUME NEW r \in Runs, SaveFails(r) PROVE HistoryMoved
    <2>1. about[r] \in Shots
      BY <1>9 DEF SaveFails, Posted
    <2> QED
      BY <1>9, <2>1, <1>a, <1>c DEF SaveFails
  <1>10. ASSUME NEW r \in Runs, Embed(r) PROVE HistoryMoved
    <2>1. about[r] \in Shots
      BY <1>10 DEF Embed, Posted
    <2> QED
      BY <1>10, <2>1, <1>a, <1>c DEF Embed
  <1>11. ASSUME NEW r \in Runs, Settle(r) PROVE HistoryMoved
    BY <1>11, <1>a DEF Settle
  <1>12. ASSUME Crash PROVE HistoryMoved
    <2>1. {about[r] : r \in {q \in Runs : pc[q] = "embed"}} \in SUBSET Shots
      BY DEF Posted
    <2> QED
      BY <1>12, <2>1, <1>c DEF Crash
  <1>13. ASSUME StartBackfill PROVE HistoryMoved
    BY <1>13, <1>a DEF StartBackfill
  <1>14. ASSUME ListOrganizedScreenshots PROVE HistoryMoved
    <2>1. PICK order \in ByCreation : Arrive(ToSet(Page(order)))
      BY <1>14 DEF ListOrganizedScreenshots
    <2>2. ToSet(Page(order)) \in SUBSET Shots
      <3>1. /\ Page(order) \in Seq(Organized) /\ Len(Page(order)) \in Nat
            /\ DOMAIN Page(order) = 1..Len(Page(order))
        BY PageFacts DEF JobOK
      <3>2. \A i \in DOMAIN Page(order) : Page(order)[i] \in Organized
        BY <3>1, ElementOfSeq
      <3> QED
        BY <3>2 DEF ToSet, Organized
    <2> QED
      BY <2>1, <2>2, <1>b
  <1>15. ASSUME BackfillShot PROVE HistoryMoved
    BY <1>15, <1>a DEF BackfillShot
  <1>16. ASSUME UNCHANGED vars PROVE HistoryMoved
    BY <1>16, <1>a DEF vars
  <1> QED
    BY <1>1, <1>2, <1>3, <1>4, <1>5, <1>6, <1>7, <1>8, <1>9, <1>10, <1>11, <1>12, <1>13, <1>14,
       <1>15, <1>16
       DEF Next, Request, Execution, Backfill

(* The variables of rows, points, runs and the backfill stay in their types.*)
LEMMA TypedInvariant == Spec => []Typed
  <1>1. Init => Typed
    <2> SUFFICES ASSUME Init PROVE Typed
      OBVIOUS
    <2>1. MaxRounds \in Nat /\ MaxFaults \in Nat /\ Cardinality(Shots) \in Nat
      BY ScreenshotsAssumption, FS_CardinalityType
    <2>2. RowsOK
      BY ContentFacts DEF Init, RowsOK
    <2>3. RunsOK
      BY <2>1, ContentFacts DEF Init, RunsOK, Text
    <2>4. batch \in Seq(Entry) /\ batch = <<>> /\ DOMAIN batch = {}
      <3>1. <<>> \in Seq(Entry) /\ Len(<<>>) = 0
        BY EmptySeq
      <3> QED
        BY <3>1, LenProperties DEF Init
    <2>5. JobOK
      <3>1. offset \in 0..Cardinality(Shots)
        BY <2>1 DEF Init
      <3>2. /\ job \in {"ready", "listing", "embedding", "done"}
            /\ failed \in BOOLEAN /\ owed \subseteq Shots
        BY DEF Init
      <3> QED
        BY <2>4, <3>1, <3>2 DEF JobOK
    <2>6. RecordOK
      BY <2>1 DEF Init, RecordOK
    <2>7. Posted /\ Listed
      BY <2>4 DEF Init, Posted, Listed
    <2> QED
      BY <2>2, <2>3, <2>5, <2>6, <2>7, TypeParts DEF Typed
  <1>2. Typed /\ [Next]_vars => Typed'
    <2> SUFFICES ASSUME Typed, [Next]_vars PROVE Typed'
      OBVIOUS
    <2>1. RowsOK /\ RunsOK /\ JobOK /\ RecordOK /\ Posted /\ Listed
      BY TypeParts DEF Typed
    <2>2. RowsOK' /\ RunsOK' /\ faults' \in 0..MaxFaults /\ Posted'
      BY <2>1, RunsStep
    <2>3. JobOK' /\ Listed'
      BY <2>1, JobStep
    <2>4. crowded' \subseteq Shots /\ behind' \subseteq Shots
      BY <2>1, HistoryMoves DEF HistoryMoved
    <2>5. TypeOK'
      BY <2>2, <2>3, <2>4, TypePartsNext DEF RecordOK
    <2> QED
      BY <2>2, <2>3, <2>5 DEF Typed
  <1> QED
    BY <1>1, <1>2, PTL DEF Spec

(* Whoever uploads, executes, crashes and pages, the variables stay in      *)
(* their types; in particular the backfill never pages past the table.      *)
THEOREM TypeCorrect == Spec => []TypeOK
  <1>1. Typed => TypeOK
    BY DEF Typed
  <1> QED
    BY <1>1, TypedInvariant, PTL

-----------------------------------------------------------------------------
(* Only a run's own insight changes, to one that fits, or it is not saved.  *)
LEMMA FitFrame ==
    ASSUME FitInv, UNCHANGED <<rowVars, point, batch>>,
           \A q \in Runs : pc'[q] \in {"save", "embed"} =>
               Fits(local'[q]) \/ (pc[q] \in {"save", "embed"} /\ local'[q] = local[q])
    PROVE  FitInv'
  <1>1. \A q \in Runs : RunFits(q)'
    BY DEF FitInv, RunFits, Fits
  <1> QED
    BY <1>1 DEF FitInv, InsightFitsText, BatchFits, Fits, rowVars

(* ReadShot takes the text from the hint or the row, or ends the execution. *)
LEMMA ReadEffect ==
    ASSUME RowsOK, RunsOK, RecordOK, Posted, NEW r \in Runs, ReadShot(r)
    PROVE  /\ local' \in [Runs -> Content]
           /\ \A q \in Runs : q # r => pc'[q] = pc[q] /\ local'[q] = local[q]
           /\ \/ /\ local'[r].text = KnownText(r)
                 /\ pc'[r] = IF KnownText(r) = "blank" THEN "ocr" ELSE "llm"
              \/ pc'[r] \in {"queued", "dead"} /\ local'[r] = Nothing /\ faults' > faults
  <1>1. about[r] \in Shots /\ content[about[r]].text \in Text /\ hint[r] \in Text
    BY ContentFacts DEF ReadShot, Posted, RowsOK, RunsOK
  <1>2. KnownText(r) \in Text
    BY <1>1 DEF KnownText
  <1>3. CASE /\ local' = [local EXCEPT ![r].text = KnownText(r)]
             /\ Goto(r, IF KnownText(r) = "blank" THEN "ocr" ELSE "llm")
    <2>1. /\ local' \in [Runs -> Content] /\ local'[r].text = KnownText(r)
          /\ \A q \in Runs : q # r => local'[q] = local[q]
      BY <1>2, <1>3, TextEffect DEF RunsOK
    <2>2. /\ pc'[r] = IF KnownText(r) = "blank" THEN "ocr" ELSE "llm"
          /\ \A q \in Runs : q # r => pc'[q] = pc[q]
      BY <1>3 DEF Goto, RunsOK
    <2> QED
      BY <2>1, <2>2
  <1>4. CASE Fault /\ Abort(r, round[r] + 1) /\ faults' > faults
    BY <1>4, AbortEffect
  <1> QED
    BY <1>3, <1>4 DEF ReadShot, Fault, RecordOK

(* An insight that a run saves or embeds fits its text.                     *)
LEMMA SavedRowFits ==
    ASSUME RowsOK, Posted, FitInv, NEW r \in Runs, pc[r] = "save", SaveRow(r), UNCHANGED point
    PROVE  InsightFitsText'
  <1>1. about[r] \in Shots /\ Fits(local[r])
    BY DEF Posted, FitInv, RunFits
  <1>2. \A s \in Shots : /\ content'[s] = IF s = about[r] THEN local[r] ELSE content[s]
                         /\ s # about[r] => status'[s] = status[s]
    BY <1>1 DEF SaveRow, RowsOK
  <1> QED
    BY <1>1, <1>2 DEF FitInv, InsightFitsText, Fits

(* Every step keeps insights with the texts they were made from.            *)
LEMMA FitStep ==
    ASSUME Typed, FitInv, [Next]_vars
    PROVE  FitInv'
  <1>0. RowsOK /\ RunsOK /\ RecordOK /\ JobOK /\ Posted /\ Listed
    BY TypeParts DEF Typed
  <1> DEFINE Keeps == \A q \in Runs : pc'[q] \in {"save", "embed"} =>
                         Fits(local'[q]) \/ (pc[q] \in {"save", "embed"} /\ local'[q] = local[q])
  <1>1. ASSUME NEW r \in Runs, NEW s \in Shots, UploadScreenshot(r, s) PROVE FitInv'
    <2>1. PICK h \in Hints[s] : Post(r, s, h) /\ content' = [content EXCEPT ![s].text = h]
      BY <1>1 DEF UploadScreenshot
    <2>2. /\ status' = [status EXCEPT ![s] = "uploaded"] /\ UNCHANGED <<local, point, batch>>
          /\ pc' = [pc EXCEPT ![r] = "posted"]
      BY <1>1, <2>1 DEF UploadScreenshot, Post, Goto, jobVars
    <2>3. \A q \in Shots : q # s => status'[q] = status[q] /\ content'[q] = content[q]
      BY <1>0, <2>1, <2>2 DEF RowsOK
    <2>4. status'[s] = "uploaded"
      BY <1>0, <2>2 DEF RowsOK
    <2>5. InsightFitsText'
      BY <2>2, <2>3, <2>4 DEF FitInv, InsightFitsText
    <2>6. \A q \in Runs : RunFits(q)'
      BY <1>0, <2>2 DEF FitInv, RunFits, Fits, RunsOK
    <2>7. BatchFits'
      BY <2>2 DEF FitInv, BatchFits, Fits
    <2> QED
      BY <2>5, <2>6, <2>7 DEF FitInv
  <1>2. ASSUME NEW r \in Runs, NEW s \in Shots, CreateAgentRun(r, s) PROVE FitInv'
    <2>1. UNCHANGED <<rowVars, point, batch>> /\ Keeps
      BY <1>0, <1>2 DEF CreateAgentRun, Post, Goto, jobVars, RunsOK
    <2> QED
      BY <2>1, FitFrame
  <1>3. ASSUME NEW r \in Runs, NEW s \in Shots, RetryAgent(r, s) PROVE FitInv'
    <2>1. UNCHANGED <<rowVars, point, batch>> /\ Keeps
      BY <1>0, <1>3 DEF RetryAgent, Post, Goto, jobVars, RunsOK
    <2> QED
      BY <2>1, FitFrame
  <1>4. ASSUME NEW r \in Runs, Enqueue(r) PROVE FitInv'
    <2>1. UNCHANGED <<rowVars, point, batch>> /\ Keeps
      BY <1>0, <1>4 DEF Enqueue, Goto, jobVars, RunsOK
    <2> QED
      BY <2>1, FitFrame
  <1>5. ASSUME NEW r \in Runs, ReadShot(r) PROVE FitInv'
    <2>1. UNCHANGED <<rowVars, point, batch>>
      BY <1>5 DEF ReadShot, jobVars
    <2>2. pc'[r] \notin {"save", "embed"} /\ \A q \in Runs : q # r => pc'[q] = pc[q] /\ local'[q] = local[q]
      BY <1>0, <1>5, ReadEffect
    <2> QED
      BY <2>1, <2>2, FitFrame
  <1>6. ASSUME NEW r \in Runs, Recognize(r) PROVE FitInv'
    <2>1. UNCHANGED <<rowVars, point, batch>> /\ pc' = [pc EXCEPT ![r] = "llm"]
      BY <1>6 DEF Recognize, Goto, jobVars
    <2>2. PICK t \in Text : local' = [local EXCEPT ![r].text = t]
      BY <1>6 DEF Recognize, Extract, Text
    <2>3. \A q \in Runs : q # r => local'[q] = local[q]
      BY <1>0, <2>2, TextEffect DEF RunsOK
    <2>4. Keeps
      BY <1>0, <2>1, <2>3 DEF RunsOK
    <2> QED
      BY <2>1, <2>4, FitFrame
  <1>7. ASSUME NEW r \in Runs, GenerateInsight(r) PROVE FitInv'
    <2>1. UNCHANGED <<rowVars, point, batch>> /\ pc' = [pc EXCEPT ![r] = "save"]
      BY <1>7 DEF GenerateInsight, Goto, jobVars
    <2>2. Fits(local'[r]) /\ \A q \in Runs : q # r => local'[q] = local[q]
      BY <1>0, <1>7, GeneratedEffect DEF Fits
    <2>3. Keeps
      BY <1>0, <2>1, <2>2 DEF RunsOK
    <2> QED
      BY <2>1, <2>3, FitFrame
  <1>8. ASSUME NEW r \in Runs, SaveMemory(r) PROVE FitInv'
    <2>1. /\ pc[r] = "save" /\ SaveRow(r) /\ pc' = [pc EXCEPT ![r] = "embed"]
          /\ UNCHANGED <<point, local, batch>>
      BY <1>8 DEF SaveMemory, Goto, jobVars
    <2>2. InsightFitsText'
      BY <1>0, <2>1, SavedRowFits
    <2>3. \A q \in Runs : RunFits(q)'
      BY <1>0, <2>1 DEF FitInv, RunFits, Fits, RunsOK
    <2>4. BatchFits'
      BY <2>1 DEF FitInv, BatchFits, Fits
    <2> QED
      BY <2>2, <2>3, <2>4 DEF FitInv
  <1>9. ASSUME NEW r \in Runs, SaveFails(r) PROVE FitInv'
    <2>1. pc[r] = "save" /\ (SaveRow(r) \/ UNCHANGED rowVars) /\ UNCHANGED <<point, batch>>
      BY <1>9 DEF SaveFails, jobVars
    <2>2. InsightFitsText'
      BY <1>0, <2>1, SavedRowFits DEF FitInv, InsightFitsText, rowVars
    <2>3. \A q \in Runs : RunFits(q)'
      <3>1. CASE UNCHANGED <<pc, local>>
        BY <3>1 DEF FitInv, RunFits, Fits
      <3>2. CASE Abort(r, round[r])
        BY <1>0, <3>2, AbortEffect DEF FitInv, RunFits, Fits
      <3> QED
        BY <1>9, <3>1, <3>2 DEF SaveFails
    <2>4. BatchFits'
      BY <2>1 DEF FitInv, BatchFits, Fits
    <2> QED
      BY <2>2, <2>3, <2>4 DEF FitInv
  <1>10. ASSUME NEW r \in Runs, Embed(r) PROVE FitInv'
    <2>1. /\ pc[r] = "embed" /\ pc' = [pc EXCEPT ![r] = "ended"]
          /\ UNCHANGED <<rowVars, local, batch>>
          /\ point' = [point EXCEPT ![about[r]] = local[r]] \/ UNCHANGED point
      BY <1>10 DEF Embed, Goto, Upsert, EmbeddingInput, jobVars
    <2>2. InsightFitsText'
      BY <1>0, <2>1 DEF FitInv, InsightFitsText, RunFits, Fits, RowsOK, rowVars
    <2>3. \A q \in Runs : RunFits(q)'
      BY <1>0, <2>1 DEF FitInv, RunFits, Fits, RunsOK
    <2>4. BatchFits'
      BY <2>1 DEF FitInv, BatchFits, Fits
    <2> QED
      BY <2>2, <2>3, <2>4 DEF FitInv
  <1>11. ASSUME NEW r \in Runs, Settle(r) PROVE FitInv'
    <2>1. UNCHANGED <<rowVars, point, batch>> /\ Keeps
      BY <1>0, <1>11 DEF Settle, Forget, Goto, jobVars, RunsOK
    <2> QED
      BY <2>1, FitFrame
  <1>12. ASSUME Crash PROVE FitInv'
    <2>1. UNCHANGED <<rowVars, point, batch>> /\ \A q \in Runs : pc'[q] \notin {"save", "embed"}
      BY <1>0, <1>12 DEF Crash, jobVars, Working, RunsOK
    <2> QED
      BY <2>1, FitFrame
  <1>13. ASSUME StartBackfill PROVE FitInv'
    <2>1. UNCHANGED <<rowVars, point, batch>> /\ UNCHANGED <<pc, local>>
      BY <1>13 DEF StartBackfill, runVars
    <2> QED
      BY <2>1, FitFrame
  <1>14. ASSUME ListOrganizedScreenshots PROVE FitInv'
    <2>1. PICK order \in ByCreation :
              batch' = [i \in DOMAIN Page(order) |->
                            [shot |-> Page(order)[i], content |-> content[Page(order)[i]]]]
      BY <1>14 DEF ListOrganizedScreenshots
    <2>2. /\ DOMAIN batch' = 1..Len(Page(order))
          /\ \A i \in 1..Len(Page(order)) : Page(order)[i] \in Organized
                                            /\ batch'[i].content = content[Page(order)[i]]
      BY <1>0, <2>1, ListEffect
    <2>3. BatchFits'
      BY <2>2 DEF FitInv, InsightFitsText, BatchFits, Fits, Organized
    <2>4. InsightFitsText' /\ \A q \in Runs : RunFits(q)'
      BY <1>14 DEF ListOrganizedScreenshots, FitInv, InsightFitsText, RunFits, Fits, rowVars,
         runVars
    <2> QED
      BY <2>3, <2>4 DEF FitInv
  <1>15. ASSUME BackfillShot PROVE FitInv'
    <2>1. /\ Head(batch) = batch[1] /\ 1 \in DOMAIN batch
          /\ \A i \in DOMAIN batch' : i + 1 \in DOMAIN batch /\ batch'[i] = batch[i + 1]
      BY <1>0, <1>15, TailEffect
    <2>2. /\ UNCHANGED <<rowVars, pc, local>>
          /\ point' = [point EXCEPT ![batch[1].shot] = batch[1].content] \/ UNCHANGED point
      BY <1>15, <2>1 DEF BackfillShot, Upsert, runVars
    <2>3. Fits(batch[1].content)
      BY <2>1 DEF FitInv, BatchFits
    <2>4. InsightFitsText'
      BY <1>0, <2>2, <2>3 DEF FitInv, InsightFitsText, Fits, RowsOK, rowVars
    <2>5. BatchFits'
      BY <2>1 DEF FitInv, BatchFits, Fits
    <2>6. \A q \in Runs : RunFits(q)'
      BY <2>2 DEF FitInv, RunFits, Fits
    <2> QED
      BY <2>4, <2>5, <2>6 DEF FitInv
  <1>16. ASSUME UNCHANGED vars PROVE FitInv'
    <2>1. UNCHANGED <<rowVars, point, batch>> /\ UNCHANGED <<pc, local>>
      BY <1>16 DEF vars, jobVars, runVars
    <2> QED
      BY <2>1, FitFrame
  <1> QED
    BY <1>1, <1>2, <1>3, <1>4, <1>5, <1>6, <1>7, <1>8, <1>9, <1>10, <1>11, <1>12, <1>13, <1>14,
       <1>15, <1>16
       DEF Next, Request, Execution, Backfill

(* Whatever runs on a screenshot, its row and its point show no insight     *)
(* beside a text that it was not made from.                                 *)
THEOREM InsightsFitTexts == Spec => []InsightFitsText
  <1>1. Init => FitInv
    <2> SUFFICES ASSUME Init PROVE FitInv
      OBVIOUS
    <2>1. DOMAIN batch = {}
      <3>1. <<>> \in Seq(Entry) /\ Len(<<>>) = 0
        BY EmptySeq
      <3> QED
        BY <3>1, LenProperties DEF Init
    <2> QED
      BY <2>1, ContentFacts DEF Init, FitInv, InsightFitsText, RunFits, BatchFits, Fits
  <1>2. Typed /\ FitInv /\ [Next]_vars => FitInv'
    BY FitStep
  <1>3. FitInv => InsightFitsText
    BY DEF FitInv
  <1> QED
    BY <1>1, <1>2, <1>3, TypedInvariant, PTL DEF Spec

-----------------------------------------------------------------------------
(* Who changes what: a row, a run's way to its embedding, the batch, a      *)
(* point, a retry.                                                          *)

SavedBy(s) == \E r \in Runs : pc[r] = "save" /\ about[r] = s /\ content'[s] = local[r]

RowWritten ==
    \A s \in Shots :
        /\ content'[s] # content[s] =>
            SavedBy(s) \/ (status[s] = "none" /\ content'[s].text # "fallback")
        /\ status'[s] = "organized" => SavedBy(s) \/ status[s] = "organized"

(* Every step writes rows in one of the ways that RowWritten allows.        *)
LEMMA WhoWrites ==
    ASSUME Typed, [Next]_vars
    PROVE  RowWritten
  <1>0. RowsOK /\ RunsOK /\ RecordOK /\ JobOK /\ Posted /\ Listed
    BY TypeParts DEF Typed
  <1>a. UNCHANGED <<status, content>> => RowWritten
    BY DEF RowWritten, rowVars
  <1>1. ASSUME NEW r \in Runs, NEW s \in Shots, UploadScreenshot(r, s) PROVE RowWritten
    <2>1. PICK h \in Hints[s] : content' = [content EXCEPT ![s].text = h]
      BY <1>1 DEF UploadScreenshot
    <2>2. h \in Text /\ h # "fallback"
      BY ScreenshotsAssumption DEF Text
    <2>3. content'[s].text = h /\ \A q \in Shots : q # s => content'[q] = content[q]
      BY <1>0, <2>1, <2>2, TextEffect DEF RowsOK
    <2>4. /\ status[s] = "none" /\ status'[s] = "uploaded"
          /\ \A q \in Shots : q # s => status'[q] = status[q]
      BY <1>0, <1>1 DEF UploadScreenshot, RowsOK
    <2> QED
      BY <2>2, <2>3, <2>4 DEF RowWritten
  <1>2. ASSUME NEW r \in Runs, NEW s \in Shots, CreateAgentRun(r, s) PROVE RowWritten
    BY <1>2, <1>a DEF CreateAgentRun, Post, Goto, rowVars
  <1>3. ASSUME NEW r \in Runs, NEW s \in Shots, RetryAgent(r, s) PROVE RowWritten
    BY <1>3, <1>a DEF RetryAgent, Post, Goto, rowVars
  <1>4. ASSUME NEW r \in Runs, Enqueue(r) PROVE RowWritten
    BY <1>4, <1>a DEF Enqueue, Goto, rowVars
  <1>5. ASSUME NEW r \in Runs, ReadShot(r) PROVE RowWritten
    BY <1>5, <1>a DEF ReadShot, Goto, rowVars
  <1>6. ASSUME NEW r \in Runs, Recognize(r) PROVE RowWritten
    BY <1>6, <1>a DEF Recognize, Goto, rowVars
  <1>7. ASSUME NEW r \in Runs, GenerateInsight(r) PROVE RowWritten
    BY <1>7, <1>a DEF GenerateInsight, Goto, rowVars
  <1>8. ASSUME NEW r \in Runs, SaveMemory(r) PROVE RowWritten
    BY <1>0, <1>8 DEF SaveMemory, SaveRow, RowWritten, SavedBy, RowsOK, RunsOK, Posted
  <1>9. ASSUME NEW r \in Runs, SaveFails(r) PROVE RowWritten
    BY <1>0, <1>9 DEF SaveFails, SaveRow, RowWritten, SavedBy, RowsOK, RunsOK, Posted, rowVars
  <1>10. ASSUME NEW r \in Runs, Embed(r) PROVE RowWritten
    BY <1>10, <1>a DEF Embed, Goto, rowVars
  <1>11. ASSUME NEW r \in Runs, Settle(r) PROVE RowWritten
    BY <1>11, <1>a DEF Settle, Goto, rowVars
  <1>12. ASSUME Crash PROVE RowWritten
    BY <1>12, <1>a DEF Crash, rowVars
  <1>13. ASSUME StartBackfill PROVE RowWritten
    BY <1>13, <1>a DEF StartBackfill, rowVars
  <1>14. ASSUME ListOrganizedScreenshots PROVE RowWritten
    BY <1>14, <1>a DEF ListOrganizedScreenshots, rowVars
  <1>15. ASSUME BackfillShot PROVE RowWritten
    BY <1>15, <1>a DEF BackfillShot, rowVars
  <1>16. ASSUME UNCHANGED vars PROVE RowWritten
    BY <1>16, <1>a DEF vars, rowVars
  <1> QED
    BY <1>1, <1>2, <1>3, <1>4, <1>5, <1>6, <1>7, <1>8, <1>9, <1>10, <1>11, <1>12, <1>13, <1>14,
       <1>15, <1>16
       DEF Next, Request, Execution, Backfill

(* A run keeps its screenshot, and embeds what it has just saved, unless a  *)
(* fault meets it there.                                                    *)
RunMoved(r) ==
    /\ pc[r] # "unused" => about'[r] = about[r]
    /\ pc'[r] = "embed" =>
        /\ local'[r] = local[r]
        /\ pc[r] = "embed" \/ (pc[r] = "save" /\ content'[about[r]] = local[r])
    /\ pc[r] = "embed" =>
        \/ pc'[r] = "embed" \/ point'[about[r]] = local[r]
        \/ about[r] \in crowded' \cup behind'

(* Every step moves each run as RunMoved allows.                            *)
LEMMA RunsMove ==
    ASSUME Typed, [Next]_vars
    PROVE  \A r \in Runs : RunMoved(r)
  <1>0. RowsOK /\ RunsOK /\ RecordOK /\ JobOK /\ Posted /\ Listed
    BY TypeParts DEF Typed
  <1> DEFINE Same(q) == pc'[q] = pc[q] /\ local'[q] = local[q] /\ about'[q] = about[q]
             Goal == \A q \in Runs : RunMoved(q)
  <1>a. ASSUME NEW r \in Runs, RunMoved(r), \A q \in Runs : q # r => Same(q) PROVE Goal
    BY <1>a DEF RunMoved
  <1>b. (\A q \in Runs : Same(q)) => Goal
    BY DEF RunMoved
  <1> HIDE DEF Goal
  <1>1. ASSUME NEW r \in Runs, NEW s \in Shots, UploadScreenshot(r, s) PROVE Goal
    <2>1. PICK h \in Hints[s] : Post(r, s, h)
      BY <1>1 DEF UploadScreenshot
    <2>2. RunMoved(r) /\ \A q \in Runs : q # r => Same(q)
      BY <1>0, <2>1 DEF Post, Goto, RunMoved, RunsOK
    <2> QED
      BY <2>2, <1>a
  <1>2. ASSUME NEW r \in Runs, NEW s \in Shots, CreateAgentRun(r, s) PROVE Goal
    <2>1. RunMoved(r) /\ \A q \in Runs : q # r => Same(q)
      BY <1>0, <1>2 DEF CreateAgentRun, Post, Goto, RunMoved, RunsOK, RowsOK, Posted
    <2> QED
      BY <2>1, <1>a
  <1>3. ASSUME NEW r \in Runs, NEW s \in Shots, RetryAgent(r, s) PROVE Goal
    <2>1. RunMoved(r) /\ \A q \in Runs : q # r => Same(q)
      BY <1>0, <1>3 DEF RetryAgent, Post, Goto, RunMoved, RunsOK, RowsOK, Posted
    <2> QED
      BY <2>1, <1>a
  <1>4. ASSUME NEW r \in Runs, Enqueue(r) PROVE Goal
    <2>1. RunMoved(r) /\ \A q \in Runs : q # r => Same(q)
      BY <1>0, <1>4 DEF Enqueue, Goto, RunMoved, RunsOK, RowsOK, Posted
    <2> QED
      BY <2>1, <1>a
  <1>5. ASSUME NEW r \in Runs, ReadShot(r) PROVE Goal
    <2>1. /\ \A q \in Runs : q # r => pc'[q] = pc[q] /\ local'[q] = local[q]
          /\ pc'[r] # "embed" /\ pc[r] = "queued" /\ about' = about
      BY <1>0, <1>5, ReadEffect DEF ReadShot
    <2> QED
      BY <2>1, <1>a DEF RunMoved
  <1>6. ASSUME NEW r \in Runs, Recognize(r) PROVE Goal
    <2>1. PICK t \in Text : local' = [local EXCEPT ![r].text = t]
      BY <1>6 DEF Recognize, Extract, Text
    <2>2. \A q \in Runs : q # r => local'[q] = local[q]
      BY <1>0, <2>1, TextEffect DEF RunsOK
    <2>3. RunMoved(r) /\ \A q \in Runs : q # r => Same(q)
      BY <1>0, <1>6, <2>2 DEF Recognize, Goto, RunMoved, RunsOK
    <2> QED
      BY <2>3, <1>a
  <1>7. ASSUME NEW r \in Runs, GenerateInsight(r) PROVE Goal
    <2>1. \A q \in Runs : q # r => local'[q] = local[q]
      BY <1>0, <1>7, GeneratedEffect
    <2>2. RunMoved(r) /\ \A q \in Runs : q # r => Same(q)
      BY <1>0, <1>7, <2>1 DEF GenerateInsight, Goto, RunMoved, RunsOK
    <2> QED
      BY <2>2, <1>a
  <1>8. ASSUME NEW r \in Runs, SaveMemory(r) PROVE Goal
    <2>1. RunMoved(r) /\ \A q \in Runs : q # r => Same(q)
      BY <1>0, <1>8 DEF SaveMemory, SaveRow, Goto, RunMoved, RunsOK, RowsOK, Posted
    <2> QED
      BY <2>1, <1>a
  <1>9. ASSUME NEW r \in Runs, SaveFails(r) PROVE Goal
    <2>1. pc[r] = "save" /\ about' = about
      BY <1>9 DEF SaveFails
    <2>2. CASE UNCHANGED <<pc, local>>
      BY <2>1, <2>2, <1>b
    <2>3. CASE Abort(r, round[r])
      BY <1>0, <2>1, <2>3, <1>a, AbortEffect DEF RunMoved
    <2> QED
      BY <1>9, <2>2, <2>3 DEF SaveFails
  <1>10. ASSUME NEW r \in Runs, Embed(r) PROVE Goal
    <2>1. RunMoved(r) /\ \A q \in Runs : q # r => Same(q)
      BY <1>0, <1>10 DEF Embed, Upsert, EmbeddingInput, Goto, Interrupt, RunMoved, RunsOK,
         RowsOK, Posted
    <2> QED
      BY <2>1, <1>a
  <1>11. ASSUME NEW r \in Runs, Settle(r) PROVE Goal
    <2>1. RunMoved(r) /\ \A q \in Runs : q # r => Same(q)
      BY <1>0, <1>11 DEF Settle, Forget, Goto, RunMoved, RunsOK, RowsOK, Posted
    <2> QED
      BY <2>1, <1>a
  <1>12. ASSUME Crash PROVE Goal
    <2>1. \A q \in Runs : pc'[q] # "embed" /\ about'[q] = about[q]
      BY <1>0, <1>12 DEF Crash, Working, RunsOK
    <2>2. \A q \in Runs : pc[q] = "embed" => about[q] \in crowded' \cup behind'
      BY <1>12 DEF Crash, Interrupt
    <2> QED
      BY <2>1, <2>2 DEF RunMoved, Goal
  <1>13. ASSUME StartBackfill PROVE Goal
    BY <1>13, <1>b DEF StartBackfill, runVars
  <1>14. ASSUME ListOrganizedScreenshots PROVE Goal
    BY <1>14, <1>b DEF ListOrganizedScreenshots, runVars
  <1>15. ASSUME BackfillShot PROVE Goal
    BY <1>15, <1>b DEF BackfillShot, runVars
  <1>16. ASSUME UNCHANGED vars PROVE Goal
    BY <1>16, <1>b DEF vars, runVars
  <1> QED
    BY <1>1, <1>2, <1>3, <1>4, <1>5, <1>6, <1>7, <1>8, <1>9, <1>10, <1>11, <1>12, <1>13, <1>14,
       <1>15, <1>16
       DEF Goal, Next, Request, Execution, Backfill

(* The batch holds entries that it held, or rows as they are.               *)
BatchMoved ==
    \A i \in DOMAIN batch' :
        \/ \E k \in DOMAIN batch : batch'[i] = batch[k]
        \/ /\ batch'[i].shot \in Organized /\ batch'[i].content = content[batch'[i].shot]
           /\ content' = content

(* Every step moves the page that backfill works on as BatchMoved allows.   *)
LEMMA BatchMoves ==
    ASSUME Typed, [Next]_vars
    PROVE  BatchMoved
  <1>0. RowsOK /\ RunsOK /\ RecordOK /\ JobOK /\ Posted /\ Listed
    BY TypeParts DEF Typed
  <1>a. batch' = batch => BatchMoved
    BY DEF BatchMoved
  <1>1. ASSUME NEW r \in Runs, NEW s \in Shots, UploadScreenshot(r, s) PROVE BatchMoved
    BY <1>1, <1>a DEF UploadScreenshot, Post, jobVars
  <1>2. ASSUME NEW r \in Runs, NEW s \in Shots, CreateAgentRun(r, s) PROVE BatchMoved
    BY <1>2, <1>a DEF CreateAgentRun, Post, jobVars
  <1>3. ASSUME NEW r \in Runs, NEW s \in Shots, RetryAgent(r, s) PROVE BatchMoved
    BY <1>3, <1>a DEF RetryAgent, Post, jobVars
  <1>4. ASSUME NEW r \in Runs, Enqueue(r) PROVE BatchMoved
    BY <1>4, <1>a DEF Enqueue, Goto, jobVars
  <1>5. ASSUME NEW r \in Runs, ReadShot(r) PROVE BatchMoved
    BY <1>5, <1>a DEF ReadShot, Goto, jobVars
  <1>6. ASSUME NEW r \in Runs, Recognize(r) PROVE BatchMoved
    BY <1>6, <1>a DEF Recognize, Goto, jobVars
  <1>7. ASSUME NEW r \in Runs, GenerateInsight(r) PROVE BatchMoved
    BY <1>7, <1>a DEF GenerateInsight, Goto, jobVars
  <1>8. ASSUME NEW r \in Runs, SaveMemory(r) PROVE BatchMoved
    BY <1>8, <1>a DEF SaveMemory, Goto, jobVars
  <1>9. ASSUME NEW r \in Runs, SaveFails(r) PROVE BatchMoved
    BY <1>9, <1>a DEF SaveFails, Goto, jobVars
  <1>10. ASSUME NEW r \in Runs, Embed(r) PROVE BatchMoved
    BY <1>10, <1>a DEF Embed, Goto, jobVars
  <1>11. ASSUME NEW r \in Runs, Settle(r) PROVE BatchMoved
    BY <1>11, <1>a DEF Settle, Goto, jobVars
  <1>12. ASSUME Crash PROVE BatchMoved
    BY <1>12, <1>a DEF Crash, jobVars
  <1>13. ASSUME StartBackfill PROVE BatchMoved
    BY <1>13, <1>a DEF StartBackfill, jobVars
  <1>14. ASSUME ListOrganizedScreenshots PROVE BatchMoved
    <2>1. PICK order \in ByCreation :
              batch' = [i \in DOMAIN Page(order) |->
                            [shot |-> Page(order)[i], content |-> content[Page(order)[i]]]]
      BY <1>14 DEF ListOrganizedScreenshots
    <2>2. /\ DOMAIN batch' = 1..Len(Page(order))
          /\ \A i \in 1..Len(Page(order)) :
                /\ Page(order)[i] \in Organized
                /\ batch'[i].shot = Page(order)[i] /\ batch'[i].content = content[Page(order)[i]]
      BY <1>0, <2>1, ListEffect
    <2> QED
      BY <1>14, <2>2 DEF ListOrganizedScreenshots, BatchMoved, rowVars
  <1>15. ASSUME BackfillShot PROVE BatchMoved
    BY <1>0, <1>15, TailEffect DEF BatchMoved
  <1>16. ASSUME UNCHANGED vars PROVE BatchMoved
    BY <1>16, <1>a DEF vars, jobVars
  <1> QED
    BY <1>1, <1>2, <1>3, <1>4, <1>5, <1>6, <1>7, <1>8, <1>9, <1>10, <1>11, <1>12, <1>13, <1>14,
       <1>15, <1>16
       DEF Next, Request, Execution, Backfill

(* A point is written by a run at its embedding or by the backfill.         *)
PointWritten ==
    \A s \in Shots : point'[s] # point[s] =>
        \/ \E r \in Runs : pc[r] = "embed" /\ about[r] = s /\ point'[s] = local[r]
        \/ \E i \in DOMAIN batch : batch[i].shot = s /\ point'[s] = batch[i].content

(* Every step writes points in one of the ways that PointWritten allows.    *)
LEMMA WhoPoints ==
    ASSUME Typed, [Next]_vars
    PROVE  PointWritten
  <1>0. RowsOK /\ RunsOK /\ RecordOK /\ JobOK /\ Posted /\ Listed
    BY TypeParts DEF Typed
  <1>a. point' = point => PointWritten
    BY DEF PointWritten
  <1>1. ASSUME NEW r \in Runs, NEW s \in Shots, UploadScreenshot(r, s) PROVE PointWritten
    BY <1>1, <1>a DEF UploadScreenshot, Post
  <1>2. ASSUME NEW r \in Runs, NEW s \in Shots, CreateAgentRun(r, s) PROVE PointWritten
    BY <1>2, <1>a DEF CreateAgentRun, Post
  <1>3. ASSUME NEW r \in Runs, NEW s \in Shots, RetryAgent(r, s) PROVE PointWritten
    BY <1>3, <1>a DEF RetryAgent, Post
  <1>4. ASSUME NEW r \in Runs, Enqueue(r) PROVE PointWritten
    BY <1>4, <1>a DEF Enqueue, Goto
  <1>5. ASSUME NEW r \in Runs, ReadShot(r) PROVE PointWritten
    BY <1>5, <1>a DEF ReadShot, Goto
  <1>6. ASSUME NEW r \in Runs, Recognize(r) PROVE PointWritten
    BY <1>6, <1>a DEF Recognize, Goto
  <1>7. ASSUME NEW r \in Runs, GenerateInsight(r) PROVE PointWritten
    BY <1>7, <1>a DEF GenerateInsight, Goto
  <1>8. ASSUME NEW r \in Runs, SaveMemory(r) PROVE PointWritten
    BY <1>8, <1>a DEF SaveMemory, Goto
  <1>9. ASSUME NEW r \in Runs, SaveFails(r) PROVE PointWritten
    BY <1>9, <1>a DEF SaveFails, Goto
  <1>10. ASSUME NEW r \in Runs, Embed(r) PROVE PointWritten
    BY <1>0, <1>10 DEF Embed, Upsert, EmbeddingInput, PointWritten, RowsOK
  <1>11. ASSUME NEW r \in Runs, Settle(r) PROVE PointWritten
    BY <1>11, <1>a DEF Settle, Goto
  <1>12. ASSUME Crash PROVE PointWritten
    BY <1>12, <1>a DEF Crash
  <1>13. ASSUME StartBackfill PROVE PointWritten
    BY <1>13, <1>a DEF StartBackfill
  <1>14. ASSUME ListOrganizedScreenshots PROVE PointWritten
    BY <1>14, <1>a DEF ListOrganizedScreenshots
  <1>15. ASSUME BackfillShot PROVE PointWritten
    <2>1. Head(batch) = batch[1] /\ 1 \in DOMAIN batch
      BY <1>0, <1>15, TailEffect
    <2>2. point' = [point EXCEPT ![batch[1].shot] = batch[1].content] \/ point' = point
      BY <1>15, <2>1 DEF BackfillShot, Upsert
    <2> QED
      BY <1>0, <2>1, <2>2 DEF PointWritten, RowsOK
  <1>16. ASSUME UNCHANGED vars PROVE PointWritten
    BY <1>16, <1>a DEF vars
  <1> QED
    BY <1>1, <1>2, <1>3, <1>4, <1>5, <1>6, <1>7, <1>8, <1>9, <1>10, <1>11, <1>12, <1>13, <1>14,
       <1>15, <1>16
       DEF Next, Request, Execution, Backfill

-----------------------------------------------------------------------------
(* Two runs under way on a screenshot make a crowd, and so do a run and the *)
(* backfill.                                                                *)
LEMMA CrowdOfRuns ==
    ASSUME NEW s \in Shots, NEW r \in Activities(s)
    PROVE  /\ \A q \in Activities(s) : q # r => Crowd(s) > 1
           /\ HeldByBackfill(s) => Crowd(s) > 1
           /\ Crowd(s) # 0
  <1>1. Activities(s) \subseteq Runs /\ IsFiniteSet(Activities(s))
    BY ScreenshotsAssumption, FS_Subset DEF Activities
  <1>2. Cardinality(Activities(s)) \in Nat
    BY <1>1, FS_CardinalityType
  <1>3. Cardinality(Activities(s)) # 0
    BY <1>1, FS_EmptySet
  <1>4. ASSUME NEW q \in Activities(s), q # r PROVE Cardinality(Activities(s)) # 1
    BY <1>1, <1>4, FS_Singleton
  <1>5. /\ Crowd(s) >= Cardinality(Activities(s))
        /\ HeldByBackfill(s) => Crowd(s) = Cardinality(Activities(s)) + 1
    BY <1>2 DEF Crowd
  <1>6. Crowd(s) \in Nat
    BY <1>2 DEF Crowd
  <1> QED
    BY <1>2, <1>3, <1>4, <1>5, <1>6

(* Off the record, a run under way is alone on its screenshot.              *)
LEMMA Alone ==
    ASSUME CrowdsAreNoted, Posted,
           NEW r \in Runs, pc[r] \in UnderWay, about[r] \notin crowded
    PROVE  /\ \A q \in Runs : q # r /\ pc[q] \in UnderWay => about[q] # about[r]
           /\ \A i \in DOMAIN batch : batch[i].shot # about[r]
  <1>1. about[r] \in Shots /\ r \in Activities(about[r])
    BY DEF Posted, UnderWay, Working, Activities
  <1>2. Crowd(about[r]) > 1 => about[r] \in crowded
    BY <1>1 DEF CrowdsAreNoted
  <1>3. ASSUME NEW q \in Runs, q # r, pc[q] \in UnderWay, about[q] = about[r] PROVE FALSE
    <2>1. q \in Activities(about[r])
      BY <1>3 DEF Activities
    <2> QED
      BY <1>1, <1>2, <1>3, <2>1, CrowdOfRuns
  <1>4. ASSUME NEW i \in DOMAIN batch, batch[i].shot = about[r] PROVE FALSE
    <2>1. HeldByBackfill(about[r])
      BY <1>4 DEF HeldByBackfill
    <2> QED
      BY <1>1, <1>2, <2>1, CrowdOfRuns
  <1> QED
    BY <1>3, <1>4

(* A crowd is made of numbers.                                              *)
LEMMA CrowdType ==
    ASSUME NEW s \in Shots
    PROVE  Crowd(s) \in Nat /\ Cardinality(Activities(s)) \in Nat /\ IsFiniteSet(Activities(s))
  <1>1. IsFiniteSet(Activities(s))
    BY ScreenshotsAssumption, FS_Subset DEF Activities
  <1>2. Cardinality(Activities(s)) \in Nat
    BY <1>1, FS_CardinalityType
  <1> QED
    BY <1>1, <1>2 DEF Crowd

(* A crowd does not grow while no activity begins.                          *)
LEMMA CrowdShrinks ==
    ASSUME NEW s \in Shots, Activities(s)' \subseteq Activities(s),
           HeldByBackfill(s)' => HeldByBackfill(s)
    PROVE  Crowd(s)' \in Nat /\ Crowd(s)' <= Crowd(s)
  <1>1. IsFiniteSet(Activities(s)) /\ Cardinality(Activities(s)) \in Nat
    BY CrowdType
  <1>2. Cardinality(Activities(s)') \in Nat /\ Cardinality(Activities(s)') <= Cardinality(Activities(s))
    BY <1>1, FS_Subset, FS_CardinalityType
  <1> QED
    BY <1>1, <1>2 DEF Crowd

(* A run that begins adds one to its screenshot's crowd.                    *)
LEMMA CrowdOfPost ==
    ASSUME NEW s \in Shots, NEW r \in Runs, Activities(s)' \subseteq Activities(s) \cup {r},
           HeldByBackfill(s)' => HeldByBackfill(s)
    PROVE  Crowd(s)' \in Nat /\ Crowd(s)' <= Crowd(s) + 1
  <1>1. IsFiniteSet(Activities(s)) /\ Cardinality(Activities(s)) \in Nat
    BY CrowdType
  <1>2. /\ IsFiniteSet(Activities(s) \cup {r}) /\ Cardinality(Activities(s) \cup {r}) \in Nat
        /\ Cardinality(Activities(s) \cup {r}) <= Cardinality(Activities(s)) + 1
    <2>1. /\ IsFiniteSet(Activities(s) \cup {r})
          /\ \/ Cardinality(Activities(s) \cup {r}) = Cardinality(Activities(s))
             \/ Cardinality(Activities(s) \cup {r}) = Cardinality(Activities(s)) + 1
      BY <1>1, FS_AddElement
    <2> QED
      BY <1>1, <2>1
  <1>3. /\ Cardinality(Activities(s)') \in Nat
        /\ Cardinality(Activities(s)') <= Cardinality(Activities(s) \cup {r})
    BY <1>2, FS_Subset, FS_CardinalityType
  <1> QED
    BY <1>1, <1>2, <1>3 DEF Crowd

(* The record of crowds is kept with every step.                            *)
LEMMA CrowdStep ==
    ASSUME Typed, CrowdsAreNoted, [Next]_vars
    PROVE  CrowdsAreNoted'
  <1>0. RowsOK /\ RunsOK /\ RecordOK /\ JobOK /\ Posted /\ Listed
    BY TypeParts DEF Typed
  <1> DEFINE Goal == \A s \in Shots : Crowd(s)' > 1 => s \in crowded'
  <1>a. ASSUME NEW s \in Shots, Crowd(s)' \in Nat, Crowd(s)' <= Crowd(s), Crowd(s)' > 1
        PROVE  s \in crowded'
    <2>1. Crowd(s) > 1 /\ Crowd(s) # 1
      BY <1>a, CrowdType
    <2> QED
      BY <1>0, <2>1, HistoryMoves DEF HistoryMoved, CrowdsAreNoted
  <1>b. (\A s \in Shots : Activities(s)' \subseteq Activities(s) /\ (HeldByBackfill(s)' => HeldByBackfill(s)))
            => Goal
    BY <1>a, CrowdShrinks
  <1>c. ASSUME UNCHANGED <<about, jobVars>>,
               \A q \in Runs : pc'[q] \in UnderWay => pc[q] \in UnderWay
        PROVE  Goal
    BY <1>b, <1>c DEF Activities, HeldByBackfill, jobVars
  <1>d. ASSUME NEW r \in Runs, NEW s \in Shots, NEW h, Post(r, s, h) PROVE Goal
    <2>1. /\ pc' = [pc EXCEPT ![r] = "posted"] /\ about' = [about EXCEPT ![r] = s] /\ pc[r] = "unused"
          /\ Arrive({s}) /\ batch' = batch
      BY <1>d DEF Post, Goto, jobVars
    <2>2. \A q \in Shots : HeldByBackfill(q)' => HeldByBackfill(q)
      BY <2>1 DEF HeldByBackfill
    <2>3. ASSUME NEW q \in Shots, q # s PROVE Activities(q)' \subseteq Activities(q)
      BY <1>0, <2>1, <2>3 DEF Activities, RunsOK
    <2>4. Activities(s)' \subseteq Activities(s) \cup {r}
      BY <1>0, <2>1 DEF Activities, RunsOK
    <2>5. ASSUME Crowd(s)' > 1 PROVE s \in crowded'
      <3>1. Crowd(s) > 0
        BY <2>2, <2>4, <2>5, CrowdOfPost, CrowdType
      <3> QED
        BY <2>1, <3>1 DEF Arrive
    <2>6. ASSUME NEW q \in Shots, q # s, Crowd(q)' > 1 PROVE q \in crowded'
      BY <1>a, <2>2, <2>3, <2>6, CrowdShrinks
    <2> QED
      BY <2>5, <2>6
  <1> HIDE DEF Goal
  <1>1. ASSUME NEW r \in Runs, NEW s \in Shots, UploadScreenshot(r, s) PROVE Goal
    BY <1>1, <1>d DEF UploadScreenshot
  <1>2. ASSUME NEW r \in Runs, NEW s \in Shots, CreateAgentRun(r, s) PROVE Goal
    BY <1>2, <1>d DEF CreateAgentRun
  <1>3. ASSUME NEW r \in Runs, NEW s \in Shots, RetryAgent(r, s) PROVE Goal
    BY <1>3, <1>d DEF RetryAgent
  <1>4. ASSUME NEW r \in Runs, Enqueue(r) PROVE Goal
    BY <1>0, <1>4, <1>c DEF Enqueue, Goto, RunsOK, UnderWay, Working
  <1>5. ASSUME NEW r \in Runs, ReadShot(r) PROVE Goal
    <2>1. \A q \in Runs : q # r => pc'[q] = pc[q]
      BY <1>0, <1>5, ReadEffect
    <2>2. pc[r] \in UnderWay
      BY <1>5 DEF ReadShot, UnderWay
    <2> QED
      BY <1>5, <2>1, <2>2, <1>c DEF ReadShot
  <1>6. ASSUME NEW r \in Runs, Recognize(r) PROVE Goal
    BY <1>0, <1>6, <1>c DEF Recognize, Goto, RunsOK, UnderWay, Working
  <1>7. ASSUME NEW r \in Runs, GenerateInsight(r) PROVE Goal
    BY <1>0, <1>7, <1>c DEF GenerateInsight, Goto, RunsOK, UnderWay, Working
  <1>8. ASSUME NEW r \in Runs, SaveMemory(r) PROVE Goal
    BY <1>0, <1>8, <1>c DEF SaveMemory, Goto, RunsOK, UnderWay, Working
  <1>9. ASSUME NEW r \in Runs, SaveFails(r) PROVE Goal
    <2>1. UNCHANGED pc \/ \A q \in Runs : q # r => pc'[q] = pc[q]
      BY <1>0, <1>9, AbortEffect DEF SaveFails
    <2>2. pc[r] \in UnderWay
      BY <1>9 DEF SaveFails, UnderWay, Working
    <2> QED
      BY <1>9, <2>1, <2>2, <1>c DEF SaveFails
  <1>10. ASSUME NEW r \in Runs, Embed(r) PROVE Goal
    BY <1>0, <1>10, <1>c DEF Embed, Goto, RunsOK, UnderWay, Working
  <1>11. ASSUME NEW r \in Runs, Settle(r) PROVE Goal
    BY <1>0, <1>11, <1>c DEF Settle, Goto, RunsOK, UnderWay, Working
  <1>12. ASSUME Crash PROVE Goal
    <2>1. \A q \in Runs : pc'[q] \in UnderWay => pc[q] \in UnderWay
      BY <1>12 DEF Crash, UnderWay, Working
    <2> QED
      BY <1>12, <2>1, <1>c DEF Crash
  <1>13. ASSUME StartBackfill PROVE Goal
    <2>1. UNCHANGED <<pc, about, batch>>
      BY <1>13 DEF StartBackfill, runVars
    <2> QED
      BY <2>1, <1>b DEF Activities, HeldByBackfill
  <1>14. ASSUME ListOrganizedScreenshots PROVE Goal
    <2>1. PICK order \in ByCreation :
              /\ batch' = [i \in DOMAIN Page(order) |->
                            [shot |-> Page(order)[i], content |-> content[Page(order)[i]]]]
              /\ Arrive(ToSet(Page(order)))
      BY <1>14 DEF ListOrganizedScreenshots
    <2>2. UNCHANGED <<pc, about>> /\ batch = <<>>
      BY <1>0, <1>14 DEF ListOrganizedScreenshots, Listed, runVars
    <2>3. \A s \in Shots : Activities(s)' = Activities(s) /\ ~HeldByBackfill(s)
      <3>1. DOMAIN batch = {}
        BY <2>2, <1>0, LenProperties, EmptySeq DEF JobOK
      <3> QED
        BY <2>2, <3>1 DEF Activities, HeldByBackfill
    <2>4. \A s \in Shots : HeldByBackfill(s)' => s \in ToSet(Page(order))
      <3>1. /\ DOMAIN batch' = 1..Len(Page(order)) /\ DOMAIN Page(order) = 1..Len(Page(order))
            /\ \A i \in 1..Len(Page(order)) : batch'[i].shot = Page(order)[i]
        BY <1>0, <2>1, ListEffect, PageFacts DEF JobOK
      <3> QED
        BY <3>1 DEF HeldByBackfill, ToSet
    <2>5. ASSUME NEW s \in Shots, Crowd(s)' > 1 PROVE s \in crowded'
      <3>1. CASE HeldByBackfill(s)'
        <4>1. Crowd(s) > 0
          BY <2>3, <2>5, CrowdType DEF Crowd
        <4> QED
          BY <2>1, <2>4, <3>1, <4>1 DEF Arrive
      <3>2. CASE ~HeldByBackfill(s)'
        BY <1>a, <2>3, <2>5, <3>2, CrowdShrinks
      <3> QED
        BY <3>1, <3>2
    <2> QED
      BY <2>5 DEF Goal
  <1>15. ASSUME BackfillShot PROVE Goal
    <2>1. UNCHANGED <<pc, about>> /\ \A i \in DOMAIN batch' : i + 1 \in DOMAIN batch /\ batch'[i] = batch[i + 1]
      BY <1>0, <1>15, TailEffect DEF BackfillShot, runVars
    <2> QED
      BY <2>1, <1>b DEF Activities, HeldByBackfill
  <1>16. ASSUME UNCHANGED vars PROVE Goal
    BY <1>16, <1>c DEF vars, runVars
  <1> QED
    BY <1>1, <1>2, <1>3, <1>4, <1>5, <1>6, <1>7, <1>8, <1>9, <1>10, <1>11, <1>12, <1>13, <1>14,
       <1>15, <1>16
       DEF Goal, CrowdsAreNoted, Next, Request, Execution, Backfill

(* Who ends a crowd on a screenshot is alone on it, and saves its row.      *)
LEMMA CrowdEnds ==
    ASSUME Typed, [Next]_vars, NEW s \in Shots, s \in crowded, s \notin crowded'
    PROVE  \E r \in Runs :
              /\ SaveMemory(r) /\ about[r] = s /\ content'[s] = local[r] /\ point' = point
              /\ \A q \in Runs : q # r /\ pc[q] \in UnderWay => about[q] # s /\ pc'[q] = pc[q]
              /\ \A q \in Runs : q # r => pc'[q] = pc[q]
              /\ \A i \in DOMAIN batch : batch[i].shot # s
  <1>0. RowsOK /\ RunsOK /\ RecordOK /\ JobOK /\ Posted /\ Listed
    BY TypeParts DEF Typed
  <1>1. PICK r \in Runs : SaveMemory(r) /\ about[r] = s /\ Crowd(s) = 1
    BY <1>0, HistoryMoves DEF HistoryMoved
  <1>2. r \in Activities(s)
    BY <1>1 DEF SaveMemory, Activities, UnderWay, Working
  <1>3. \A q \in Runs : q # r /\ pc[q] \in UnderWay => about[q] # s
    BY <1>1, <1>2, CrowdOfRuns DEF Activities
  <1>4. \A i \in DOMAIN batch : batch[i].shot # s
    BY <1>1, <1>2, CrowdOfRuns DEF HeldByBackfill
  <1>5. /\ content'[s] = local[r] /\ point' = point
        /\ \A q \in Runs : q # r => pc'[q] = pc[q]
    BY <1>0, <1>1 DEF SaveMemory, SaveRow, Goto, RowsOK, RunsOK
  <1> QED
    BY <1>1, <1>3, <1>4, <1>5

-----------------------------------------------------------------------------
(* Nobody but a run alone on its screenshot writes what it has saved.       *)
LEMMA SavedStep ==
    ASSUME Typed, CrowdsAreNoted, SavedInv, [Next]_vars
    PROVE  SavedInv'
  <1>0. RowsOK /\ RunsOK /\ RecordOK /\ JobOK /\ Posted /\ Listed
    BY TypeParts DEF Typed
  <1>2. ASSUME NEW s \in Shots, s \notin crowded, status[s] # "none", content'[s] # content[s]
        PROVE  \E q \in Runs : /\ pc[q] = "save" /\ about[q] = s /\ pc[q] \in UnderWay
                               /\ content'[s] = local[q]
    BY <1>2, WhoWrites DEF RowWritten, SavedBy, UnderWay, Working
  <1>3. ASSUME NEW r \in Runs PROVE RunSaved(r)'
    <2> SUFFICES ASSUME pc'[r] = "embed", about'[r] \notin crowded'
                 PROVE  local'[r] = content'[about'[r]]
      BY DEF RunSaved
    <2>1. /\ local'[r] = local[r]
          /\ pc[r] = "embed" \/ (pc[r] = "save" /\ content'[about[r]] = local[r])
      BY RunsMove DEF RunMoved
    <2>2. about'[r] = about[r] /\ about[r] \in Shots /\ status[about[r]] # "none"
      BY <1>0, <2>1, RunsMove DEF RunMoved, Posted
    <2>3. CASE pc[r] = "embed"
      <3>0. about[r] \notin crowded
        BY <2>2, <2>3, CrowdEnds DEF SaveMemory, UnderWay, Working
      <3>1. local[r] = content[about[r]] /\ about[r] \notin crowded /\ pc[r] \in UnderWay
        BY <2>3, <3>0 DEF SavedInv, RunSaved, UnderWay, Working
      <3>2. content'[about[r]] = content[about[r]]
        BY <1>0, <1>2, <2>2, <2>3, <3>1, Alone
      <3> QED
        BY <2>1, <2>2, <3>1, <3>2
    <2> QED
      BY <2>1, <2>2, <2>3
  <1>4. ASSUME NEW i \in DOMAIN batch' PROVE EntrySaved(i)'
    <2> SUFFICES ASSUME batch'[i].shot \notin crowded'
                 PROVE  batch'[i].content = content'[batch'[i].shot]
      BY DEF EntrySaved
    <2>1. ASSUME NEW k \in DOMAIN batch, batch'[i] = batch[k]
          PROVE  batch'[i].content = content'[batch'[i].shot]
      <3>1. batch[k].shot \in Shots /\ status[batch[k].shot] # "none"
        <4>1. batch[k] \in Entry
          BY <1>0, ElementOfSeq, LenProperties DEF JobOK
        <4> QED
          BY <1>0, <4>1 DEF Entry, Listed
      <3>2. batch[k].shot \notin crowded /\ batch[k].content = content[batch[k].shot]
        BY <2>1, <3>1, CrowdEnds DEF SavedInv, EntrySaved
      <3>3. content'[batch[k].shot] = content[batch[k].shot]
        BY <1>0, <1>2, <3>1, <3>2, Alone
      <3> QED
        BY <2>1, <3>2, <3>3
    <2> QED
      BY <2>1, BatchMoves DEF BatchMoved
  <1> QED
    BY <1>3, <1>4 DEF SavedInv

(* Backfill begins without a page.                                          *)
LEMMA EmptyBatch == ASSUME Init PROVE DOMAIN batch = {}
  <1>1. <<>> \in Seq(Entry) /\ Len(<<>>) = 0
    BY EmptySeq
  <1> QED
    BY <1>1, LenProperties DEF Init

(* The inductive invariant of what is saved and embedded.                   *)
THEOREM SavedInvariant == Spec => [](Typed /\ CrowdsAreNoted /\ SavedInv)
  <1>1. Init => CrowdsAreNoted /\ SavedInv
    <2> SUFFICES ASSUME Init PROVE CrowdsAreNoted /\ SavedInv
      OBVIOUS
    <2>1. \A s \in Shots : Activities(s) = {} /\ ~HeldByBackfill(s)
      BY EmptyBatch DEF Init, Activities, HeldByBackfill, UnderWay, Working
    <2>2. \A s \in Shots : Crowd(s) = 0
      BY <2>1, FS_EmptySet DEF Crowd
    <2>3. CrowdsAreNoted
      BY <2>2 DEF CrowdsAreNoted
    <2>4. SavedInv
      BY EmptyBatch DEF Init, SavedInv, RunSaved
    <2> QED
      BY <2>3, <2>4
  <1>2. Typed /\ CrowdsAreNoted /\ SavedInv /\ [Next]_vars => CrowdsAreNoted' /\ SavedInv'
    BY CrowdStep, SavedStep
  <1> QED
    BY <1>1, <1>2, TypedInvariant, PTL DEF Spec

(* What a point is given is in the row, or was until another activity       *)
(* replaced it: no run that failed to save, and no stale page, is indexed.  *)
THEOREM PointsAreSaved == Spec => PointsWereSaved
  <1>1. Typed /\ CrowdsAreNoted /\ SavedInv /\ [Next]_vars =>
            [\A s \in Shots :
                point'[s] # point[s] /\ s \notin crowded' => point'[s] = content[s]]_vars
    <2> SUFFICES ASSUME Typed, CrowdsAreNoted, SavedInv, [Next]_vars,
                        NEW s \in Shots, point'[s] # point[s], s \notin crowded'
                 PROVE  point'[s] = content[s]
      OBVIOUS
    <2>1. s \notin crowded
      BY CrowdEnds
    <2> QED
      BY <2>1, WhoPoints DEF PointWritten, SavedInv, RunSaved, EntrySaved
  <1> QED
    BY <1>1, SavedInvariant, PTL DEF Spec, PointsWereSaved

-----------------------------------------------------------------------------
(* How a run comes to hold a failed attempt of save_memory.                 *)
RetryMoved(r) ==
    tries'[r] = 1 =>
        \/ pc'[r] \in {"embed", "ended"}
        \/ /\ pc'[r] = "save"
           /\ \/ tries[r] = 1 /\ pc[r] = "save" /\ about'[r] = about[r]
              \/ about'[r] \in crowded' \cup behind'

(* Every step retries saves as RetryMoved allows.                           *)
LEMMA RetriesMove ==
    ASSUME Typed, RetriesAreNoted, [Next]_vars
    PROVE  \A r \in Runs : RetryMoved(r)
  <1>0. RowsOK /\ RunsOK /\ RecordOK /\ JobOK /\ Posted /\ Listed
    BY TypeParts DEF Typed
  <1> DEFINE Goal == \A q \in Runs : RetryMoved(q)
  <1>a. ASSUME NEW q \in Runs, tries'[q] = tries[q], pc'[q] = pc[q], about'[q] = about[q]
        PROVE  RetryMoved(q)
    BY <1>a DEF RetryMoved, RetriesAreNoted, RetryNoted
  <1>b. ASSUME NEW r \in Runs, UNCHANGED tries, pc[r] \notin {"save", "embed", "ended"} \/ pc'[r] \in {"embed", "ended"},
               \A q \in Runs : q # r => pc'[q] = pc[q] /\ about'[q] = about[q]
        PROVE  Goal
    <2>1. RetryMoved(r)
      BY <1>b DEF RetryMoved, RetriesAreNoted, RetryNoted
    <2> QED
      BY <1>a, <1>b, <2>1
  <1>c. UNCHANGED runVars => Goal
    BY <1>a DEF runVars
  <1> HIDE DEF Goal
  <1>1. ASSUME NEW r \in Runs, NEW s \in Shots, UploadScreenshot(r, s) PROVE Goal
    BY <1>0, <1>1, <1>b DEF UploadScreenshot, Post, Goto, RunsOK
  <1>2. ASSUME NEW r \in Runs, NEW s \in Shots, CreateAgentRun(r, s) PROVE Goal
    BY <1>0, <1>2, <1>b DEF CreateAgentRun, Post, Goto, RunsOK
  <1>3. ASSUME NEW r \in Runs, NEW s \in Shots, RetryAgent(r, s) PROVE Goal
    BY <1>0, <1>3, <1>b DEF RetryAgent, Post, Goto, RunsOK
  <1>4. ASSUME NEW r \in Runs, Enqueue(r) PROVE Goal
    BY <1>0, <1>4, <1>b DEF Enqueue, Goto, RunsOK
  <1>5. ASSUME NEW r \in Runs, ReadShot(r) PROVE Goal
    <2>1. /\ pc[r] = "queued" /\ about' = about
          /\ \A q \in Runs : q # r => pc'[q] = pc[q]
      BY <1>0, <1>5, ReadEffect DEF ReadShot
    <2>2. CASE UNCHANGED tries
      BY <2>1, <2>2, <1>b
    <2>3. CASE Abort(r, round[r] + 1)
      <3>1. tries'[r] = 0 /\ \A q \in Runs : q # r => tries'[q] = tries[q]
        BY <1>0, <2>3, AbortEffect
      <3>2. RetryMoved(r)
        BY <3>1 DEF RetryMoved
      <3> QED
        BY <2>1, <3>1, <3>2, <1>a DEF Goal
    <2> QED
      BY <1>5, <2>2, <2>3 DEF ReadShot
  <1>6. ASSUME NEW r \in Runs, Recognize(r) PROVE Goal
    BY <1>0, <1>6, <1>b DEF Recognize, Goto, RunsOK
  <1>7. ASSUME NEW r \in Runs, GenerateInsight(r) PROVE Goal
    BY <1>0, <1>7, <1>b DEF GenerateInsight, Goto, RunsOK
  <1>8. ASSUME NEW r \in Runs, SaveMemory(r) PROVE Goal
    BY <1>0, <1>8, <1>b DEF SaveMemory, Goto, RunsOK
  <1>9. ASSUME NEW r \in Runs, SaveFails(r) PROVE Goal
    <2>1. about' = about /\ pc[r] = "save"
      BY <1>9 DEF SaveFails
    <2>2. CASE /\ Interrupt({about[r]})
               /\ tries' = [tries EXCEPT ![r] = 1] /\ UNCHANGED <<pc, local>>
      <3>1. RetryMoved(r)
        BY <2>1, <2>2 DEF RetryMoved, Interrupt
      <3>2. \A q \in Runs : q # r => tries'[q] = tries[q] /\ pc'[q] = pc[q]
        BY <1>0, <2>2 DEF RunsOK
      <3> QED
        BY <2>1, <3>1, <3>2, <1>a DEF Goal
    <2>3. CASE Abort(r, round[r])
      <3>1. tries'[r] = 0 /\ \A q \in Runs : q # r => tries'[q] = tries[q] /\ pc'[q] = pc[q]
        BY <1>0, <2>3, AbortEffect
      <3>2. RetryMoved(r)
        BY <3>1 DEF RetryMoved
      <3> QED
        BY <2>1, <3>1, <3>2, <1>a DEF Goal
    <2> QED
      BY <1>9, <2>2, <2>3 DEF SaveFails
  <1>10. ASSUME NEW r \in Runs, Embed(r) PROVE Goal
    BY <1>0, <1>10, <1>b DEF Embed, Goto, RunsOK
  <1>11. ASSUME NEW r \in Runs, Settle(r) PROVE Goal
    <2>1. /\ tries'[r] = 0 /\ about' = about
          /\ \A q \in Runs : q # r => tries'[q] = tries[q] /\ pc'[q] = pc[q]
      BY <1>0, <1>11 DEF Settle, Forget, Goto, RunsOK
    <2>2. RetryMoved(r)
      BY <2>1 DEF RetryMoved
    <2> QED
      BY <2>1, <2>2, <1>a DEF Goal
  <1>12. ASSUME Crash PROVE Goal
    BY <1>12 DEF Crash, RetryMoved, Goal
  <1>13. ASSUME StartBackfill PROVE Goal
    BY <1>13, <1>c DEF StartBackfill
  <1>14. ASSUME ListOrganizedScreenshots PROVE Goal
    BY <1>14, <1>c DEF ListOrganizedScreenshots
  <1>15. ASSUME BackfillShot PROVE Goal
    BY <1>15, <1>c DEF BackfillShot
  <1>16. ASSUME UNCHANGED vars PROVE Goal
    BY <1>16, <1>c DEF vars
  <1> QED
    BY <1>1, <1>2, <1>3, <1>4, <1>5, <1>6, <1>7, <1>8, <1>9, <1>10, <1>11, <1>12, <1>13, <1>14,
       <1>15, <1>16
       DEF Goal, Next, Request, Execution, Backfill

(* Nobody takes a screenshot off the record whose save is to be retried.    *)
LEMMA RetryStep ==
    ASSUME Typed, CrowdsAreNoted, RetriesAreNoted, [Next]_vars
    PROVE  RetriesAreNoted'
  <1>0. RowsOK /\ RunsOK /\ RecordOK /\ JobOK /\ Posted /\ Listed
    BY TypeParts DEF Typed
  <1>1. ASSUME NEW r \in Runs, pc[r] = "save", pc'[r] = "save", about[r] \in crowded \cup behind,
               about[r] \notin crowded' \cup behind'
        PROVE  FALSE
    <2>1. about[r] \in Shots /\ pc[r] \in UnderWay
      BY <1>0, <1>1 DEF Posted, UnderWay, Working
    <2>2. \A q \in Runs : SaveMemory(q) => q # r
      BY <1>0, <1>1 DEF SaveMemory, Goto, RunsOK
    <2>3. about[r] \notin crowded
      BY <1>1, <2>1, <2>2, CrowdEnds
    <2>4. PICK q \in Runs : SaveMemory(q) /\ about[q] = about[r]
      BY <1>0, <1>1, <2>1, <2>3, HistoryMoves DEF HistoryMoved
    <2>5. pc[q] \in UnderWay
      BY <2>4 DEF SaveMemory, UnderWay, Working
    <2> QED
      BY <1>0, <2>1, <2>2, <2>3, <2>4, <2>5, Alone
  <1>2. ASSUME NEW r \in Runs, tries[r] = 1, pc[r] = "save" PROVE about[r] \in crowded \cup behind
    BY <1>2 DEF RetriesAreNoted, RetryNoted
  <1>3. ASSUME NEW r \in Runs PROVE RetryNoted(r)'
    BY <1>1, <1>2, RetriesMove DEF RetryMoved, RetryNoted
  <1> QED
    BY <1>3 DEF RetriesAreNoted

(* What makes a row organized, or replaces its content, is a save that goes *)
(* on to the embedding, or one that is on record as a fault.                *)
RowOrganized ==
    \A s \in Shots :
        status'[s] = "organized" /\ (status[s] # "organized" \/ content'[s] # content[s])
        /\ s \notin crowded' \cup behind' =>
            \E r \in Runs : pc[r] = "save" /\ about[r] = s /\ pc'[r] = "embed"

(* Every step organizes rows as RowOrganized allows.                        *)
LEMMA WhoOrganizes ==
    ASSUME Typed, RetriesAreNoted, [Next]_vars
    PROVE  RowOrganized
  <1>0. RowsOK /\ RunsOK /\ RecordOK /\ JobOK /\ Posted /\ Listed
    BY TypeParts DEF Typed
  <1>a. UNCHANGED rowVars => RowOrganized
    BY DEF RowOrganized, rowVars
  <1>1. ASSUME NEW r \in Runs, NEW s \in Shots, UploadScreenshot(r, s) PROVE RowOrganized
    <2>1. PICK h \in Hints[s] : content' = [content EXCEPT ![s].text = h]
      BY <1>1 DEF UploadScreenshot
    <2>2. h \in Text
      BY ScreenshotsAssumption DEF Text
    <2>3. \A q \in Shots : q # s => content'[q] = content[q]
      BY <1>0, <2>1, <2>2, TextEffect DEF RowsOK
    <2>4. status'[s] = "uploaded" /\ \A q \in Shots : q # s => status'[q] = status[q]
      BY <1>0, <1>1 DEF UploadScreenshot, RowsOK
    <2> QED
      BY <2>3, <2>4 DEF RowOrganized
  <1>2. ASSUME NEW r \in Runs, NEW s \in Shots, CreateAgentRun(r, s) PROVE RowOrganized
    BY <1>2, <1>a DEF CreateAgentRun, Post, Goto
  <1>3. ASSUME NEW r \in Runs, NEW s \in Shots, RetryAgent(r, s) PROVE RowOrganized
    BY <1>3, <1>a DEF RetryAgent, Post, Goto
  <1>4. ASSUME NEW r \in Runs, Enqueue(r) PROVE RowOrganized
    BY <1>4, <1>a DEF Enqueue, Goto
  <1>5. ASSUME NEW r \in Runs, ReadShot(r) PROVE RowOrganized
    BY <1>5, <1>a DEF ReadShot, Goto
  <1>6. ASSUME NEW r \in Runs, Recognize(r) PROVE RowOrganized
    BY <1>6, <1>a DEF Recognize, Goto
  <1>7. ASSUME NEW r \in Runs, GenerateInsight(r) PROVE RowOrganized
    BY <1>7, <1>a DEF GenerateInsight, Goto
  <1>8. ASSUME NEW r \in Runs, SaveMemory(r) PROVE RowOrganized
    BY <1>0, <1>8 DEF SaveMemory, SaveRow, Goto, RowOrganized, RowsOK, RunsOK, Posted
  <1>9. ASSUME NEW r \in Runs, SaveFails(r) PROVE RowOrganized
    <2>1. pc[r] = "save" /\ (SaveRow(r) \/ UNCHANGED rowVars)
      BY <1>9 DEF SaveFails
    <2>2. about[r] \in crowded' \cup behind'
      <3>1. CASE Interrupt({about[r]})
        BY <3>1 DEF Interrupt
      <3>2. CASE tries[r] = 1 /\ UNCHANGED historyVars
        BY <2>1, <3>2 DEF RetriesAreNoted, RetryNoted, historyVars
      <3> QED
        BY <1>9, <3>1, <3>2 DEF SaveFails
    <2>3. \A s \in Shots : s # about[r] => status'[s] = status[s] /\ content'[s] = content[s]
      BY <1>0, <2>1 DEF SaveRow, RowsOK, rowVars
    <2> QED
      BY <2>2, <2>3 DEF RowOrganized
  <1>10. ASSUME NEW r \in Runs, Embed(r) PROVE RowOrganized
    BY <1>10, <1>a DEF Embed, Goto
  <1>11. ASSUME NEW r \in Runs, Settle(r) PROVE RowOrganized
    BY <1>11, <1>a DEF Settle, Goto
  <1>12. ASSUME Crash PROVE RowOrganized
    BY <1>12, <1>a DEF Crash
  <1>13. ASSUME StartBackfill PROVE RowOrganized
    BY <1>13, <1>a DEF StartBackfill
  <1>14. ASSUME ListOrganizedScreenshots PROVE RowOrganized
    BY <1>14, <1>a DEF ListOrganizedScreenshots
  <1>15. ASSUME BackfillShot PROVE RowOrganized
    BY <1>15, <1>a DEF BackfillShot
  <1>16. ASSUME UNCHANGED vars PROVE RowOrganized
    BY <1>16, <1>a DEF vars
  <1> QED
    BY <1>1, <1>2, <1>3, <1>4, <1>5, <1>6, <1>7, <1>8, <1>9, <1>10, <1>11, <1>12, <1>13, <1>14,
       <1>15, <1>16
       DEF Next, Request, Execution, Backfill

(* A run that is to see to a screenshot does so.                            *)
LEMMA CurrentStep ==
    ASSUME Typed, CrowdsAreNoted, SavedInv, RetriesAreNoted, CurrentInv, [Next]_vars
    PROVE  CurrentInv'
  <1>0. RowsOK /\ RunsOK /\ RecordOK /\ JobOK /\ Posted /\ Listed
    BY TypeParts DEF Typed
  <1> SUFFICES ASSUME NEW s \in Shots, status'[s] = "organized", s \notin crowded' \cup behind'
               PROVE  point'[s] = content'[s] \/ \E r \in Runs : about'[r] = s /\ pc'[r] = "embed"
    BY DEF CurrentInv, Current
  <1>1. ASSUME NEW r \in Runs, SaveMemory(r), about[r] = s
        PROVE  \E q \in Runs : about'[q] = s /\ pc'[q] = "embed"
    BY <1>0, <1>1 DEF SaveMemory, Goto, RunsOK
  <1>a. CASE s \in crowded \cup behind
    BY <1>0, <1>1, <1>a, HistoryMoves DEF HistoryMoved
  <1>2. CASE status[s] # "organized" \/ content'[s] # content[s]
    <2>1. PICK r \in Runs : pc[r] = "save" /\ about[r] = s /\ pc'[r] = "embed"
      BY <1>2, WhoOrganizes DEF RowOrganized
    <2>2. about'[r] = s
      BY <2>1, RunsMove DEF RunMoved
    <2> QED
      BY <2>1, <2>2
  <1>3. CASE s \notin crowded \cup behind /\ status[s] = "organized" /\ content'[s] = content[s]
    <2>1. CASE point[s] = content[s]
      <3>1. point'[s] = point[s] \/ point'[s] = content[s]
        BY <1>3, WhoPoints DEF PointWritten, SavedInv, RunSaved, EntrySaved
      <3> QED
        BY <1>3, <2>1, <3>1
    <2>2. ASSUME NEW r \in Runs, about[r] = s, pc[r] = "embed"
          PROVE  point'[s] = content'[s] \/ \E q \in Runs : about'[q] = s /\ pc'[q] = "embed"
      <3>1. about'[r] = s /\ (pc'[r] = "embed" \/ point'[s] = local[r])
        BY <2>2, RunsMove DEF RunMoved
      <3>2. local[r] = content[s]
        BY <1>3, <2>2 DEF SavedInv, RunSaved
      <3> QED
        BY <1>3, <3>1, <3>2
    <2> QED
      BY <1>3, <2>1, <2>2 DEF CurrentInv, Current
  <1> QED
    BY <1>a, <1>2, <1>3

(* A screenshot that nobody is at work on is found under what its row says, *)
(* unless activities crowded it, or a fault met one between its two writes, *)
(* since a run last saved the row (alone on it, after a crowd).             *)
THEOREM IndexStaysCurrent == Spec => []IndexIsCurrent
  <1>1. Init => RetriesAreNoted /\ CurrentInv
    BY DEF Init, RetriesAreNoted, RetryNoted, CurrentInv, Current
  <1>2. Typed /\ CrowdsAreNoted /\ RetriesAreNoted /\ [Next]_vars => RetriesAreNoted'
    BY RetryStep
  <1>3. Typed /\ CrowdsAreNoted /\ SavedInv /\ RetriesAreNoted /\ CurrentInv /\ [Next]_vars => CurrentInv'
    BY CurrentStep
  <1>4. CurrentInv => IndexIsCurrent
    <2> SUFFICES ASSUME CurrentInv, NEW s \in Organized, s \notin crowded \cup behind,
                        point[s] # content[s]
                 PROVE  Crowd(s) > 0
      BY DEF IndexIsCurrent
    <2>1. PICK r \in Runs : about[r] = s /\ pc[r] = "embed"
      BY DEF CurrentInv, Current, Organized
    <2>2. r \in Activities(s) /\ s \in Shots
      BY <2>1 DEF Activities, UnderWay, Working, Organized
    <2> QED
      BY <2>2, CrowdOfRuns, CrowdType
  <1> QED
    BY <1>1, <1>2, <1>3, <1>4, SavedInvariant, PTL DEF Spec

-----------------------------------------------------------------------------
(* How a run gets its text: posted with a hint, read, recognized, kept.     *)
Advanced == {"llm", "save", "embed", "ended"}

TextMoved(r) ==
    /\ pc[r] # "unused" =>
        /\ about'[r] = about[r] /\ hint'[r] = hint[r]
        /\ pc'[r] \in UnderWay => pc[r] \in UnderWay
    /\ pc[r] = "unused" /\ pc'[r] \in UnderWay =>
        /\ pc'[r] = "posted" /\ local'[r].text = local[r].text
        /\ hint'[r] # "fallback" \/ (hint'[r] = content[about'[r]].text /\ content' = content)
    /\ pc'[r] \notin Working => local'[r].text = "blank" \/ (local'[r].text = local[r].text /\ pc[r] \notin Working)
    /\ pc'[r] = "ocr" =>
        \/ pc[r] = "ocr" /\ local'[r].text = local[r].text
        \/ pc[r] = "queued" /\ KnownText(r) = "blank" /\ local'[r].text = "blank" /\ content' = content
    /\ pc'[r] \in Advanced =>
        \/ pc[r] \in Advanced /\ local'[r].text = local[r].text
        \/ /\ pc[r] = "queued" /\ content' = content
           /\ local'[r].text = KnownText(r) /\ local'[r].text # "blank"
        \/ pc[r] = "ocr" /\ content' = content /\ local'[r].text # "blank"

(* Every step moves the texts of each run as TextMoved allows.              *)
LEMMA TextsMove ==
    ASSUME Typed, [Next]_vars
    PROVE  \A r \in Runs : TextMoved(r)
  <1>0. RowsOK /\ RunsOK /\ RecordOK /\ JobOK /\ Posted /\ Listed
    BY TypeParts DEF Typed
  <1> DEFINE Same(q) == /\ pc'[q] = pc[q] /\ local'[q].text = local[q].text
                        /\ about'[q] = about[q] /\ hint'[q] = hint[q]
             Goal == \A q \in Runs : TextMoved(q)
  <1>a. ASSUME NEW r \in Runs, TextMoved(r), \A q \in Runs : q # r => Same(q) PROVE Goal
    <2>1. ASSUME NEW q \in Runs, Same(q) PROVE TextMoved(q)
      BY <1>0, <2>1 DEF TextMoved, Working, UnderWay, Advanced, RunsOK
    <2> QED
      BY <1>a, <2>1
  <1>b. (\A q \in Runs : Same(q)) => Goal
    BY <1>0 DEF TextMoved, Working, UnderWay, Advanced, RunsOK
  <1> HIDE DEF Goal
  <1>1. ASSUME NEW r \in Runs, NEW s \in Shots, UploadScreenshot(r, s) PROVE Goal
    <2>1. PICK h \in Hints[s] : Post(r, s, h)
      BY <1>1 DEF UploadScreenshot
    <2>2. h # "fallback"
      BY ScreenshotsAssumption
    <2>3. TextMoved(r) /\ \A q \in Runs : q # r => Same(q)
      BY <1>0, <2>1, <2>2 DEF Post, Goto, TextMoved, RunsOK, Working, UnderWay, Advanced
    <2> QED
      BY <2>3, <1>a
  <1>2. ASSUME NEW r \in Runs, NEW s \in Shots, CreateAgentRun(r, s) PROVE Goal
    <2>1. PICK h \in Hints[s] : Post(r, s, h)
      BY <1>2 DEF CreateAgentRun
    <2>2. h # "fallback"
      BY ScreenshotsAssumption
    <2>3. TextMoved(r) /\ \A q \in Runs : q # r => Same(q)
      BY <1>0, <2>1, <2>2 DEF Post, Goto, TextMoved, RunsOK, Working, UnderWay, Advanced
    <2> QED
      BY <2>3, <1>a
  <1>3. ASSUME NEW r \in Runs, NEW s \in Shots, RetryAgent(r, s) PROVE Goal
    <2>1. Post(r, s, content[s].text) /\ content' = content
      BY <1>3 DEF RetryAgent, rowVars
    <2>2. TextMoved(r) /\ \A q \in Runs : q # r => Same(q)
      BY <1>0, <2>1 DEF Post, Goto, TextMoved, RunsOK, Working, UnderWay, Advanced
    <2> QED
      BY <2>2, <1>a
  <1>4. ASSUME NEW r \in Runs, Enqueue(r) PROVE Goal
    <2>1. TextMoved(r) /\ \A q \in Runs : q # r => Same(q)
      BY <1>0, <1>4 DEF Enqueue, Goto, TextMoved, RunsOK, Working, UnderWay, Advanced
    <2> QED
      BY <2>1, <1>a
  <1>5. ASSUME NEW r \in Runs, ReadShot(r) PROVE Goal
    <2>1. /\ \A q \in Runs : q # r => pc'[q] = pc[q] /\ local'[q] = local[q]
          /\ \/ /\ local'[r].text = KnownText(r)
                /\ pc'[r] = IF KnownText(r) = "blank" THEN "ocr" ELSE "llm"
             \/ pc'[r] \in {"queued", "dead"} /\ local'[r].text = "blank"
      BY <1>0, <1>5, ReadEffect, ContentFacts
    <2>2. pc[r] = "queued" /\ about' = about /\ hint' = hint /\ content' = content
      BY <1>5 DEF ReadShot, rowVars
    <2>3. TextMoved(r)
      BY <2>1, <2>2 DEF TextMoved, Working, UnderWay, Advanced
    <2> QED
      BY <2>1, <2>2, <2>3, <1>a
  <1>6. ASSUME NEW r \in Runs, Recognize(r) PROVE Goal
    <2>1. PICK t \in Text : t # "blank" /\ local' = [local EXCEPT ![r].text = t]
      BY <1>6 DEF Recognize, Extract, Text
    <2>2. local'[r].text # "blank" /\ \A q \in Runs : q # r => local'[q] = local[q]
      BY <1>0, <2>1, TextEffect DEF RunsOK
    <2>3. /\ pc[r] = "ocr" /\ pc'[r] = "llm" /\ UNCHANGED <<about, hint, content>>
          /\ \A q \in Runs : q # r => pc'[q] = pc[q]
      BY <1>0, <1>6 DEF Recognize, Goto, RunsOK, rowVars
    <2>4. TextMoved(r)
      BY <2>2, <2>3 DEF TextMoved, Working, UnderWay, Advanced
    <2> QED
      BY <2>2, <2>3, <2>4, <1>a
  <1>7. ASSUME NEW r \in Runs, GenerateInsight(r) PROVE Goal
    <2>1. local'[r].text = local[r].text /\ \A q \in Runs : q # r => local'[q] = local[q]
      BY <1>0, <1>7, GeneratedEffect
    <2>2. /\ pc[r] = "llm" /\ pc'[r] = "save" /\ UNCHANGED <<about, hint>>
          /\ \A q \in Runs : q # r => pc'[q] = pc[q]
      BY <1>0, <1>7 DEF GenerateInsight, Goto, RunsOK
    <2>3. TextMoved(r)
      BY <2>1, <2>2 DEF TextMoved, Working, UnderWay, Advanced
    <2> QED
      BY <2>1, <2>2, <2>3, <1>a
  <1>8. ASSUME NEW r \in Runs, SaveMemory(r) PROVE Goal
    <2>1. /\ pc[r] = "save" /\ pc'[r] = "embed" /\ UNCHANGED <<about, hint, local>>
          /\ \A q \in Runs : q # r => pc'[q] = pc[q]
      BY <1>0, <1>8 DEF SaveMemory, Goto, RunsOK
    <2>2. TextMoved(r)
      BY <2>1 DEF TextMoved, Working, UnderWay, Advanced
    <2> QED
      BY <2>1, <2>2, <1>a
  <1>9. ASSUME NEW r \in Runs, SaveFails(r) PROVE Goal
    <2>1. pc[r] = "save" /\ UNCHANGED <<about, hint>>
      BY <1>9 DEF SaveFails
    <2>2. CASE UNCHANGED <<pc, local>>
      BY <2>1, <2>2, <1>b
    <2>3. CASE Abort(r, round[r])
      <3>1. /\ pc'[r] \in {"queued", "dead"} /\ local'[r].text = "blank"
            /\ \A q \in Runs : q # r => pc'[q] = pc[q] /\ local'[q] = local[q]
        BY <1>0, <2>3, AbortEffect, ContentFacts
      <3>2. TextMoved(r)
        BY <2>1, <3>1 DEF TextMoved, Working, UnderWay, Advanced
      <3> QED
        BY <2>1, <3>1, <3>2, <1>a
    <2> QED
      BY <1>9, <2>2, <2>3 DEF SaveFails
  <1>10. ASSUME NEW r \in Runs, Embed(r) PROVE Goal
    <2>1. /\ pc[r] = "embed" /\ pc'[r] = "ended" /\ UNCHANGED <<about, hint, local>>
          /\ \A q \in Runs : q # r => pc'[q] = pc[q]
      BY <1>0, <1>10 DEF Embed, Goto, RunsOK
    <2>2. TextMoved(r)
      BY <2>1 DEF TextMoved, Working, UnderWay, Advanced
    <2> QED
      BY <2>1, <2>2, <1>a
  <1>11. ASSUME NEW r \in Runs, Settle(r) PROVE Goal
    <2>1. /\ pc[r] = "ended" /\ pc'[r] = "settled" /\ UNCHANGED <<about, hint>>
          /\ local'[r].text = "blank"
          /\ \A q \in Runs : q # r => pc'[q] = pc[q] /\ local'[q] = local[q]
      BY <1>0, <1>11, ContentFacts DEF Settle, Forget, Goto, RunsOK
    <2>2. TextMoved(r)
      BY <2>1 DEF TextMoved, Working, UnderWay, Advanced
    <2> QED
      BY <2>1, <2>2, <1>a
  <1>12. ASSUME Crash PROVE Goal
    <2>1. UNCHANGED <<about, hint>>
      BY <1>12 DEF Crash
    <2>2. ASSUME NEW q \in Runs PROVE TextMoved(q)
      <3>1. local'[q].text = "blank" /\ pc'[q] = CASE pc[q] \in Working  -> "queued"
                                                   [] pc[q] = "posted" -> "abandoned"
                                                   [] OTHER            -> pc[q]
        BY <1>12, ContentFacts DEF Crash
      <3>2. pc[q] \in UnderWay \/ pc'[q] = pc[q]
        BY <3>1 DEF UnderWay
      <3>3. pc'[q] \notin Working
        BY <3>1 DEF Working
      <3>4. pc[q] = "unused" => pc'[q] = "unused"
        BY <3>1 DEF Working
      <3> QED
        BY <2>1, <3>1, <3>2, <3>3, <3>4 DEF TextMoved, Working, UnderWay, Advanced
    <2> QED
      BY <2>2 DEF Goal
  <1>13. ASSUME StartBackfill PROVE Goal
    BY <1>13, <1>b DEF StartBackfill, runVars
  <1>14. ASSUME ListOrganizedScreenshots PROVE Goal
    BY <1>14, <1>b DEF ListOrganizedScreenshots, runVars
  <1>15. ASSUME BackfillShot PROVE Goal
    BY <1>15, <1>b DEF BackfillShot, runVars
  <1>16. ASSUME UNCHANGED vars PROVE Goal
    BY <1>16, <1>b DEF vars, runVars
  <1> QED
    BY <1>1, <1>2, <1>3, <1>4, <1>5, <1>6, <1>7, <1>8, <1>9, <1>10, <1>11, <1>12, <1>13, <1>14,
       <1>15, <1>16
       DEF Goal, Next, Request, Execution, Backfill

(* A run that is not executing holds no text.                               *)
IdleHoldsNone == \A r \in Runs : pc[r] \notin Working => local[r].text = "blank"

(* No step loses a text that was recognized.                                *)
LEMMA TextStep ==
    ASSUME Typed, CrowdsAreNoted, TextInv, IdleHoldsNone, [Next]_vars
    PROVE  TextInv' /\ IdleHoldsNone'
  <1>0. RowsOK /\ RunsOK /\ RecordOK /\ JobOK /\ Posted /\ Listed
    BY TypeParts DEF Typed
  <1>2. ASSUME NEW r \in Runs PROVE TextMoved(r) /\ HintKept(r) /\ NoTextLost(r)
    BY TextsMove DEF TextInv
  <1>3. IdleHoldsNone'
    BY <1>2 DEF TextMoved, IdleHoldsNone
  <1>4. ASSUME NEW r \in Runs PROVE HintKept(r)'
    <2>1. CASE pc'[r] = "ocr"
      <3>1. pc[r] # "unused" /\ hint'[r] = hint[r]
        BY <1>2, <2>1 DEF TextMoved
      <3>2. hint[r] = "blank"
        BY <1>2, <2>1 DEF TextMoved, HintKept, KnownText
      <3> QED
        BY <2>1, <3>1, <3>2 DEF HintKept
    <2>2. CASE pc'[r] \in Advanced
      <3>1. pc[r] # "unused" /\ hint'[r] = hint[r]
        BY <1>2, <2>2 DEF TextMoved, Advanced
      <3>2. hint[r] # "blank" => local'[r].text = hint[r]
        BY <1>2, <2>2 DEF TextMoved, HintKept, KnownText, Advanced
      <3> QED
        BY <2>2, <3>1, <3>2 DEF HintKept, Advanced
    <2> QED
      BY <2>1, <2>2 DEF HintKept, Advanced
  <1>5. ASSUME NEW r \in Runs PROVE NoTextLost(r)'
    <2> SUFFICES ASSUME pc'[r] \in UnderWay, about'[r] \notin crowded',
                        hint'[r] = "fallback" \/ local'[r].text = "fallback" \/ pc'[r] = "ocr"
                 PROVE  content'[about'[r]].text \notin {"typed", "read"}
      BY DEF NoTextLost
    <2>1. CASE pc[r] = "unused"
      <3>1. pc'[r] = "posted" /\ local'[r].text = "blank"
        BY <1>2, <2>1 DEF TextMoved, IdleHoldsNone, Working
      <3> QED
        BY <1>2, <2>1, <3>1 DEF TextMoved
    <2>2. CASE pc[r] # "unused"
      <3>1. /\ about'[r] = about[r] /\ hint'[r] = hint[r] /\ pc[r] \in UnderWay
            /\ about[r] \in Shots /\ status[about[r]] # "none"
        BY <1>0, <1>2, <2>2 DEF TextMoved, Posted
      <3>a. CASE about[r] \in crowded
        <4>1. PICK q \in Runs : /\ SaveMemory(q) /\ about[q] = about[r] /\ content'[about[r]] = local[q]
                                /\ \A o \in Runs : o # q /\ pc[o] \in UnderWay => about[o] # about[r]
          BY <3>1, <3>a, CrowdEnds
        <4>2. q = r
          BY <3>1, <4>1
        <4>3. pc[r] = "save" /\ pc'[r] = "embed" /\ local'[r] = local[r]
          BY <1>0, <4>1, <4>2 DEF SaveMemory, Goto, RunsOK
        <4>4. hint[r] = "fallback" => local[r].text = "fallback"
          BY <1>2, <4>3 DEF HintKept
        <4> QED
          BY <3>1, <4>1, <4>2, <4>3, <4>4
      <3>2. CASE about[r] \notin crowded /\ content'[about[r]] = content[about[r]]
        <4>1. CASE hint[r] = "fallback" \/ pc[r] = "ocr" \/ local[r].text = "fallback"
          BY <1>2, <3>1, <3>2, <4>1 DEF NoTextLost
        <4>2. CASE pc[r] = "queued" /\ KnownText(r) \in {"blank", "fallback"}
          <5>1. hint[r] = "fallback" \/ content[about[r]].text \in {"blank", "fallback"}
            BY <4>2 DEF KnownText
          <5> QED
            BY <1>2, <3>1, <3>2, <5>1 DEF NoTextLost
        <4>3. pc'[r] = "ocr" => pc[r] = "ocr" \/ (pc[r] = "queued" /\ KnownText(r) = "blank")
          BY <1>2 DEF TextMoved
        <4>4. local'[r].text = "fallback" =>
                 \/ pc'[r] = "ocr" \/ local[r].text = "fallback" \/ pc[r] = "ocr"
                 \/ (pc[r] = "queued" /\ KnownText(r) = "fallback")
          BY <1>2 DEF TextMoved, Advanced, Working
        <4> QED
          BY <3>1, <4>1, <4>2, <4>3, <4>4
      <3>3. CASE about[r] \notin crowded /\ content'[about[r]] # content[about[r]]
        <4>1. PICK q \in Runs : pc[q] = "save" /\ about[q] = about[r] /\ content'[about[r]] = local[q]
          BY <3>1, <3>3, WhoWrites DEF RowWritten, SavedBy
        <4>2. q = r
          BY <1>0, <3>1, <3>3, <4>1, Alone DEF UnderWay, Working
        <4>3. pc'[r] # "ocr" /\ (local'[r].text = "fallback" => local[r].text = "fallback")
          BY <1>2, <4>1, <4>2 DEF TextMoved, Advanced, Working
        <4>4. hint[r] = "fallback" => local[r].text = "fallback"
          BY <1>2, <4>1, <4>2 DEF HintKept
        <4> QED
          BY <1>2, <3>1, <3>3, <4>1, <4>2, <4>3, <4>4 DEF NoTextLost
      <3> QED
        BY <3>a, <3>2, <3>3
    <2> QED
      BY <2>1, <2>2
  <1> QED
    BY <1>3, <1>4, <1>5 DEF TextInv

(* What a client typed or OCR read is not lost to the file name, for any    *)
(* sequence of runs on the screenshot, each with its retries and crashes.   *)
THEOREM TextStays == Spec => RecognizedTextStays
  <1>1. Init => TextInv /\ IdleHoldsNone
    BY ContentFacts DEF Init, TextInv, HintKept, NoTextLost, IdleHoldsNone, UnderWay, Working
  <1>2. Typed /\ CrowdsAreNoted /\ TextInv /\ IdleHoldsNone /\ [Next]_vars => TextInv' /\ IdleHoldsNone'
    BY TextStep
  <1>3. Typed /\ CrowdsAreNoted /\ TextInv /\ [Next]_vars =>
            [\A s \in Shots :
                content[s].text \in {"typed", "read"} /\ s \notin crowded \cup crowded'
                    => content'[s].text # "fallback"]_vars
    <2> SUFFICES ASSUME Typed, CrowdsAreNoted, TextInv, [Next]_vars,
                        NEW s \in Shots, content[s].text \in {"typed", "read"},
                        s \notin crowded \cup crowded'
                 PROVE  content'[s].text # "fallback"
      OBVIOUS
    <2>1. ASSUME NEW r \in Runs, pc[r] = "save", about[r] = s, content'[s] = local[r]
          PROVE  local[r].text # "fallback"
      BY <2>1 DEF TextInv, NoTextLost, UnderWay, Working
    <2> QED
      BY <2>1, WhoWrites DEF RowWritten, SavedBy
  <1> QED
    BY <1>1, <1>2, <1>3, SavedInvariant, PTL DEF Spec, RecognizedTextStays

-----------------------------------------------------------------------------
(* An insight, a row that is organized and an entry of a page have a text.  *)
HasText ==
    /\ \A r \in Runs : pc[r] \in Advanced => local[r].text # "blank"
    /\ \A s \in Shots : status[s] = "organized" => content[s].text # "blank"
    /\ \A i \in DOMAIN batch : batch[i].content.text # "blank"

(* Whatever was recognized, saved or listed has a text, after every step.   *)
LEMMA HasTextStep ==
    ASSUME Typed, HasText, [Next]_vars
    PROVE  HasText'
  <1>0. RowsOK /\ RunsOK /\ RecordOK /\ JobOK /\ Posted /\ Listed
    BY TypeParts DEF Typed
  <1>1. ASSUME NEW r \in Runs, pc'[r] \in Advanced PROVE local'[r].text # "blank"
    BY <1>1, TextsMove DEF TextMoved, HasText
  <1>2. ASSUME NEW s \in Shots, status'[s] = "organized" PROVE content'[s].text # "blank"
    <2>1. SavedBy(s) => content'[s].text # "blank"
      BY DEF SavedBy, HasText, Advanced
    <2>2. SavedBy(s) \/ (status[s] = "organized" /\ content'[s] = content[s])
      BY <1>2, WhoWrites DEF RowWritten
    <2> QED
      BY <2>1, <2>2 DEF HasText
  <1>3. ASSUME NEW i \in DOMAIN batch' PROVE batch'[i].content.text # "blank"
    BY BatchMoves DEF BatchMoved, HasText, Organized
  <1> QED
    BY <1>1, <1>2, <1>3 DEF HasText

(* A point that exists is only replaced by another.                         *)
LEMMA PointStays ==
    ASSUME Typed, HasText, [Next]_vars
    PROVE  \A s \in Shots : point[s] # Nothing => point'[s] # Nothing
  <1> SUFFICES ASSUME NEW s \in Shots, point[s] # Nothing, point'[s] = Nothing PROVE FALSE
    OBVIOUS
  <1>1. point'[s].text # "blank"
    BY WhoPoints DEF PointWritten, HasText, Advanced
  <1> QED
    BY <1>1, ContentFacts

-----------------------------------------------------------------------------
(* Where a screenshot is in the listing, by age.                            *)
NotNewer(s) == {q \in Organized : CreatedAt[q] <= CreatedAt[s]}
Rank(s) == Cardinality(NotNewer(s))

NoTwoInASecond == \A q, s \in Shots : q # s => CreatedAt[q] # CreatedAt[s]

(* The rank of a screenshot is a place among the organized ones.            *)
LEMMA RankFacts ==
    ASSUME NEW s
    PROVE  /\ IsFiniteSet(NotNewer(s)) /\ Rank(s) \in Nat /\ Rank(s) <= Cardinality(Organized)
           /\ Cardinality(Organized) \in Nat
           /\ s \in Organized => Rank(s) > 0
  <1>1. IsFiniteSet(Organized)
    BY ScreenshotsAssumption, FS_Subset DEF Organized
  <1>2. IsFiniteSet(NotNewer(s)) /\ Rank(s) <= Cardinality(Organized)
    BY <1>1, FS_Subset DEF NotNewer, Rank
  <1>3. Rank(s) \in Nat /\ Cardinality(Organized) \in Nat
    BY <1>1, <1>2, FS_CardinalityType DEF Rank
  <1>4. ASSUME s \in Organized PROVE Rank(s) # 0
    <2>1. CreatedAt[s] \in Nat
      BY <1>4, ScreenshotsAssumption DEF Organized
    <2>2. s \in NotNewer(s)
      BY <1>4, <2>1 DEF NotNewer
    <2> QED
      BY <1>2, <2>2, FS_EmptySet DEF Rank
  <1> QED
    BY <1>2, <1>3, <1>4

(* Without ties a screenshot's place in the listing is its rank.            *)
LEMMA RankIsPlace ==
    ASSUME NoTwoInASecond, NEW order \in ByCreation, NEW s \in Organized
    PROVE  Rank(s) \in 1..Len(order) /\ order[Rank(s)] = s
  <1>1. /\ Len(order) \in Nat /\ Len(order) = Cardinality(Organized)
        /\ order \in [1..Len(order) -> Organized]
        /\ \A i, j \in 1..Len(order) : i # j => order[i] # order[j]
        /\ \A i, j \in 1..Len(order) : i < j => CreatedAt[order[i]] <= CreatedAt[order[j]]
    BY OrderFacts
  <1>2. order \in Injection(1..Len(order), Organized)
    BY <1>1 DEF Injection, IsInjective
  <1>3. Cardinality(1..Len(order)) = Len(order) /\ IsFiniteSet(1..Len(order)) /\ IsFiniteSet(Organized)
    <2>1. 1 \in Int /\ Len(order) \in Int
      BY <1>1
    <2>2. IsFiniteSet(1..Len(order)) /\ Cardinality(1..Len(order)) = Len(order)
      BY <1>1, <2>1, FS_Interval
    <2> QED
      BY <2>2, ScreenshotsAssumption, FS_Subset DEF Organized
  <1>4. order \in Surjection(1..Len(order), Organized)
    BY <1>1, <1>2, <1>3, FS_Injection
  <1>5. PICK i \in 1..Len(order) : order[i] = s
    BY <1>4 DEF Surjection
  <1>6. \A q \in Organized : CreatedAt[q] \in Nat
    BY ScreenshotsAssumption DEF Organized
  <1>7. \A j \in 1..i : order[j] \in NotNewer(s)
    BY <1>1, <1>5, <1>6 DEF NotNewer
  <1>8. \A q \in NotNewer(s) : \E j \in 1..i : order[j] = q
    <2> SUFFICES ASSUME NEW q \in NotNewer(s) PROVE \E j \in 1..i : order[j] = q
      OBVIOUS
    <2>1. PICK j \in 1..Len(order) : order[j] = q
      BY <1>4 DEF Surjection, NotNewer
    <2>2. CASE j > i
      <3>1. CreatedAt[s] <= CreatedAt[q] /\ q # s /\ CreatedAt[q] <= CreatedAt[s] /\ q \in Organized
        BY <1>1, <1>5, <2>1, <2>2 DEF NotNewer
      <3>2. CreatedAt[q] # CreatedAt[s]
        BY <3>1 DEF NoTwoInASecond, Organized
      <3> QED
        BY <1>6, <3>1, <3>2
    <2>3. CASE j <= i
      BY <2>1, <2>3
    <2> QED
      BY <1>1, <2>2, <2>3
  <1> DEFINE f == [j \in 1..i |-> order[j]]
  <1>9. f \in Injection(1..i, NotNewer(s)) /\ f \in Surjection(1..i, NotNewer(s))
    <2>1. f \in [1..i -> NotNewer(s)]
      BY <1>7
    <2>2. IsInjective(f)
      BY <1>1 DEF IsInjective
    <2>3. \A q \in NotNewer(s) : \E j \in 1..i : f[j] = q
      BY <1>8
    <2> QED
      BY <2>1, <2>2, <2>3 DEF Injection, Surjection
  <1>10. Cardinality(1..i) = i
    <2>1. 1 \in Int /\ i \in Int /\ i > 0
      BY <1>1
    <2> QED
      BY <2>1, FS_Interval
  <1> HIDE DEF f
  <1>11. Rank(s) = i
    BY <1>9, <1>10, RankFacts, FS_Injection DEF Rank
  <1> QED
    BY <1>5, <1>11

(* Rows that become organized only move a screenshot back in the listing.   *)
LEMMA RankGrows ==
    ASSUME Typed, [Next]_vars, NEW s
    PROVE  Rank(s)' \in Nat /\ Rank(s) <= Rank(s)' /\ Organized \subseteq Organized'
  <1>0. RowsOK /\ RunsOK /\ Posted
    BY TypeParts DEF Typed
  <1>1. Organized \subseteq Organized'
    BY <1>0, OrganizedStays DEF Organized
  <1>2. NotNewer(s) \subseteq NotNewer(s)'
    BY <1>1 DEF NotNewer
  <1>3. NotNewer(s)' \subseteq Shots
    BY DEF NotNewer, Organized
  <1>4. IsFiniteSet(NotNewer(s)')
    BY <1>3, ScreenshotsAssumption, FS_Subset
  <1>5. Cardinality(NotNewer(s)') \in Nat /\ Cardinality(NotNewer(s)) <= Cardinality(NotNewer(s)')
    BY <1>2, <1>4, FS_Subset, FS_CardinalityType
  <1> QED
    BY <1>1, <1>5 DEF Rank

-----------------------------------------------------------------------------
(* The backfill has a point, or holds the row, of every screenshot it owes  *)
(* a point to and has paged past.                                           *)
Reached(s) == point[s] # Nothing \/ \E i \in DOMAIN batch : batch[i].shot = s

CoverInv ==
    /\ owed \subseteq Organized
    /\ job = "ready" => offset = 0 /\ owed = {}
    /\ job \in {"listing", "embedding"} /\ ~failed => \A s \in owed : Rank(s) <= offset => Reached(s)
    /\ BackfillCovers

(* While the backfill waits, nothing is taken from what it has reached.     *)
LEMMA CoverFrame ==
    ASSUME Typed, HasText, CoverInv, [Next]_vars, UNCHANGED jobVars
    PROVE  CoverInv'
  <1>1. owed \subseteq Shots /\ offset \in Nat
    BY TypeParts, ScreenshotsAssumption, FS_CardinalityType DEF Typed, JobOK
  <1>2. owed' \subseteq Organized'
    BY RankGrows DEF CoverInv, jobVars
  <1>3. BackfillCovers'
    BY <1>1, PointStays DEF CoverInv, BackfillCovers, jobVars
  <1>4. ASSUME job \in {"listing", "embedding"}, ~failed, NEW s \in owed, Rank(s)' <= offset
        PROVE  Reached(s)'
    <2>1. Rank(s) <= offset
      BY <1>1, <1>4, RankGrows, RankFacts
    <2>2. Reached(s)
      BY <1>4, <2>1 DEF CoverInv
    <2> QED
      BY <1>1, <2>2, PointStays DEF Reached, jobVars
  <1> QED
    BY <1>2, <1>3, <1>4 DEF CoverInv, jobVars

(* Every step leaves backfill owing only what it can still reach.           *)
LEMMA CoverStep ==
    ASSUME NoTwoInASecond, Typed, HasText, CoverInv, [Next]_vars
    PROVE  CoverInv'
  <1>0. RowsOK /\ RunsOK /\ RecordOK /\ JobOK /\ Posted /\ Listed
    BY TypeParts DEF Typed
  <1>a. owed \subseteq Shots /\ offset \in Nat
    BY <1>0, ScreenshotsAssumption, FS_CardinalityType DEF JobOK
  <1>1. ASSUME NEW r \in Runs, NEW s \in Shots, UploadScreenshot(r, s) PROVE CoverInv'
    BY <1>1, CoverFrame DEF UploadScreenshot, Post
  <1>2. ASSUME NEW r \in Runs, NEW s \in Shots, CreateAgentRun(r, s) PROVE CoverInv'
    BY <1>2, CoverFrame DEF CreateAgentRun, Post
  <1>3. ASSUME NEW r \in Runs, NEW s \in Shots, RetryAgent(r, s) PROVE CoverInv'
    BY <1>3, CoverFrame DEF RetryAgent, Post
  <1>4. ASSUME NEW r \in Runs, Enqueue(r) PROVE CoverInv'
    BY <1>4, CoverFrame DEF Enqueue, Goto
  <1>5. ASSUME NEW r \in Runs, ReadShot(r) PROVE CoverInv'
    BY <1>5, CoverFrame DEF ReadShot, Goto
  <1>6. ASSUME NEW r \in Runs, Recognize(r) PROVE CoverInv'
    BY <1>6, CoverFrame DEF Recognize, Goto
  <1>7. ASSUME NEW r \in Runs, GenerateInsight(r) PROVE CoverInv'
    BY <1>7, CoverFrame DEF GenerateInsight, Goto
  <1>8. ASSUME NEW r \in Runs, SaveMemory(r) PROVE CoverInv'
    BY <1>8, CoverFrame DEF SaveMemory, Goto
  <1>9. ASSUME NEW r \in Runs, SaveFails(r) PROVE CoverInv'
    BY <1>9, CoverFrame DEF SaveFails, Goto
  <1>10. ASSUME NEW r \in Runs, Embed(r) PROVE CoverInv'
    BY <1>10, CoverFrame DEF Embed, Goto
  <1>11. ASSUME NEW r \in Runs, Settle(r) PROVE CoverInv'
    BY <1>11, CoverFrame DEF Settle, Goto
  <1>12. ASSUME Crash PROVE CoverInv'
    BY <1>12, CoverFrame DEF Crash
  <1>13. ASSUME StartBackfill PROVE CoverInv'
    <2>1. /\ job' = "listing" /\ owed' = Organized /\ offset' = 0
          /\ UNCHANGED rowVars
      BY <1>13 DEF StartBackfill, CoverInv
    <2>2. \A s \in Organized : Rank(s)' > 0
      <3>1. Organized' = Organized
        BY <2>1 DEF Organized, rowVars
      <3>2. \A s \in Organized : Rank(s)' = Rank(s)
        BY <3>1 DEF Rank, NotNewer
      <3> QED
        BY <3>2, RankFacts
    <2>3. owed' \subseteq Organized'
      BY <2>1, RankGrows
    <2>4. \A s \in owed' : ~(Rank(s)' <= offset')
      BY <2>1, <2>2, RankGrows
    <2> QED
      BY <2>1, <2>3, <2>4 DEF CoverInv, BackfillCovers
  <1>14. ASSUME ListOrganizedScreenshots PROVE CoverInv'
    <2>1. PICK order \in ByCreation :
              /\ batch' = [i \in DOMAIN Page(order) |->
                            [shot |-> Page(order)[i], content |-> content[Page(order)[i]]]]
              /\ offset' = offset + Len(Page(order))
              /\ job' = IF Page(order) = <<>> THEN "done" ELSE "embedding"
      BY <1>14 DEF ListOrganizedScreenshots
    <2>2. /\ job = "listing" /\ UNCHANGED <<rowVars, point, owed, failed>>
          /\ batch = <<>>
      BY <1>0, <1>14 DEF ListOrganizedScreenshots, Listed
    <2>3. DOMAIN batch = {}
      BY <2>2, <1>0, LenProperties, EmptySeq DEF JobOK
    <2>4. /\ Len(Page(order)) \in Nat /\ Len(order) = Cardinality(Organized)
          /\ Page(order) \in Seq(Organized)
          /\ Len(Page(order)) = 0 => Len(order) <= offset
          /\ \A i \in 1..Len(Page(order)) : Page(order)[i] = order[offset + i]
      BY <1>0, PageFacts, OrderFacts DEF JobOK
    <2>5. /\ DOMAIN batch' = 1..Len(Page(order))
          /\ \A i \in 1..Len(Page(order)) : batch'[i].shot = Page(order)[i]
      BY <1>0, <2>1, ListEffect
    <2>6. ASSUME NEW s \in owed, ~failed, Rank(s) <= offset PROVE point[s] # Nothing
      BY <2>2, <2>3, <2>6 DEF CoverInv, Reached
    <2>7. Organized' = Organized /\ \A s \in owed : Rank(s)' = Rank(s)
      BY <2>2 DEF Organized, Rank, NotNewer, rowVars
    <2>8. ASSUME NEW s \in owed, ~failed, Rank(s) <= offset' PROVE Reached(s)'
      <3>1. CASE Rank(s) <= offset
        BY <2>2, <2>6, <2>8, <3>1 DEF Reached
      <3>2. CASE Rank(s) > offset
        <4>1. s \in Organized
          BY DEF CoverInv
        <4>2. order[Rank(s)] = s /\ Rank(s) \in Nat
          BY <4>1, RankIsPlace, RankFacts
        <4>3. Rank(s) - offset \in 1..Len(Page(order)) /\ offset + (Rank(s) - offset) = Rank(s)
          BY <1>a, <2>1, <2>4, <2>8, <3>2, <4>2
        <4>4. batch'[Rank(s) - offset].shot = s
          BY <2>4, <2>5, <4>2, <4>3
        <4> QED
          BY <2>5, <4>3, <4>4 DEF Reached
      <3>3. Rank(s) \in Nat
        BY RankFacts
      <3> QED
        BY <1>a, <3>1, <3>2, <3>3
    <2>9. ASSUME job' = "done", ~failed, NEW s \in owed PROVE point[s] # Nothing
      <3>1. Len(Page(order)) = 0
        BY <2>1, <2>4, <2>9, EmptySeq
      <3>2. Rank(s) <= offset
        BY <1>a, <2>4, <3>1, RankFacts
      <3> QED
        BY <2>6, <2>9, <3>2
    <2>10. BackfillCovers'
      BY <2>2, <2>9 DEF BackfillCovers
    <2>11. job' \in {"done", "embedding"} /\ owed' \subseteq Organized'
      BY <2>1, <2>2, <2>7 DEF CoverInv
    <2> QED
      BY <2>2, <2>7, <2>8, <2>10, <2>11 DEF CoverInv
  <1>15. ASSUME BackfillShot PROVE CoverInv'
    <2>1. /\ Head(batch) = batch[1] /\ 1 \in DOMAIN batch
          /\ DOMAIN batch = 1..Len(batch) /\ DOMAIN batch' = 1..Len(batch') /\ Len(batch) \in Nat
          /\ Len(batch') = Len(batch) - 1 /\ \A i \in DOMAIN batch' : batch'[i] = batch[i + 1]
          /\ job' \in {"listing", "embedding"}
      BY <1>0, <1>15, TailEffect
    <2>2. /\ job = "embedding" /\ UNCHANGED <<owed, offset>>
          /\ failed' = failed \/ failed' = TRUE
          /\ ~failed' => ~failed /\ point' = [point EXCEPT ![batch[1].shot] = batch[1].content]
      BY <1>15, <2>1 DEF BackfillShot, Upsert
    <2>3. ASSUME NEW s \in owed, ~failed', Reached(s) PROVE Reached(s)'
      <3>1. CASE point[s] # Nothing
        BY <1>a, <3>1, PointStays DEF Reached
      <3>2. CASE batch[1].shot = s
        <4>1. point'[s] = batch[1].content
          BY <1>0, <1>a, <2>2, <2>3, <3>2 DEF RowsOK
        <4>2. batch[1].content.text # "blank"
          BY <2>1 DEF HasText
        <4> QED
          BY <4>1, <4>2, ContentFacts DEF Reached
      <3>3. ASSUME NEW i \in DOMAIN batch, i # 1, batch[i].shot = s PROVE Reached(s)'
        <4>1. i - 1 \in DOMAIN batch' /\ (i - 1) + 1 = i
          BY <2>1, <3>3
        <4>2. batch'[i - 1] = batch[i]
          BY <2>1, <4>1
        <4> QED
          BY <3>3, <4>1, <4>2 DEF Reached
      <3> QED
        BY <2>3, <3>1, <3>2, <3>3 DEF Reached
    <2>4. owed' \subseteq Organized'
      BY <2>2, RankGrows DEF CoverInv
    <2>5. ASSUME ~failed', NEW s \in owed, Rank(s)' <= offset PROVE Reached(s)'
      <3>1. Rank(s) <= offset
        BY <1>a, <2>5, RankGrows, RankFacts
      <3>2. Reached(s)
        BY <2>2, <2>5, <3>1 DEF CoverInv
      <3> QED
        BY <2>3, <2>5, <3>2
    <2> QED
      BY <2>1, <2>2, <2>4, <2>5 DEF CoverInv, BackfillCovers
  <1>16. ASSUME UNCHANGED vars PROVE CoverInv'
    BY <1>16, CoverFrame DEF vars
  <1> QED
    BY <1>1, <1>2, <1>3, <1>4, <1>5, <1>6, <1>7, <1>8, <1>9, <1>10, <1>11, <1>12, <1>13, <1>14,
       <1>15, <1>16
       DEF Next, Request, Execution, Backfill

(* When no two screenshots were uploaded in the same second, backfill gives *)
(* a point to every screenshot that was organized when it began, whatever   *)
(* the page size, and although rows are organized while it pages.           *)
THEOREM BackfillReachesAll ==
    ASSUME NoTwoInASecond
    PROVE  Spec => []BackfillCovers
  <1>1. Init => HasText /\ CoverInv
    <2> SUFFICES ASSUME Init PROVE HasText /\ CoverInv
      OBVIOUS
    <2>1. HasText
      BY EmptyBatch DEF Init, HasText, Advanced
    <2>2. CoverInv
      BY DEF Init, CoverInv, BackfillCovers
    <2> QED
      BY <2>1, <2>2
  <1>2. Typed /\ HasText /\ [Next]_vars => HasText'
    BY HasTextStep
  <1>3. Typed /\ HasText /\ CoverInv /\ [Next]_vars => CoverInv'
    BY CoverStep
  <1>4. CoverInv => BackfillCovers
    BY DEF CoverInv
  <1> QED
    BY <1>1, <1>2, <1>3, <1>4, TypedInvariant, PTL DEF Spec
=============================================================================
