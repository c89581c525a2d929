----------------------------- MODULE Transcript -----------------------------
(***************************************************************************)
(* One message of the agent while it streams: its parts arrive and settle, *)
(* the transcript groups them anew on every change into panels of steps    *)
(* and pieces of answer, and the reader opens and closes panels and steps  *)
(* in between.  A step is a <details>: the browser flips it on a click and *)
(* says afterwards, with an event, that it was opened or closed, by whom   *)
(* ever.                                                                   *)
(***************************************************************************)
EXTENDS Naturals, Sequences

CONSTANTS PartKind, MaxParts

ASSUME TranscriptAssumption ==
  PartKind \subseteq {"reasoning", "tool", "text", "file", "chart"}

VARIABLES
  parts,      \* message.parts
  panelsOpen, \* the `override` of each ActivityPanel, by its React key
  stepsOpen,  \* the `override` of each mounted ActivityStep, by its part
  shown,      \* whether the <details> of a mounted step is open
  toggled,    \* steps whose toggle event is under way
  chosen      \* history: the first step of a panel when the reader chose of
              \* it, and the steps the reader closed last

transcriptVars == <<parts, panelsOpen, stepsOpen, shown, toggled, chosen>>

TranscriptInit ==
  /\ parts = <<>> /\ panelsOpen = <<>> /\ stepsOpen = <<>> /\ shown = <<>>
  /\ toggled = {} /\ chosen = [first |-> <<>>, closed |-> {}]

IsActivityPart(p) == p.kind \in {"reasoning", "tool"}
IsRunning(p) == IsActivityPart(p) /\ p.state = "running"

(* A variation in which what a step produced ends its run. *)
AnythingEndsRun(p) == ~IsActivityPart(p)

(* What a step produced does not end its run, prose and attachments do.    *)
EndsRun(p) == p.kind \in {"text", "file"}

(* toSegments; `run` is the segment that collects steps, 0 for none.       *)
Segmented(ps, acc, i) ==
  CASE IsActivityPart(ps[i]) /\ acc.run # 0 ->
         [acc EXCEPT !.segments[acc.run].parts = @ \cup {i}]
    [] IsActivityPart(ps[i]) /\ acc.run = 0 ->
         [segments |-> Append(acc.segments, [kind |-> "activity", parts |-> {i}]),
          run |-> Len(acc.segments) + 1]
    [] OTHER ->
         [segments |-> Append(acc.segments, [kind |-> "content", parts |-> {i}]),
          run |-> IF EndsRun(ps[i]) THEN 0 ELSE acc.run]

SegmentsUpTo(ps) ==
  LET upTo[n \in 0..Len(ps)] ==
        IF n = 0 THEN [segments |-> <<>>, run |-> 0] ELSE Segmented(ps, upTo[n - 1], n)
  IN upTo

ToSegments(ps) == SegmentsUpTo(ps)[Len(ps)].segments

(* ActivityPanel: open while a step runs, unless the reader chose.         *)
PanelOpen(ps, override, i, segment) ==
  IF i \in DOMAIN override THEN override[i] ELSE \E j \in segment.parts : IsRunning(ps[j])

(* The steps that exist: those of open panels.                             *)
MountedSteps(ps, override) ==
  LET segments == ToSegments(ps) IN
  UNION {segments[i].parts : i \in
    {k \in DOMAIN segments : /\ segments[k].kind = "activity"
                             /\ PanelOpen(ps, override, k, segments[k])}}

(* ActivityStep: reasoning is open while it streams, a failure on arrival. *)
AutoOpen(p) ==
  \/ p.kind = "reasoning" /\ p.state = "running"
  \/ p.kind = "tool" /\ p.state = "failed"

StepOpen(ps, override, j) == IF j \in DOMAIN override THEN override[j] ELSE AutoOpen(ps[j])

(* React renders: steps of closed panels lose what they knew, those of     *)
(* opened ones begin anew, the others change where their `open` changed.   *)
Render(overridden, flipped, handled) ==
  LET mounted == MountedSteps(parts', panelsOpen')
      before == DOMAIN shown
      old(j) == IF j \in before THEN shown[j] # (j \in flipped) ELSE FALSE
      open(j) == StepOpen(parts', stepsOpen', j)
      new(j) == IF j \in before /\ open(j) = StepOpen(parts, stepsOpen, j) THEN old(j) ELSE open(j)
  IN
  /\ stepsOpen' = [j \in (DOMAIN stepsOpen \cup DOMAIN overridden) \cap mounted |->
                     IF j \in DOMAIN overridden THEN overridden[j] ELSE stepsOpen[j]]
  /\ shown' = [j \in mounted |-> new(j)]
  /\ toggled' = (((toggled \cup flipped) \ handled) \cap mounted)
                  \cup {j \in mounted : new(j) # old(j)}
  /\ chosen' = [first |-> [i \in DOMAIN panelsOpen' |->
                    IF i \in DOMAIN panelsOpen THEN chosen.first[i]
                    ELSE CHOOSE j \in ToSegments(parts)[i].parts :
                           \A k \in ToSegments(parts)[i].parts : j <= k],
                closed |-> {j \in mounted : IF j \in flipped THEN shown[j]
                                            ELSE j \in chosen.closed}]

-----------------------------------------------------------------------------
(* The stream appends a part, or settles a step.                           *)
AppendPart(kind) ==
  /\ Len(parts) < MaxParts
  /\ parts' = Append(parts, [kind |-> kind,
                             state |-> IF kind \in {"reasoning", "tool"} THEN "running" ELSE "done"])
  /\ UNCHANGED panelsOpen
  /\ Render(<<>>, {}, {})

SettlePart(j) ==
  /\ IsRunning(parts[j])
  /\ \E state \in {"done"} \cup (IF parts[j].kind = "tool" THEN {"failed"} ELSE {}) :
       parts' = [parts EXCEPT ![j].state = state]
  /\ UNCHANGED panelsOpen
  /\ Render(<<>>, {}, {})

(* The reader clicks on a panel, or on a step.                             *)
TogglePanel(i) ==
  /\ ToSegments(parts)[i].kind = "activity"
  /\ panelsOpen' = [k \in DOMAIN panelsOpen \cup {i} |->
       IF k = i THEN ~PanelOpen(parts, panelsOpen, i, ToSegments(parts)[i]) ELSE panelsOpen[k]]
  /\ UNCHANGED parts
  /\ Render(<<>>, {}, {})

ToggleStep(j) ==
  /\ j \in DOMAIN shown
  /\ UNCHANGED <<parts, panelsOpen>>
  /\ Render(<<>>, {j}, {})

(* onToggle.                                                               *)
HandleToggle(j) ==
  /\ j \in toggled
  /\ UNCHANGED <<parts, panelsOpen>>
  /\ Render([k \in {j} |-> shown[j]], {}, {j})

(* The reader comes back to the conversation: everything is mounted anew.  *)
Revisit ==
  LET open == [j \in MountedSteps(parts, <<>>) |-> AutoOpen(parts[j])] IN
  /\ panelsOpen' = <<>> /\ stepsOpen' = <<>>
  /\ shown' = open
  /\ toggled' = {j \in DOMAIN open : open[j]}
  /\ chosen' = [first |-> <<>>, closed |-> {}]
  /\ UNCHANGED parts

TranscriptNext ==
  \/ \E kind \in PartKind : AppendPart(kind)
  \/ \E j \in DOMAIN parts : SettlePart(j) \/ ToggleStep(j) \/ HandleToggle(j)
  \/ \E i \in DOMAIN ToSegments(parts) : TogglePanel(i)
  \/ Revisit

TranscriptSpec == TranscriptInit /\ [][TranscriptNext]_transcriptVars

-----------------------------------------------------------------------------
Prose(j) == parts[j].kind \in {"text", "file"}

(* Steps are in one panel exactly when no prose is between them, what the  *)
(* reader chose of a panel stays with its steps although the panel is      *)
(* known by its place among segments that every part computes anew         *)
(* ($sessionId.tsx 44-71, 107-109).                                        *)
PanelsHoldTheirRun ==
  LET segments == ToSegments(parts)
      together(j, k) == \E i \in DOMAIN segments : {j, k} \subseteq segments[i].parts
  IN
  /\ \A j \in DOMAIN parts : together(j, j)
  /\ \A j, k \in DOMAIN parts : j < k =>
       (together(j, k) <=> /\ IsActivityPart(parts[j]) /\ IsActivityPart(parts[k])
                           /\ \A between \in j..k : ~Prose(between))
  /\ \A i \in DOMAIN panelsOpen :
       /\ i \in DOMAIN segments /\ chosen.first[i] \in segments[i].parts
       /\ \A j \in segments[i].parts : chosen.first[i] <= j

(* "A failed step is the one thing nobody should have to click to see"     *)
(* (activityPanel.tsx 120-121): in an open panel it is open unless the     *)
(* reader closed it, whatever events are under way.                        *)
FailuresOpen ==
  \A j \in DOMAIN shown :
    parts[j].kind = "tool" /\ parts[j].state = "failed" => shown[j] \/ j \in chosen.closed

TranscriptKept == PanelsHoldTheirRun /\ FailuresOpen

=============================================================================
