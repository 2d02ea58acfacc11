------------------------- MODULE CaptionLifecycle --------------------------
(***************************************************************************)
(* What the audit desk promises about a caption: a text is written by one  *)
(* person, passed by another after it was examined, and then published as  *)
(* it was passed, for good.  Rows, versions, keys, findings, digests and   *)
(* the audit chain are means to this end and are not seen here.            *)
(*                                                                         *)
(* It is the specification of CaptionWorkflow as its users see it.         *)
(***************************************************************************)
CONSTANTS None, Jobs, People, Contents, WebVTT

VARIABLES
  phase,    \* where the job stands
  text,     \* the text being worked on, with its author
  passedBy, \* who passed the text
  track     \* the track that was published

vars == <<phase, text, passedBy, track>>

Phases == {"unknown", "writing", "examined", "passed", "published"}

Texts == [content : Contents, author : People]

Init ==
  /\ phase    = [j \in Jobs |-> "unknown"]
  /\ text     = [j \in Jobs |-> None]
  /\ passedBy = [j \in Jobs |-> None]
  /\ track    = [j \in Jobs |-> None]

Open(j) ==
  /\ phase[j] = "unknown"
  /\ phase' = [phase EXCEPT ![j] = "writing"]
  /\ UNCHANGED <<text, passedBy, track>>

\* A new text replaces the old one at any time before publication, and has to
\* be examined and passed anew.
Write(j) ==
  /\ phase[j] \in {"writing", "examined", "passed"}
  /\ \E t \in Texts : text' = [text EXCEPT ![j] = t]
  /\ phase' = [phase EXCEPT ![j] = "writing"]
  /\ passedBy' = [passedBy EXCEPT ![j] = None]
  /\ UNCHANGED track

\* Examining a text, or settling what was found in it, may withdraw it from
\* review; it never passes it.
Examine(j) ==
  /\ phase[j] \in {"writing", "examined", "passed"}
  /\ text[j] # None
  /\ \E next \in {"writing", "examined"} : phase' = [phase EXCEPT ![j] = next]
  /\ passedBy' = [passedBy EXCEPT ![j] = None]
  /\ UNCHANGED <<text, track>>

Pass(j) ==
  /\ phase[j] = "examined"
  /\ \E p \in People \ {text[j].author} : passedBy' = [passedBy EXCEPT ![j] = p]
  /\ phase' = [phase EXCEPT ![j] = "passed"]
  /\ UNCHANGED <<text, track>>

Publish(j) ==
  /\ phase[j] = "passed"
  /\ phase' = [phase EXCEPT ![j] = "published"]
  /\ track' = [track EXCEPT ![j] = WebVTT[text[j].content]]
  /\ UNCHANGED <<text, passedBy>>

Next ==
  \E j \in Jobs : Open(j) \/ Write(j) \/ Examine(j) \/ Pass(j) \/ Publish(j)

Spec == Init /\ [][Next]_vars
=============================================================================
