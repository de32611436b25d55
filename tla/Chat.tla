-------------------------------- MODULE Chat --------------------------------
(***************************************************************************)
(* The chat assistant: the panel's transcript, one reply streamed into it, *)
(* and what the server checks of it (ChatWidget.tsx, lib/chat.ts,          *)
(* chat_handler.go).                                                       *)
(*                                                                         *)
(* A message is what the server's check tells apart: nothing yet, white    *)
(* space, or text.  Who said it matters to no step.                        *)
(***************************************************************************)
EXTENDS Integers, Sequences

SE == INSTANCE SequencesExt   \* Front, Last, ReplaceAt, Max

CONSTANTS
  Window,       \* maxChatMessages: 20 in the code
  MaxMessages   \* bounds the transcript

ASSUME ChatAssumption == Window \in Nat \ {0} /\ MaxMessages \in Nat

Said == {"nothing", "space", "text"}
Widgets == {"up", "signed out", "reloading"}

VARIABLES
  transcript,   \* messages, and the copy of them in the session storage
  widget,       \* "up" while someone is signed in, "signed out" or "reloading"
  reply,        \* "none", "asked" or "coming": streaming is reply # "none"
  sent,         \* the messages of the request on its way
  blankAt       \* history: where a reply was last left without text, or 0

chatVars == <<transcript, widget, reply, sent, blankAt>>

-----------------------------------------------------------------------------
ChatInit ==
  /\ transcript = <<>> /\ widget = "up" /\ reply = "none" /\ sent = <<>>
  /\ blankAt = 0

\* An empty bubble goes up with the question, for the reply to grow in.
Send ==
  /\ widget = "up" /\ reply = "none" /\ Len(transcript) + 2 <= MaxMessages
  /\ transcript' = transcript \o <<"text", "nothing">>
  /\ sent' = Append(transcript, "text") /\ reply' = "asked"
  /\ UNCHANGED <<widget, blankAt>>

\* The server looks at the last messages only.
Recent(msgs) == SubSeq(msgs, SE!Max({1, Len(msgs) - Window + 1}), Len(msgs))

Accepted(msgs) == \A i \in DOMAIN Recent(msgs) : Recent(msgs)[i] = "text"

Accept ==
  /\ reply = "asked" /\ Accepted(sent) /\ reply' = "coming"
  /\ UNCHANGED <<transcript, widget, sent, blankAt>>

Grown(said, delta) == IF "text" \in {said, delta} THEN "text" ELSE delta

\* onToken: the server sends no empty delta.
Token(delta) ==
  /\ reply = "coming"
  /\ transcript' = SE!ReplaceAt(transcript, Len(transcript), Grown(SE!Last(transcript), delta))
  /\ UNCHANGED <<widget, reply, sent, blankAt>>

\* The reply's bubble stays as it is.
LeftAsIs == blankAt' = IF SE!Last(transcript) = "text" THEN blankAt ELSE Len(transcript)

Ends ==
  /\ reply = "coming" /\ reply' = "none" /\ sent' = <<>> /\ LeftAsIs
  /\ UNCHANGED <<transcript, widget>>

MutEmptyBubble == FALSE

EmptyBubble == SE!Last(transcript) = "nothing"

\* A refused request, a status that is not OK, an error frame or a broken read.
Fails ==
  /\ reply # "none" /\ reply' = "none" /\ sent' = <<>>
  /\ \/ EmptyBubble /\ transcript' = SE!Front(transcript) /\ UNCHANGED blankAt
     \/ ~EmptyBubble /\ UNCHANGED transcript
        /\ blankAt' = IF SE!Last(transcript) = "space" THEN Len(transcript) ELSE blankAt
  /\ UNCHANGED widget

\* A logout, a lost session or a reload: whoever streamed into the panel is gone,
\* the stored transcript is not.
Leave ==
  /\ widget = "up" /\ widget' \in Widgets \ {"up"}
  /\ reply' = "none" /\ sent' = <<>>
  /\ IF reply = "none" THEN UNCHANGED blankAt ELSE LeftAsIs
  /\ UNCHANGED transcript

\* loadHistory.
Return ==
  /\ widget # "up" /\ widget' = "up"
  /\ UNCHANGED <<transcript, reply, sent, blankAt>>

ChatNext ==
  \/ Send \/ Accept \/ \E delta \in {"space", "text"} : Token(delta)
  \/ Ends \/ Fails \/ Leave \/ Return

ChatSpec == ChatInit /\ [][ChatNext]_chatVars

-----------------------------------------------------------------------------
(* Properties.                                                             *)

\* Every variable has its type.
ChatTypeOK ==
  /\ transcript \in Seq(Said) /\ sent \in Seq(Said) /\ widget \in Widgets
  /\ reply \in {"none", "asked", "coming"} /\ blankAt \in 0 .. Len(transcript)

\* The panel asks nothing that the server refuses ("empty message content"),
\* except while a reply left without text is among the messages the server looks
\* at.  Such a reply is one whose page was left before its first word, one of a
\* model that said nothing or white space only, or one that failed after white
\* space: the panel drops a failed reply only when nothing at all of it had come.
\* A question refused or failed before its reply began leaves nothing behind
\* (ChatWidget.tsx send, validateChatMessages).
OnlyBlankRepliesRefuse ==
  reply = "asked" /\ ~Accepted(sent) => blankAt > Len(sent) - Window
=============================================================================
