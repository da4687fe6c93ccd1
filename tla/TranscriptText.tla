---------------------------- MODULE TranscriptText ----------------------------
(***************************************************************************)
(* What a message of a run becomes before it leaves the pod: the text part *)
(* of pi/pi-extensions/ainsel-runner/index.ts (toConversationPayloads with *)
(* redactSecrets, capToolResultContent and truncateWithMarker).  Secrets   *)
(* are replaced and tool results cut, and both are done twice, to the      *)
(* blocks and to the JSON text of the whole message.                       *)
(*                                                                         *)
(* A text is a sequence of characters.  Quote and Escape stand for what    *)
(* JSON changes: a Quote becomes an Escape and a Quote.  A message is      *)
(* written piece by piece, so that a secret can come to lie anywhere; the  *)
(* state holds the message, what the hub is sent is a function of it.      *)
(***************************************************************************)
EXTENDS Naturals, Sequences, SequencesExt, FiniteSetsExt

CONSTANTS
  Environment,     \* the variables: [key, value]
  Denylist,        \* REDACTION_DENYLIST and its prefixes
  MinSecret,       \* MIN_SECRET_LENGTH
  Pieces,          \* what a message is written from
  BlockCaps,       \* values of TOOL_RESULT_MAX_CHARS
  MessageFloor,    \* the 128 000 characters a tool result may always have
  MaxChars,        \* bound: characters of a message
  MaxBlocks        \* bound: its blocks

Quote == "q"
Escape == "e"
Mask == "*"
Brace == "j"     \* what the JSON text of a message begins and ends with
Marker == "~"    \* "... [truncated n chars] ..."

VARIABLES
  message,    \* [role, form, blocks]: form says what kind of value its content is
  cap         \* TOOL_RESULT_MAX_CHARS

textVars == <<message, cap>>

Roles == {"user", "assistant", "toolResult", "other"}
Forms == {"string", "blocks", "object", "circular"}

-------------------------------------------------------------------------------
(* Secrets                                                                     *)

\* buildSecretList: every value of the environment that is long enough and whose
\* name is not listed; memoized, what is not listed is set once.
Secrets == {v.value : v \in {w \in Environment : Len(w.value) >= MinSecret /\ w.key \notin Denylist}}

\* JSON.stringify of a text.
Escaped(text) ==
  FoldLeft(LAMBDA out, c : out \o (IF c = Quote THEN <<Escape, Quote>> ELSE <<c>>), <<>>, text)

\* text.replaceAll(secret, "***"), for a secret that does not overlap itself.
ReplaceSecret(text, secret) ==
  FoldLeft(LAMBDA out, c :
             LET next == Append(out, c)
             IN IF IsSuffix(secret, next)
                THEN Append(SubSeq(next, 1, Len(next) - Len(secret)), Mask) ELSE next,
           <<>>, text)

\* redactSecrets: each secret, and then the form it has inside a JSON text.
RedactSecrets(text) ==
  FoldSet(LAMBDA secret, out : ReplaceSecret(ReplaceSecret(out, secret), Escaped(secret)), text, Secrets)

-------------------------------------------------------------------------------
(* Size                                                                        *)

\* truncateWithMarker: three quarters of the cap from the head, the rest from the tail.
TruncateWithMarker(text, max) ==
  LET head == (max * 3) \div 4
      tail == max - head
  IN IF Len(text) <= max THEN text
     ELSE SubSeq(text, 1, head) \o <<Marker>> \o SubSeq(text, Len(text) - tail + 1, Len(text))

\* Mutant: cut first.
CapBlockFirst(text) == RedactSecrets(TruncateWithMarker(text, cap))

\* A text block of a tool result: redacted, and then cut.
CapBlock(text) == TruncateWithMarker(RedactSecrets(text), cap)

\* capToolResultContent: a string is one text; a block that is no text keeps its
\* type only, and other values are left to the caller.
CapToolResultContent(m) ==
  [m EXCEPT !.blocks = IF m.form \in {"string", "blocks"}
                       THEN [i \in DOMAIN m.blocks |-> CapBlock(m.blocks[i])] ELSE m.blocks]

MessageCap == Max({MessageFloor, 8 * cap})

-------------------------------------------------------------------------------
(* The payload                                                                 *)

Stringify(m) == <<Brace>> \o Escaped(FlattenSeq(m.blocks)) \o <<Brace>>

\* A role it does not know is skipped, and what throws: a value JSON cannot hold,
\* and, but in a tool result, content that is neither a string nor blocks.
Skipped(m) ==
  m.role = "other" \/ m.form = "circular" \/ (m.form = "object" /\ m.role # "toolResult")

\* toConversationPayloads, of one message.
Payload(m) ==
  IF Skipped(m) THEN <<>>
  ELSE IF m.role = "toolResult"
  THEN TruncateWithMarker(RedactSecrets(Stringify(CapToolResultContent(m))), MessageCap)
  ELSE RedactSecrets(Stringify(m))

-------------------------------------------------------------------------------
TextInit ==
  /\ \E role \in Roles, form \in Forms : message = [role |-> role, form |-> form, blocks |-> <<<<>>>>]
  /\ cap \in BlockCaps

Size(m) == Len(FlattenSeq(m.blocks))

\* pi writes on ...
Write(piece) ==
  /\ Size(message) + Len(piece) <= MaxChars
  /\ message' = [message EXCEPT !.blocks[Len(message.blocks)] = @ \o piece]
  /\ UNCHANGED cap

\* ... or begins another block.
Break ==
  /\ message.form = "blocks" /\ Len(message.blocks) < MaxBlocks
  /\ message' = [message EXCEPT !.blocks = Append(@, <<>>)]
  /\ UNCHANGED cap

TextNext == Break \/ \E piece \in Pieces : Write(piece)

TextSpec == TextInit /\ [][TextNext]_textVars

-------------------------------------------------------------------------------
TextTypeOK ==
  /\ message.role \in Roles /\ message.form \in Forms
  /\ Len(message.blocks) \in 1..MaxBlocks /\ Size(message) <= MaxChars
  /\ cap \in BlockCaps

Letters(text) == {text[i] : i \in DOMAIN text}
SecretLetters == UNION {Letters(s) : s \in Secrets}

(* No part of a secret is ever sent, wherever the cuts fall ("so a secret can  *)
(* never be split across the head/tail window boundary") and whichever form    *)
(* JSON gave it; a payload stays within its cap and the marker; and what holds *)
(* no secret and fits is sent as it was written, the values of listed          *)
(* variables included.  (No other text of the instance has a secret's letters.)*)
PayloadsHold ==
  LET payload == Payload(message)
      text    == FlattenSeq(message.blocks)
  IN /\ Letters(payload) \intersect SecretLetters = {}
     /\ message.role = "toolResult" => Len(payload) <= MessageCap + 1
     /\ (/\ ~ Skipped(message)
         /\ Letters(text) \intersect SecretLetters = {}
         /\ message.role = "toolResult" => Len(text) <= cap)
        => payload = Stringify(message)
===============================================================================
