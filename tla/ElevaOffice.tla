---------------------------- MODULE ElevaOffice ----------------------------
(***************************************************************************)
(* Conversations with Eleva and the memory entries they leave behind       *)
(* (ElevaMemoryService, ElevaAdvisoryService), the voice state and the     *)
(* agent's status.  A reply is computed without leaving the process, so a  *)
(* message and its reply are one step.                                     *)
(***************************************************************************)
EXTENDS Values, FiniteSets

CONSTANTS
  Conversations,
  MaxMessages,   \* bound: messages of one conversation
  MaxNotes       \* bound: notes in the memory at a time

ASSUME OfficeAssumption == MaxMessages \in Nat

VARIABLES
  conversation,  \* id -> [open, messages, keyed]
  notes,         \* the memory entries of all conversations, newest first
  voice,
  status         \* [status, active]: ElevaService.state

officeVars == <<conversation, notes, voice, status>>

\* The keys of memory entries: two that name the conversation, and one that
\* anybody may write.  A text is known by where it comes from and what it says.
Key(name, c) == [name |-> name, of |-> c]
FreeKey == Key("note", None)
MemoryKeys == {Key(name, c) : name \in {"last-user-message", "last-response"}, c \in Conversations}
              \cup {FreeKey}
Text(from, what) == [from |-> from, what |-> what]
Advisory == "advisory"
Blank(open) == [open |-> open, messages |-> <<>>, keyed |-> FALSE]
VoiceStates == {"IDLE", "LISTENING", "STOPPED", "MUTED"}
VoiceEvents == {"WAKE_DETECTED", "STOPPED", "MUTED", "RESUME", "other"}
Capabilities == {"ACCOUNTING", "DEVOPS"}
NoCapability == "none"

OfficeTypeOK ==
  /\ \A c \in Conversations :
       /\ conversation[c].open \in BOOLEAN /\ conversation[c].keyed \in BOOLEAN
       /\ Len(conversation[c].messages) <= MaxMessages
  /\ \A i \in DOMAIN notes : notes[i].class \in {"VERIFIED", "RECOMMENDATION"} /\ notes[i].tag \in Conversations
  /\ voice \in VoiceStates
  /\ status.status \in {"IDLE", "RUNNING", "ERROR"}
  /\ status.active \in Capabilities \cup {NoCapability}

OfficeInit ==
  /\ conversation = [c \in Conversations |-> Blank(FALSE)]
  /\ notes = <<>>
  /\ voice = "IDLE"
  /\ status = [status |-> "IDLE", active |-> NoCapability]

\* remember: one entry per category and key in the whole map; an update, which
\* may change the tag, moves it to the front of recall().
Remembered(list, key, tag, class, text) ==
  <<[key |-> key, tag |-> tag, class |-> class, text |-> text]>>
    \o Kept(list, {i \in DOMAIN list : list[i].key # key})

\* Mutant: recall without the tag, as for the office's own list.
recallUntagged(list, c) == list

\* recall of the entries tagged with the conversation.
recall(list, c) == Kept(list, {i \in DOMAIN list : list[i].tag = c})

\* startConversation: the id is made of the user and the millisecond; an id
\* that exists starts over, its memory entries stay.
startConversation(c) ==
  /\ conversation' = [conversation EXCEPT ![c] = Blank(TRUE)]
  /\ UNCHANGED <<notes, voice, status>>

\* advise: a request to execute something is told to go through the approval
\* pipeline; otherwise the finding says whether there were facts to go by.
advise(kind, hasFacts) ==
  CASE kind = "execute" -> [finding |-> Text(Advisory, "execution_detected"),
                            recommendation |-> <<Text(Advisory, "route_through_approval")>>]
    [] kind # "execute" /\ hasFacts -> [finding |-> Text(Advisory, "context_supplied"), recommendation |-> <<>>]
    [] OTHER -> [finding |-> Text(Advisory, "no_facts"), recommendation |-> <<Text(Advisory, "supply_facts")>>]

\* extractLabels: the recommendations of the finding first, then those
\* remembered.
Recommendations(finding, list) ==
  finding.recommendation \o
  LET recommended == Kept(list, {i \in DOMAIN list : list[i].class = "RECOMMENDATION"})
  IN  [i \in 1..Len(recommended) |-> recommended[i].text]

\* The reply is the first recommendation, else the first fact.
Reply(finding, list) ==
  LET recommended == Recommendations(finding, list)
  IN  IF recommended = <<>> THEN finding.finding ELSE Head(recommended)

\* respondToConversation: the user's message is appended (and remembered when
\* it is the first), what is remembered under this conversation is the
\* evidence, the reply is appended and remembered as the last response.
respondToConversation(c, kind) ==
  LET said == Text(c, kind)
      heard == IF conversation[c].keyed THEN notes
               ELSE Remembered(notes, Key("last-user-message", c), c, "VERIFIED", said)
      evidence == recall(heard, c)
      reply == Reply(advise(kind, evidence # <<>>), evidence)
  IN  /\ conversation[c].open
      /\ Len(conversation[c].messages) + 2 <= MaxMessages
      /\ conversation' = [conversation EXCEPT ![c].messages = @ \o <<said, reply>>, ![c].keyed = TRUE]
      /\ notes' = Remembered(heard, Key("last-response", c), c, "RECOMMENDATION", reply)
      /\ UNCHANGED <<voice, status>>

\* POST memory with a conversation's tag, under any key: it takes over the entry
\* another conversation has there.
RememberNote(c, key, class) ==
  /\ Cardinality({i \in DOMAIN notes : notes[i].text.what = "note" /\ notes[i].key # key}) < MaxNotes
  /\ notes' = Remembered(notes, key, c, class, Text(c, "note"))
  /\ UNCHANGED <<conversation, voice, status>>

\* ElevaVoiceService.transition: a muted voice ignores the wake word; an event
\* it does not know makes it idle.
transition(event) ==
  /\ voice' = CASE event = "WAKE_DETECTED" -> IF voice = "MUTED" THEN "MUTED" ELSE "LISTENING"
                [] event \in {"STOPPED", "MUTED"} -> event
                [] OTHER -> "IDLE"
  /\ UNCHANGED <<conversation, notes, status>>

startCapability(k) ==
  /\ status' = [status |-> "RUNNING", active |-> k]
  /\ UNCHANGED <<conversation, notes, voice>>

\* stopCapability and failCapability.
EndCapability(how) ==
  /\ status' = [status |-> how, active |-> NoCapability]
  /\ UNCHANGED <<conversation, notes, voice>>

ConversationNext ==
  \E c \in Conversations :
    \/ startConversation(c)
    \/ \E kind \in {"question", "execute"} : respondToConversation(c, kind)
    \/ \E key \in MemoryKeys, class \in {"VERIFIED", "RECOMMENDATION"} : RememberNote(c, key, class)

VoiceNext ==
  \/ \E event \in VoiceEvents : transition(event)
  \/ \E k \in Capabilities : startCapability(k)
  \/ \E how \in {"IDLE", "ERROR"} : EndCapability(how)

OfficeSpec == OfficeInit /\ [][ConversationNext \/ VoiceNext]_officeVars

---------------------------------------------------------------------------
(* Properties *)

\* Eleva never answers in one conversation with what was said or noted in
\* another, although all leave their memory entries in one map, where an entry
\* may be taken over with its key (remember, recall by tag).
NoCrossTalk ==
  \A c \in Conversations : \A i \in DOMAIN conversation[c].messages :
    conversation[c].messages[i].from \in {c, Advisory}

\* A request to execute something is always answered with the way through the
\* approval pipeline, whatever was remembered or recommended before
\* (respondToConversation, extractLabels).
ExecutionIsRouted ==
  \A c \in Conversations : \A i \in DOMAIN conversation[c].messages :
    conversation[c].messages[i] = Text(c, "execute") =>
      conversation[c].messages[i + 1] = Text(Advisory, "route_through_approval")

\* What a conversation may count on (respondToConversation): answers of its own, and no
\* execution outside the approval pipeline.
OfficeInv ==
  /\ OfficeTypeOK
  /\ NoCrossTalk
  /\ ExecutionIsRouted
=============================================================================
