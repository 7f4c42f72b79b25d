---------------------------- MODULE Conversation ----------------------------
(***************************************************************************)
(* The ordered history an agent sends to its model (flashmind-core,        *)
(* conversation.rs) and the operations the agent loop applies to it.       *)
(*                                                                         *)
(* An entry keeps what the loop's behaviour depends on: its kind, which    *)
(* text it is, the tool calls an assistant entry makes, the call a tool    *)
(* entry answers, the request a continuation reminder repeats and whether  *)
(* an attachment is still in it.  Sizes are abstracted: where the code     *)
(* compares character counts with a budget, every split it can reach is a  *)
(* possible one.                                                           *)
(***************************************************************************)
LOCAL INSTANCE Naturals
LOCAL INSTANCE Sequences
Seqs == INSTANCE SequencesExt

NoCall == 0
NoText == "none"

\* The texts the loop tells apart.  A blank assistant text is "blank".
Entry(kind, text) ==
  [kind |-> kind, text |-> text, calls |-> <<>>, call |-> NoCall,
   about |-> NoText, binary |-> FALSE]

System == Entry("system", "prompt")
Note(text) == Entry("note", text)
Reminder(text) == Entry("reminder", text)
User(text, binary) == [Entry("user", text) EXCEPT !.binary = binary]
Assistant(text) == Entry("assistant", text)
AssistantCalls(text, calls) == [Assistant(text) EXCEPT !.calls = calls]
ToolOutput(id, text, binary) ==
  [Entry("tool", text) EXCEPT !.call = id, !.binary = binary]
Summary == Entry("summary", "summary")

\* The reminder that repeats the request a compaction summarized away.
Continuation(request) == [Reminder("continuation") EXCEPT !.about = request]

IsUser(e) == e.kind = "user"
IsAssistant(e) == e.kind = "assistant"
IsTool(e) == e.kind = "tool"
IsReminder(e) == e.kind = "reminder"

\* The elements of `seq` at the positions in `kept`, in order.
Select(seq, kept) ==
  LET upTo[n \in 0..Len(seq)] ==
        IF n = 0 THEN <<>>
        ELSE IF n \in kept THEN Append(upTo[n - 1], seq[n]) ELSE upTo[n - 1]
  IN upTo[Len(seq)]

Without(conv, Test(_)) == Select(conv, {i \in DOMAIN conv : ~Test(conv[i])})
StripReminders(conv) == Without(conv, IsReminder)

\* Move this reminder to the end without removing unrelated ones.
RefreshReminder(conv, text) ==
  Append(Without(conv, LAMBDA e : IsReminder(e) /\ e.text = text), Reminder(text))

---------------------------------------------------------------------------
(* Pairing of tool calls with their results. *)

CallIds(e) == {e.calls[i].id : i \in DOMAIN e.calls}
CalledIds(conv) == UNION {CallIds(conv[i]) : i \in DOMAIN conv}
AnsweredIds(conv) == {conv[i].call : i \in {j \in DOMAIN conv : IsTool(conv[j])}}

PairedIds(conv) == CalledIds(conv) \cap AnsweredIds(conv)

\* The entry without its calls that are not among `ids`.
OnlyCalls(e, ids) ==
  [e EXCEPT !.calls = Select(@, {k \in DOMAIN @ : @[k].id \in ids})]

\* mutant: unpaired calls and results go, but results stay where they are.
SanitizeInPlace(conv) ==
  LET kept == Without(conv, LAMBDA e : IsTool(e) /\ e.call \notin PairedIds(conv))
  IN [i \in DOMAIN kept |-> OnlyCalls(kept[i], PairedIds(conv))]

\* The last result recorded for a call: a later one replaces an earlier one.
ResultOf(conv, id) ==
  conv[Seqs!SelectLastInSeq(conv, LAMBDA e : IsTool(e) /\ e.call = id)]

WithResults(conv, e) ==
  <<e>> \o [k \in DOMAIN e.calls |-> ResultOf(conv, e.calls[k].id)]

(***************************************************************************)
(* Drop calls without a result and results without a call, and move every  *)
(* result right behind the assistant entry that made its call, in call     *)
(* order.                                                                  *)
(***************************************************************************)
Sanitize(conv) ==
  LET others == Without(conv, IsTool)
      Rebuilt(e) == WithResults(conv, OnlyCalls(e, PairedIds(conv)))
  IN Seqs!FlattenSeq([i \in DOMAIN others |-> Rebuilt(others[i])])

---------------------------------------------------------------------------
(* Attachments a provider may reject. *)

HasBinary(conv) == \E i \in DOMAIN conv : conv[i].binary
StripBinary(conv) == [i \in DOMAIN conv |-> [conv[i] EXCEPT !.binary = FALSE]]

---------------------------------------------------------------------------
(* Compaction: older history becomes one summary entry. *)

Prefix(conv) == IF conv # <<>> /\ conv[1].kind = "system" THEN 1 ELSE 0

Summarizable(e) == e.kind \notin {"system", "reminder"} /\ e.text # "blank"

\* What stands in front of `keep` and goes into the summary.
ToSummarize(conv, keep) ==
  {i \in (Prefix(conv) + 1)..(keep - 1) : Summarizable(conv[i])}

\* The newest user, assistant or tool entry is not a final assistant reply.
TurnInProgress(conv) ==
  LET last == Seqs!SelectLastInSeq(conv, LAMBDA e : IsUser(e) \/ IsAssistant(e) \/ IsTool(e))
  IN last # 0 /\ ~(IsAssistant(conv[last]) /\ conv[last].calls = <<>>)

UserTurns(conv) == {i \in (Prefix(conv) + 1)..Len(conv) : IsUser(conv[i])}
KeepNothing(conv) == Len(conv) + 1

(***************************************************************************)
(* Where the kept tail can start under a token budget.  The walk backwards *)
(* stops at the user entry that reaches the budget, whichever that is;     *)
(* without a user entry, or when an unfinished turn alone is over budget,  *)
(* nothing is kept.                                                        *)
(***************************************************************************)
KeepRecentFrom(conv) ==
  UserTurns(conv) \cup
    (IF UserTurns(conv) = {} \/ TurnInProgress(conv) THEN {KeepNothing(conv)} ELSE {})

\* Asks the model to carry on when no user entry is kept in mid-task.
ContinuationAfter(conv, keep) ==
  LET request == Seqs!SelectLastInSubSeq(conv, 1, keep - 1, IsUser)
      earlier == Seqs!SelectLastInSeq(conv, LAMBDA e : e.text = "continuation" /\ e.about # NoText)
  IN IF (\E i \in keep..Len(conv) : IsUser(conv[i])) \/ ~TurnInProgress(conv)
     THEN <<>>
     ELSE <<Continuation(IF request # 0 THEN conv[request].text
                         ELSE IF earlier # 0 THEN conv[earlier].about ELSE NoText)>>

\* The conversation after a summary was written for the entries before `keep`.
Compacted(conv, keep) ==
  SubSeq(conv, 1, Prefix(conv)) \o <<Summary>>
    \o StripReminders(SubSeq(conv, keep, Len(conv))) \o ContinuationAfter(conv, keep)

---------------------------------------------------------------------------
(* The reply that a continuation joins. *)

ContinueNote == "continue"

EndsCutOff(conv) ==
  /\ Len(conv) >= 2
  /\ IsReminder(Seqs!Last(conv)) /\ Seqs!Last(conv).text = ContinueNote
  /\ IsAssistant(conv[Len(conv) - 1])

\* Join `text` to the cut-off reply, dropping the note, or add a new reply.
AddReply(conv, text) ==
  IF EndsCutOff(conv)
  THEN LET cut == Len(conv) - 1
           joined == IF text = "blank" THEN conv[cut].text ELSE text
       IN [SubSeq(conv, 1, cut) EXCEPT ![cut].text = joined]
  ELSE Append(conv, Assistant(text))
=============================================================================
