---------------------------- MODULE StreamGuard ----------------------------
(***************************************************************************)
(* The guard of a streamed reply in block mode (ai-gateway/app/            *)
(* stream_guard.py): events are held back until the text they carry has    *)
(* been checked, with an overlap for a match that straddles two segments.  *)
(*                                                                         *)
(* A guard is a record that a call owns.  The text is abstracted to its    *)
(* length and to the first thing in it the detector would report, `match`: *)
(* the positions <<first, last>> it spans, of at most LongestMatch         *)
(* characters.  Positions count from 1.                                    *)
(***************************************************************************)
EXTENDS Integers, Sequences

CONSTANTS
  HoldBack,       \* GUARDRAILS_STREAM_HOLD_BACK_CHARS; 0 checks once, at the end
  Overlap,        \* OVERLAP_CHARS
  LongestMatch    \* the longest pattern the guard can promise anything about

ASSUME GuardAssumption ==
  /\ HoldBack \in Nat
  /\ Overlap \in Nat
  /\ LongestMatch \in Nat
  /\ LongestMatch <= Overlap + 1

NoMatch == <<0, 0>>

Guards == [reply : Nat,            \* characters received
           checked : Nat,          \* of which checked
           held : Seq(Nat),        \* for each event held back, where its text ends
           sent : Nat,             \* where the text of the last released event ends
           match : Nat \X Nat,     \* the first match, or NoMatch
           blind : BOOLEAN]        \* a check was let through without a detector

NewGuard == [reply |-> 0, checked |-> 0, held |-> << >>, sent |-> 0,
             match |-> NoMatch, blind |-> FALSE]

\* The matches that k more characters may complete.
MatchesIn(g, k) ==
  {NoMatch} \cup
    {m \in (1 .. g.reply + k) \X (g.reply + 1 .. g.reply + k) :
       m[1] <= m[2] /\ m[2] - m[1] < LongestMatch}

(***************************************************************************)
(* An event of k characters arrives, and with it perhaps the first match.  *)
(***************************************************************************)
Received(g, k, m) ==
  [g EXCEPT !.reply = @ + k,
            !.held = Append(@, g.reply + k),
            !.match = IF @ = NoMatch THEN m ELSE @]

CheckDue(g) == HoldBack > 0 /\ g.reply - g.checked >= HoldBack

\* What a check sees: from Overlap characters before the unchecked text.
WindowStart(g) == IF g.checked > Overlap THEN g.checked - Overlap ELSE 0

Detected(g) == g.match # NoMatch /\ g.match[1] > WindowStart(g)

Checked(g, seen) == [g EXCEPT !.checked = g.reply, !.blind = @ \/ ~seen]

(***************************************************************************)
(* The events whose text ends outside the overlap go out; ends never       *)
(* decrease, so they are the head of the queue.                            *)
(***************************************************************************)
\* Everything checked is taken to be safe.
SafeWhenChecked(g) == g.checked

Safe(g) == IF g.checked > Overlap THEN g.checked - Overlap ELSE 0

\* How many events go out: up to the first that is not safe.
Passing(g) ==
  {n \in 0 .. Len(g.held) : /\ \A i \in 1 .. n : g.held[i] <= Safe(g)
                            /\ n < Len(g.held) => g.held[n + 1] > Safe(g)}

Released(g, n) ==
  [g EXCEPT !.held = SubSeq(@, n + 1, Len(@)),
            !.sent = IF n = 0 THEN @ ELSE g.held[n]]

\* After the check at the end of the stream, all that is held.
ReleasedAll(g) == Released(g, Len(g.held))

(***************************************************************************)
(* No character of a match has been sent.  The text before it may have     *)
(* been.                                                                   *)
(***************************************************************************)
Unsent(g) == g.match # NoMatch => g.sent < g.match[1]

=============================================================================
