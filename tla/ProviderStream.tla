--------------------------- MODULE ProviderStream ---------------------------
(***************************************************************************)
(* The stream of a reply (assistant/providers/openai.py and base.py): the  *)
(* adapter's thread reads rounds of server-sent events, runs the functions *)
(* a completed round calls and asks again, while the thread of cancel_run  *)
(* cancels its token and a timer closes the socket at the deadline.        *)
(*                                                                         *)
(* A read is blocked until the remote speaks or the source is closed, and  *)
(* the checks before and after it are part of it; elsewhere what the code  *)
(* does up to its next access to the token is one step.  Simplifications:  *)
(*  - An output item is a message or the call of a function, which stands  *)
(*    for its id, call_id, name and arguments together.                    *)
(*  - Reasoning items are messages.  Text is counted in chunks.            *)
(*  - Malformed events, arguments and tool results are one refusal each.   *)
(***************************************************************************)
EXTENDS Naturals, Sequences, FiniteSets

CONSTANTS Calls,       \* function calls, by call_id
          Message,     \* an item that is not a function call
          Unset,
          MaxSlots,    \* indexes of output items, below 32 in the code
          MaxHeard,    \* a bound of the model: items remembered in a round
          MaxText,     \* MAX_OUTPUT_CHARS
          MaxRounds,   \* MAX_TOOL_ROUNDS
          MaxCalls     \* MAX_TOOL_CALLS

Slots == 1 .. MaxSlots
Unplaced == 0          \* an event with no valid output_index

Items == Calls \union {Message}
ItemKind(item) == IF item \in Calls THEN "function_call" ELSE "message"

\* response.output_item.added shows the type of an item, and its id or not.
Identities == Calls \union {"function_call", "message"}
Matches(item, identity) == identity \in {item, ItemKind(item)}

VARIABLES
    tools,       \* the request offers functions
    step,        \* where the adapter is
    round, text,
    observed,    \* observed_items: slot -> the identity that was added
    doneItems,   \* done_items: slot -> the item that was completed
    functions,   \* function_indexes
    unindexed,   \* unindexed_output
    sawFunction, \* saw_function
    calls,       \* the calls of the round: <<slot, call>>, in order
    ran,         \* the calls that were run, over all rounds
    source,      \* the response: none, open, closed by its reader, or cut
    registered,  \* source.close is among the token's closers
    cancel,      \* how far CancellationToken.cancel is
    timedOut,    \* the deadline has passed
    told         \* the terminal event: none, done, an error code, abandoned

heardVars == <<observed, doneItems, functions, unindexed, sawFunction>>
callVars == <<calls, ran>>
adapterVars == <<tools, step, round, text, heardVars, callVars, source, registered, cancel,
                 timedOut, told>>

NothingHeard ==
    /\ observed = [s \in Slots |-> Unset] /\ doneItems = [s \in Slots |-> Unset]
    /\ functions = {} /\ unindexed = FALSE /\ sawFunction = FALSE

ForgetsRound ==
    /\ observed' = [s \in Slots |-> Unset] /\ doneItems' = [s \in Slots |-> Unset]
    /\ functions' = {} /\ unindexed' = FALSE /\ sawFunction' = FALSE

StreamInit ==
    /\ tools \in BOOLEAN /\ step = "idle" /\ round = 1 /\ text = 0
    /\ NothingHeard /\ calls = <<>> /\ ran = <<>>
    /\ source = "none" /\ registered = FALSE /\ cancel = "no"
    /\ timedOut = FALSE /\ told = "none"
-----------------------------------------------------------------------------
(* Stopping: the token, the deadline, and what is told.                    *)

Cancelled == cancel # "no"
Halted == Cancelled \/ timedOut
StopCode == IF Cancelled THEN "cancelled" ELSE "timeout"

\* The generator ends and forgets; its finally clauses unregister and close the
\* source.
Ends(code) ==
    /\ step' = "ended" /\ told' = code
    /\ source' = IF source = "open" THEN "closed" ELSE source
    /\ registered' = FALSE
    /\ calls' = <<>>
    /\ ForgetsRound

Proceeds(label) == step' = label /\ UNCHANGED <<source, registered, told, calls>>
MovesTo(label) == Proceeds(label) /\ UNCHANGED heardVars

\* Mutant of ReadCodes: an end of file is an end of file.
ReadCodesAtFaceValue == {"interrupted", "transport_error", "timeout"}

\* A read that returned nothing, or raised: a cancellation comes first, then the
\* deadline, and only then what it looks like.
ReadCodes ==
    IF Halted THEN {StopCode} ELSE {"interrupted", "transport_error", "timeout"}

\* cancel_run, once its own reads are over, cancels the token of a live stream:
\* CancellationToken.cancel sets the flag ...
CancelFlags ==
    /\ cancel = "no" /\ step \notin {"idle", "ended"}
    /\ cancel' = "flagged"
    /\ UNCHANGED <<tools, step, round, text, heardVars, callVars, source, registered,
                   timedOut, told>>

\* ... then copies the closers under the lock ...
CancelCopies ==
    /\ cancel = "flagged"
    /\ cancel' = IF registered THEN "copied" ELSE "over"
    /\ UNCHANGED <<tools, step, round, text, heardVars, callVars, source, registered,
                   timedOut, told>>

Cuts ==
    /\ source' = IF source = "open" THEN "cut" ELSE source
    /\ registered' = FALSE

\* ... and calls them.
CancelCloses ==
    /\ cancel = "copied"
    /\ cancel' = "over"
    /\ Cuts
    /\ UNCHANGED <<tools, step, round, text, heardVars, callVars, timedOut, told>>

Elapse ==
    /\ step \notin {"idle", "ended"} /\ ~timedOut
    /\ timedOut' = TRUE
    /\ UNCHANGED <<tools, step, round, text, heardVars, callVars, source, registered,
                   cancel, told>>

\* Mutant of Due: the deadline is only looked at by the reader.
DueWhileReading == step \in {"headers", "reading"}

\* The timer of _HTTPStream runs from its registration to its close.
Due == step # "admitted"

TimerCloses ==
    /\ timedOut /\ source = "open" /\ Due
    /\ Cuts
    /\ UNCHANGED <<tools, step, round, text, heardVars, callVars, cancel, timedOut, told>>
-----------------------------------------------------------------------------
(* A round is asked for.                                                   *)

BeginReply ==
    /\ step = "idle"
    /\ MovesTo("start")
    /\ UNCHANGED <<tools, round, text, ran, cancel, timedOut>>

StartRound ==
    /\ step = "start"
    /\ IF Halted THEN Ends(StopCode)
       ELSE MovesTo("opening")
    /\ UNCHANGED <<tools, round, text, ran, cancel, timedOut>>

\* _call: no usable credential, a failing request, or a response.
Ask ==
    /\ step = "opening"
    /\ \/ /\ step' = "admitted" /\ source' = "open"
          /\ UNCHANGED <<registered, told, calls, heardVars>>
       \/ \E code \in {"unauthorized"} \union (ReadCodes \ {"interrupted"}) : Ends(code)
    /\ UNCHANGED <<tools, round, text, ran, cancel, timedOut>>

\* Mutant of ClosesAtOnce: registration does not look at the flag.
ClosesNever == FALSE

ClosesAtOnce == Cancelled

\* register_close adds the closer and reads the flag under the lock.
Admit ==
    /\ step = "admitted"
    /\ step' = "headers"
    /\ IF ClosesAtOnce THEN source' = "cut" /\ registered' = TRUE
       ELSE registered' = TRUE /\ UNCHANGED source
    /\ UNCHANGED <<tools, round, text, heardVars, callVars, cancel, timedOut, told>>

\* The status and the first line: a stream, a refusal whose body may have to be
\* read, or a read that fails.
Headers ==
    /\ step = "headers"
    /\ \/ MovesTo("reading")
       \/ \E code \in {"refused"} \union (ReadCodes \ {"interrupted"}) : Ends(code)
    /\ UNCHANGED <<tools, round, text, ran, cancel, timedOut>>

\* The consumer asks for the next event; stream_response looks at the token.
Resume ==
    /\ step = "yielded"
    /\ IF Cancelled THEN Ends("cancelled") ELSE MovesTo("reading")
    /\ UNCHANGED <<tools, round, text, ran, cancel, timedOut>>

\* The consumer closes the generator where it waits.
Abandon ==
    /\ step = "yielded"
    /\ Ends("abandoned")
    /\ UNCHANGED <<tools, round, text, ran, cancel, timedOut>>
-----------------------------------------------------------------------------
(* Events of a round.                                                      *)

Reading == step = "reading" /\ ~Halted

Placed(f) == {s \in Slots : f[s] # Unset}
HasRoom == Cardinality(Placed(observed)) + Cardinality(Placed(doneItems)) < MaxHeard

\* Any event that shows a function call leaves a trace, placed or not.
NoticeFunction(slot) ==
    /\ sawFunction' = TRUE
    /\ functions' = functions \union ({slot} \intersect Slots)

\* response.output_item.added
HearAdded(slot, identity) ==
    LET clashes == slot \in Slots /\ observed[slot] \notin {Unset, identity}
        isCall == identity # "message"
    IN  /\ Reading /\ HasRoom
        /\ IF tools /\ clashes THEN Ends("invalid_response")
           ELSE /\ Proceeds("reading")
                /\ IF isCall THEN NoticeFunction(slot)
                   ELSE UNCHANGED <<sawFunction, functions>>
                /\ observed' = IF tools /\ slot \in Slots
                               THEN [observed EXCEPT ![slot] = identity] ELSE observed
                /\ unindexed' = (unindexed \/ (slot = Unplaced /\ (tools \/ isCall)))
                /\ UNCHANGED doneItems
    /\ UNCHANGED <<tools, round, text, ran, cancel, timedOut>>

\* response.function_call_arguments.*
HearArguments(slot) ==
    /\ Reading
    /\ Proceeds("reading")
    /\ NoticeFunction(slot)
    /\ unindexed' = (unindexed \/ slot = Unplaced)
    /\ UNCHANGED <<tools, round, text, observed, doneItems, ran, cancel, timedOut>>

\* response.output_item.done, and _remember_done_item
HearDone(slot, item) ==
    LET repeats == \/ slot = Unplaced
                   \/ slot \in Slots /\ doneItems[slot] # Unset
                   \/ item \in Calls /\ \E s \in Slots : doneItems[s] = item
    IN  /\ Reading /\ HasRoom
        /\ IF tools /\ repeats THEN Ends("invalid_response")
           ELSE /\ Proceeds("reading")
                /\ IF item \in Calls THEN NoticeFunction(slot)
                   ELSE UNCHANGED <<sawFunction, functions>>
                /\ doneItems' = IF tools THEN [doneItems EXCEPT ![slot] = item]
                                ELSE doneItems
                /\ unindexed' = (unindexed \/ (slot = Unplaced /\ item \in Calls))
                /\ UNCHANGED observed
    /\ UNCHANGED <<tools, round, text, ran, cancel, timedOut>>

HearText ==
    /\ Reading
    /\ IF text < MaxText THEN text' = text + 1 /\ MovesTo("yielded")
       ELSE UNCHANGED text /\ Ends("limit_exceeded")
    /\ UNCHANGED <<tools, round, ran, cancel, timedOut>>

\* Mutant of Agrees: the snapshot at the end is taken as it is.
AgreesAlways(items) == items = items

\* A repeated snapshot must agree with every item that was completed.
Agrees(items) == \A s \in Placed(doneItems) : s <= Len(items) /\ items[s] = doneItems[s]

\* Without one, every slot that was seen must have been completed.
AllClosed ==
    /\ ~unindexed
    /\ Placed(doneItems) = 1 .. Cardinality(Placed(doneItems))
    /\ Placed(observed) \subseteq Placed(doneItems)
    /\ \A s \in functions : doneItems[s] \in Calls

\* The items of a completed response, the streamed ones if it repeats none.
Output(items) ==
    IF items = <<>> THEN [s \in 1 .. Cardinality(Placed(doneItems)) |-> doneItems[s]]
    ELSE items

\* A function call that was streamed must be among the items.
CallsAreThere(output) ==
    /\ \A s \in functions : s <= Len(output) /\ output[s] \in Calls
    /\ sawFunction => \E i \in DOMAIN output : output[i] \in Calls

\* _completed_output, and the checks of _stream_round after it
Accepts(items) ==
    LET output == Output(items)
    IN  /\ IF items = <<>> THEN Placed(doneItems) = {} \/ AllClosed ELSE Agrees(items)
        /\ \A s \in Placed(observed) : s <= Len(output) /\ Matches(output[s], observed[s])
        /\ CallsAreThere(output)
        /\ tools \/ \A i \in DOMAIN output : output[i] = Message

\* The calls among the first n items, with their slots.
CallsOf(output) ==
    LET upTo[n \in 0 .. Len(output)] ==
            IF n = 0 THEN <<>>
            ELSE IF output[n] \in Calls THEN Append(upTo[n - 1], <<n, output[n]>>)
            ELSE upTo[n - 1]
    IN  upTo[Len(output)]

\* Mutant of AreFresh: only the calls of one response are compared.
AreFreshHere(todo) ==
    \A i, j \in DOMAIN todo : i # j => todo[i][2] # todo[j][2]

\* _tool_calls: no call_id twice, in this response or before it.
AreFresh(todo) ==
    /\ \A i, j \in DOMAIN todo : i # j => todo[i][2] # todo[j][2]
    /\ \A i \in DOMAIN todo, j \in DOMAIN ran : todo[i][2] # ran[j]

\* response.completed: the round is over and its source closed.  Its calls are
\* taken, or there are none and the reply is done.
HearCompleted(items) ==
    LET output == Output(items)
        todo == IF tools THEN CallsOf(output) ELSE <<>>
    IN  /\ Reading
        /\ IF ~(Accepts(items) /\ AreFresh(todo)) THEN Ends("invalid_response")
           ELSE IF todo = <<>> THEN Ends("done")
           ELSE IF round = MaxRounds \/ Len(ran) + Len(todo) > MaxCalls
           THEN Ends("limit_exceeded")
           ELSE /\ calls' = todo /\ step' = "tools"
                /\ source' = "closed" /\ registered' = FALSE
                /\ ForgetsRound
                /\ UNCHANGED told
    /\ UNCHANGED <<tools, round, text, ran, cancel, timedOut>>

\* response.incomplete, response.failed, error, [DONE], or no event at all
HearFailure ==
    /\ Reading
    /\ \E code \in {"incomplete", "provider_error", "invalid_response", "interrupted"} :
           Ends(code)
    /\ UNCHANGED <<tools, round, text, ran, cancel, timedOut>>

\* The read is over without an event to handle, or too late to handle it.
ReadEnds ==
    /\ step = "reading"
    /\ \E code \in ReadCodes : Ends(code)
    /\ UNCHANGED <<tools, round, text, ran, cancel, timedOut>>
-----------------------------------------------------------------------------
(* The functions of a round, one after the other.                          *)

RunCall ==
    /\ step = "tools"
    /\ IF Halted THEN Ends(StopCode) /\ UNCHANGED ran
       ELSE MovesTo("running") /\ ran' = Append(ran, Head(calls)[2])
    /\ UNCHANGED <<tools, round, text, cancel, timedOut>>

\* The tool refuses, or its result is kept for the next round.
ToolReturns ==
    /\ step = "running"
    /\ \/ \E code \in {"refused", "cancelled", "timeout"} : Ends(code) /\ UNCHANGED round
       \/ Halted /\ Ends(StopCode) /\ UNCHANGED round
       \/ /\ ~Halted
          /\ calls' = Tail(calls)
          /\ IF Len(calls) > 1 THEN step' = "tools" /\ UNCHANGED round
             ELSE step' = "start" /\ round' = round + 1
          /\ UNCHANGED <<source, registered, told, heardVars>>
    /\ UNCHANGED <<tools, text, ran, cancel, timedOut>>

Hears ==
    \/ \E slot \in Slots \union {Unplaced} :
           \/ \E identity \in Identities : HearAdded(slot, identity)
           \/ \E item \in Items : HearDone(slot, item)
           \/ HearArguments(slot)
    \/ HearText \/ HearFailure
    \/ \E items \in UNION {[1 .. n -> Items] : n \in 0 .. MaxSlots} : HearCompleted(items)

StreamNext ==
    \/ BeginReply \/ StartRound \/ Ask \/ Admit \/ Headers \/ Resume \/ Abandon
    \/ Hears \/ ReadEnds \/ RunCall \/ ToolReturns
    \/ CancelFlags \/ CancelCopies \/ CancelCloses \/ Elapse \/ TimerCloses

StreamSpec == StreamInit /\ [][StreamNext]_adapterVars

\* Threads run and time passes.  The remote may stay silent for ever: only a read
\* whose source is cut must return.  The consumer need not ask for more.
StreamFairness ==
    /\ WF_adapterVars(\/ StartRound \/ Ask \/ Admit \/ RunCall \/ ToolReturns
                      \/ source = "cut" /\ (Headers \/ ReadEnds))
    /\ WF_adapterVars(Elapse \/ TimerCloses)

FairStreamSpec == StreamSpec /\ StreamFairness
-----------------------------------------------------------------------------
\* No call is run twice in a reply, those run are the ones the stream showed at
\* their slots, and a reply is not called done while one that was streamed, in
\* whatever fragments, was left out.
RunsOnce == \A i, j \in DOMAIN ran : i # j => ran[i] # ran[j]

TakesWhatWasShown(taken) ==
    /\ \A s \in functions : \E i \in DOMAIN taken : taken[i][1] = s
    /\ \A i \in DOMAIN taken :
           /\ doneItems[taken[i][1]] \in {Unset, taken[i][2]}
           /\ observed[taken[i][1]] # Unset => Matches(taken[i][2], observed[taken[i][1]])

CallsAreRunAsStreamed ==
    /\ []RunsOnce
    /\ [][/\ step' = "tools" /\ step = "reading" => TakesWhatWasShown(calls')
          /\ told' = "done" => told = "done" \/ ~sawFunction]_adapterVars

CancelCuts ==
    /\ cancel = "over" /\ step \in {"headers", "reading"} => source # "open"
    /\ told \in {"interrupted", "transport_error", "refused"} /\ source = "cut" =>
           told = "refused" /\ Halted

\* Once cancel has returned no read is left blocked on an open connection, and a
\* stream this side cut is never blamed on the other (base.py, CancellationToken).
CancelTakesHold == [][CancelCuts']_adapterVars

\* A connection is given back though the remote says nothing and nobody asks for
\* more, and then nobody is left waiting for it (openai.py, _HTTPStream.close).
ConnectionsAreReleased ==
    source = "open" ~> source # "open" /\ step \notin {"admitted", "headers", "reading"}
=============================================================================
