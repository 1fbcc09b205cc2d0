-------------------------------- MODULE Answer --------------------------------
(***************************************************************************)
(* What becomes of a streamed answer: internal/runtime/event_mapper.go and *)
(* the processEvent of runStream, and what RunMessages makes of the text,  *)
(* the images and the tool calls it leaves.                                *)
(*                                                                         *)
(* The server says a text word by word, names images and makes tool calls. *)
(* In chat mode each chunk carries a delta.  In responses mode a text is   *)
(* streamed, then stated again by the events that end its part and its     *)
(* item, and so are the arguments of a call.                               *)
(***************************************************************************)
EXTENDS Integers, SequencesExt

CONSTANTS
  Words,      \* tokens of a text
  Space,      \* the one that is white space
  Urls,       \* images
  Indices,    \* positions of tool calls
  Pieces,     \* pieces the arguments of a call are sent in
  MaxWords,   \* bound: words said
  MaxParts,   \* bound: content parts of the answer (responses)
  MaxStated,  \* bound: statements of the arguments of one call (responses)
  MaxErrors,  \* bound: error events
  MaxUsage,   \* bound: token counts are 0 .. MaxUsage
  None

ASSUME AnswerAssumption ==
  /\ Space \in Words /\ Indices \subseteq Nat /\ Pieces \in Nat \ {0}
  /\ {MaxWords, MaxParts, MaxStated, MaxErrors, MaxUsage} \subseteq Nat
  /\ None \notin Words \cup Urls \cup Nat

VARIABLES
  mode,      \* opts.OpenRouterAPIMode
  partial,   \* opts.IncludePartialMessages
  event,     \* the event that is on its way, or None
  \* the server
  said,      \* its text
  part,      \* number and first word of its content part, and the events that stated it again
  named,     \* images it has sent
  asked,     \* of each call, the argument pieces streamed, and how often they were stated
  reported,  \* the last token count that is not 0, and the error events
  over,      \* it has finished
  unclear,   \* history variable: it has sent what reads as a restatement and is none, or
             \* a restatement that does not read as one
  \* the client
  text, images, calls, usage, errors,
  shown,     \* what the application was shown: words and images
  done       \* "no", "cancelled", or "yes": the stream was read to its end

serverVars == <<said, part, named, asked, reported, over, unclear>>
clientVars == <<text, images, calls, usage, errors, shown, done>>
vars == <<mode, partial, event, serverVars, clientVars>>

Whole     == [i \in 1 .. Pieces |-> i]
NoCall    == [id |-> None, args |-> <<>>]
Unstarted == [sent |-> 0, stated |-> 0]

Silent == [type |-> "other", text |-> <<>>, urls |-> <<>>, index |-> None, id |-> None,
           args |-> <<>>, usage |-> 0]

Init ==
  /\ mode \in {"chat", "responses"} /\ partial \in BOOLEAN
  /\ event = None
  /\ said = <<>> /\ part = [number |-> 1, from |-> 1, stated |-> {}]
  /\ named = <<>> /\ asked = [i \in Indices |-> Unstarted]
  /\ reported = [usage |-> 0, errors |-> 0] /\ over = FALSE /\ unclear = FALSE
  /\ text = <<>> /\ images = <<>> /\ calls = [i \in Indices |-> NoCall]
  /\ usage = 0 /\ errors = 0 /\ shown = [text |-> <<>>, images |-> <<>>] /\ done = "no"

-----------------------------------------------------------------------------
(* The server.  Any event may count the tokens so far, or not (0).         *)

Send(ev) ==
  /\ event = None /\ ~over /\ done = "no"
  /\ event' = ev

\* A token, in chat mode, or while the part it belongs to goes on.
SayWord(w) ==
  /\ Len(said) < MaxWords /\ part.stated = {}
  /\ Send([Silent EXCEPT !.type = IF mode = "chat" THEN "chat" ELSE "text.delta",
                         !.text = <<w>>])
  /\ said' = Append(said, w)
  /\ unclear' = (unclear \/ said = <<w>>)
  /\ UNCHANGED <<mode, partial, part, named, asked, reported, over, clientVars>>

\* output_text.done, content_part.done: the text of the part; also for a refusal.
StatePart ==
  /\ mode = "responses" /\ "item.done" \notin part.stated
  /\ \E type \in {"text.done", "part.done"} \ part.stated :
       /\ Send([Silent EXCEPT !.type = type, !.text = SubSeq(said, part.from, Len(said))])
       /\ part' = [part EXCEPT !.stated = @ \cup {type}]
  /\ unclear' = (unclear \/ (part.from > 1 /\ part.from <= Len(said)))
  /\ UNCHANGED <<mode, partial, said, named, asked, reported, over, clientVars>>

\* content_part.added, which has no text yet.
NextPart ==
  /\ mode = "responses" /\ part.number < MaxParts
  /\ part.stated # {} /\ "item.done" \notin part.stated
  /\ Send([Silent EXCEPT !.type = "part.added"])
  /\ part' = [number |-> part.number + 1, from |-> Len(said) + 1, stated |-> {}]
  /\ UNCHANGED <<mode, partial, said, named, asked, reported, over, unclear, clientVars>>

\* output_item.done of the message: the texts of its parts.
StateItem ==
  /\ mode = "responses" /\ "item.done" \notin part.stated
  /\ Send([Silent EXCEPT !.type = "item.done", !.text = said])
  /\ part' = [part EXCEPT !.stated = @ \cup {"item.done"}]
  /\ UNCHANGED <<mode, partial, said, named, asked, reported, over, unclear, clientVars>>

\* An image; the same one may be named again, in one event or in two.
SendImage(u) ==
  /\ \E urls \in {<<u>>, <<u, u>>} :
       Send([Silent EXCEPT !.type = IF mode = "chat" THEN "chat" ELSE "image", !.urls = urls])
  /\ named' = IF u \in Range(named) THEN named ELSE Append(named, u)
  /\ UNCHANGED <<mode, partial, said, part, asked, reported, over, unclear, clientVars>>

(* The next piece of a call's arguments.  The first delta of a call, in    *)
(* chat mode, has its id and name; later ones may repeat them.             *)
SendPiece(i) ==
  /\ asked[i].sent < Pieces /\ asked[i].stated = 0
  /\ \E id \in {i} \cup (IF mode = "responses" \/ asked[i].sent > 0 THEN {None} ELSE {}) :
       Send([Silent EXCEPT !.type = IF mode = "chat" THEN "chat" ELSE "args.delta",
                           !.index = i, !.id = id, !.args = <<asked[i].sent + 1>>])
  /\ asked' = [asked EXCEPT ![i] = [sent |-> @.sent + 1,
                                    stated |-> IF @.sent + 1 = Pieces THEN 1 ELSE 0]]
  /\ UNCHANGED <<mode, partial, said, part, named, reported, over, unclear, clientVars>>

(* output_item.added, arguments.done and output_item.done of a call: the   *)
(* arguments in one piece, once or after they were streamed.               *)
StateCall(i) ==
  /\ mode = "responses" /\ asked[i].sent \in {0, Pieces} /\ asked[i].stated < MaxStated
  /\ Send([Silent EXCEPT !.type = "call", !.index = i, !.id = i, !.args = Whole])
  /\ asked' = [asked EXCEPT ![i] = [sent |-> Pieces, stated |-> @.stated + 1]]
  /\ UNCHANGED <<mode, partial, said, part, named, reported, over, unclear, clientVars>>

\* output_item.added, before the arguments: the id and the name.
AnnounceCall(i) ==
  /\ mode = "responses" /\ asked[i] = Unstarted
  /\ Send([Silent EXCEPT !.type = "call", !.index = i, !.id = i])
  /\ UNCHANGED <<mode, partial, serverVars, clientVars>>

CountTokens(n) ==
  /\ Send([Silent EXCEPT !.usage = n])
  /\ reported' = IF n = 0 THEN reported ELSE [reported EXCEPT !.usage = n]
  /\ UNCHANGED <<mode, partial, said, part, named, asked, over, unclear, clientVars>>

\* An error of the provider in the middle of the stream, which may go on.
SendError ==
  /\ reported.errors < MaxErrors
  /\ \E type \in (IF mode = "chat" THEN {"chat.error"} ELSE {"error", "failed"}) :
       Send([Silent EXCEPT !.type = type])
  /\ reported' = [reported EXCEPT !.errors = @ + 1]
  /\ UNCHANGED <<mode, partial, said, part, named, asked, over, unclear, clientVars>>

\* finish_reason, response.completed or response.incomplete, when every call is whole.
Finish ==
  /\ \A i \in Indices : asked[i].sent \in {0, Pieces}
  /\ Send([Silent EXCEPT !.type = "finish"])
  /\ over' = TRUE
  /\ UNCHANGED <<mode, partial, said, part, named, asked, reported, unclear, clientVars>>

-----------------------------------------------------------------------------
(* The client.                                                             *)

(* parseChunk and parseResponsesChunk: an error, or the deltas of the      *)
(* event.  Images are told from other content exactly; the code also takes *)
(* any other map with an https URL for one.                                *)
Errors     == {"chat.error", "error", "failed"}
TextTypes  == {"chat", "text.delta", "text.done", "part.added", "part.done", "item.done"}
ImageTypes == {"chat", "image"}
CallTypes  == {"chat", "args.delta", "call"}

\* slip: an error event of the Responses API is one of the types nothing is made of
ParsedChatErrors(ev) == [bad |-> ev.type = "chat.error",
  content |-> IF ev.type \in TextTypes THEN ev.text ELSE <<>>,
  images  |-> IF ev.type \in ImageTypes THEN ev.urls ELSE <<>>,
  tools   |-> IF ev.type \in CallTypes /\ ev.index # None THEN {ev.index} ELSE {}]
Parsed(ev) == [bad |-> ev.type \in Errors,
  content |-> IF ev.type \in TextTypes THEN ev.text ELSE <<>>,
  images  |-> IF ev.type \in ImageTypes THEN ev.urls ELSE <<>>,
  tools   |-> IF ev.type \in CallTypes /\ ev.index # None THEN {ev.index} ELSE {}]

\* normalizeAssistantContent: what repeats the text so far is dropped.
AsIs(current, incoming) == incoming      \* slip: restated text is appended
Normalized(current, incoming) ==
  IF current # <<>> /\ IsPrefix(current, incoming)
  THEN SubSeq(incoming, Len(current) + 1, Len(incoming))
  ELSE incoming

InSequence(set) ==
  CHOOSE s \in [1 .. Cardinality(set) -> set] : \A m, n \in DOMAIN s : m < n => s[m] < s[n]

\* parseImageDeltas, appendNewAssistantImages: an image is known by its URL.
AllImages(known, urls) == urls           \* slip: one that is named again is added again
NewImages(known, urls) ==
  LET new == InSequence({i \in DOMAIN urls :
                           urls[i] \notin Range(known) /\ \A j \in 1 .. i - 1 : urls[j] # urls[i]})
  IN  [k \in DOMAIN new |-> urls[new[k]]]

\* Ids are those of the last delta that has one; arguments are collected.
LastDeltaOnly(call, ev) ==                                                   \* slip
  [id |-> ev.id, args |-> call.args \o ev.args]
Collected(call, ev) ==
  [id |-> IF ev.id = None THEN call.id ELSE ev.id, args |-> call.args \o ev.args]

\* parseUsageAndCost: a count of 0 is none.
Usage(ev) == IF ev.usage = 0 THEN usage ELSE ev.usage

WhatCame(content, ev)  == Parsed(ev).content \* slip: the raw delta is shown
WhatIsNew(content, ev) == content

ProcessEvent ==
  LET chunk   == Parsed(event)
      content == Normalized(text, chunk.content)
      new     == NewImages(images, chunk.images)
  IN
  /\ event # None /\ done = "no"
  /\ event' = None
  /\ usage' = Usage(event)
  /\ IF chunk.bad
     THEN errors' = errors + 1 /\ UNCHANGED <<text, images, calls, shown>>
     ELSE /\ text' = text \o content
          /\ images' = images \o new
          /\ calls' = [i \in Indices |->
                         IF i \in chunk.tools THEN Collected(calls[i], event) ELSE calls[i]]
          /\ shown' = IF partial
                      THEN [text   |-> shown.text \o WhatIsNew(content, event),
                            images |-> shown.images \o new]
                      ELSE shown
          /\ UNCHANGED errors
  /\ UNCHANGED <<mode, partial, serverVars, done>>

\* strings.TrimSpace
Trimmed(s) ==
  LET solid == {i \in DOMAIN s : s[i] # Space} IN
  IF solid = {} THEN <<>>
  ELSE SubSeq(s, CHOOSE i \in solid : \A j \in solid : i <= j,
                 CHOOSE i \in solid : \A j \in solid : j <= i)

(* Both channels are closed.  Without partial messages the text and the    *)
(* images are shown now, in one message, if there are any.                 *)
EndOfStream ==
  /\ over /\ event = None /\ done = "no"
  /\ done' = "yes"
  /\ text' = Trimmed(text)
  /\ shown' = IF partial THEN shown ELSE [text |-> Trimmed(text), images |-> images]
  /\ UNCHANGED <<mode, partial, event, serverVars, images, calls, usage, errors>>

\* ctx.Done(), wherever a message is sent or an event waited for: runStream returns
\* the error, and of the answer only its cost.
Cancel ==
  /\ done = "no"
  /\ done' = "cancelled"
  /\ text' = <<>> /\ images' = <<>> /\ calls' = [i \in Indices |-> NoCall]
  /\ UNCHANGED <<mode, partial, event, serverVars, usage, errors, shown>>

\* orderCalls, and the input each call is run with: empty when it does not parse.
OrderedCalls    == InSequence({i \in Indices : calls[i] # NoCall})
Input(i)        == IF calls[i].args = Whole THEN "whole" ELSE "empty"

Next ==
  \/ \E w \in Words : SayWord(w)
  \/ StatePart \/ NextPart \/ StateItem
  \/ \E u \in Urls : SendImage(u)
  \/ \E i \in Indices : SendPiece(i) \/ StateCall(i) \/ AnnounceCall(i)
  \/ \E n \in 0 .. MaxUsage : CountTokens(n)
  \/ SendError \/ Finish
  \/ ProcessEvent \/ EndOfStream \/ Cancel

Spec == Init /\ [][Next]_vars

-----------------------------------------------------------------------------
(* Properties.                                                             *)

Event == [type : {"other", "finish"} \cup Errors \cup TextTypes \cup ImageTypes \cup CallTypes,
          text : Seq(Words), urls : Seq(Urls), index : Indices \cup {None},
          id : Indices \cup {None}, args : Seq(1 .. Pieces), usage : 0 .. MaxUsage]

ASSUME NoEventAssumption == None \notin Event

\* The values of the variables; an image is kept and shown once.
TypeOK ==
  /\ mode \in {"chat", "responses"} /\ partial \in BOOLEAN
  /\ event \in Event \cup {None}
  /\ said \in Seq(Words) /\ named \in Seq(Urls)
  /\ part \in [number : 1 .. MaxParts + 1, from : 1 .. MaxWords + 1,
              stated : SUBSET {"text.done", "part.done", "item.done"}]
  /\ asked \in [Indices -> [sent : 0 .. Pieces, stated : 0 .. MaxStated + 1]]
  /\ reported \in [usage : 0 .. MaxUsage, errors : 0 .. MaxErrors]
  /\ over \in BOOLEAN /\ unclear \in BOOLEAN
  /\ text \in Seq(Words) /\ images \in Seq(Urls) /\ IsInjective(images)
  /\ calls \in [Indices -> [id : Indices \cup {None}, args : Seq(1 .. Pieces)]]
  /\ usage \in 0 .. MaxUsage /\ errors \in 0 .. MaxErrors
  /\ shown \in [text : Seq(Words), images : Seq(Urls)]
  /\ done \in {"no", "yes", "cancelled"}

(* The text of the answer is the text the server said, however often it    *)
(* was stated again ("DeduplicatesTerminalTextEvents"), unless a delta     *)
(* repeats the whole text so far, or a later part is stated again.         *)
TextAsSaid == done = "yes" /\ ~unclear => text = Trimmed(said)

(* What the application was shown is what goes into the history and the    *)
(* result, in pieces or at once; every image named is there, once; every   *)
(* error event was told, and the last token count that says something      *)
(* stays.                                                                  *)
ShownIsKept ==
  done = "yes" =>
    /\ Trimmed(shown.text) = text
    /\ shown.images = images /\ images = named
    /\ errors = reported.errors /\ usage = reported.usage

(* Every call the server made is run, in the order of the indices, under   *)
(* its id; with its input, if its arguments were stated once, as they are  *)
(* in chat mode, however the deltas of several calls are interleaved.      *)
CallsAsSent ==
  done = "yes" =>
    /\ {i \in Indices : asked[i] # Unstarted} \subseteq Range(OrderedCalls)
    /\ \A m, n \in DOMAIN OrderedCalls : m < n => OrderedCalls[m] < OrderedCalls[n]
    /\ \A i \in Indices : asked[i].stated = 1 =>
         Input(i) = "whole" /\ (mode = "chat" => calls[i].id = i)
=============================================================================
