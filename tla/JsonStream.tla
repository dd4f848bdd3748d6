----------------------------- MODULE JsonStream -----------------------------
(***************************************************************************)
(* How the worker of voice_chatbot cuts the text it receives into JSON     *)
(* objects (coze_client.c): a websocket message may arrive in parts, and a *)
(* part may end one object and begin another.                              *)
(*                                                                         *)
(* The characters the code tells apart are "open" and "close", the braces, *)
(* "quote", and "escape", the backslash; "x" stands for any other.         *)
(***************************************************************************)
EXTENDS Integers, Sequences

CONSTANT AccumMax   \* CHATBOT_WS_RX_JSON_ACCUM_MAX, longer than the streams below

ASSUME JsonAssumption == AccumMax \in Nat /\ AccumMax > 15

(* The locals of the scan; found are the objects it dispatched.             *)
Fresh == [depth |-> 0, from |-> 0, consumed |-> 0, string |-> FALSE, escaped |-> FALSE,
          found |-> <<>>]

InString(s, c) ==
    IF s.escaped THEN [s EXCEPT !.escaped = FALSE]
    ELSE [s EXCEPT !.escaped = c = "escape", !.string = c # "quote"]

Outside(s, c, i, text) ==
    IF c = "quote" THEN [s EXCEPT !.string = TRUE]
    ELSE IF c = "open" THEN [s EXCEPT !.depth = @ + 1, !.from = IF s.depth = 0 THEN i ELSE @]
    ELSE IF c # "close" \/ s.depth = 0 THEN s
    ELSE IF s.depth > 1 THEN [s EXCEPT !.depth = @ - 1]
    ELSE [s EXCEPT !.depth = 0, !.consumed = i, !.found = Append(@, SubSeq(text, s.from, i))]

(* The locals after each character.                                         *)
scanned(text) ==
    LET locals[i \in 0 .. Len(text)] ==
            IF i = 0 THEN Fresh
            ELSE IF locals[i - 1].string THEN InString(locals[i - 1], text[i])
            ELSE Outside(locals[i - 1], text[i], i, text)
    IN  locals

scan(text) == scanned(text)[Len(text)]

coze_dispatch_json_stream_Wrong(w, chunk) ==
    LET text == IF Len(w.accum) + Len(chunk) >= AccumMax THEN chunk ELSE w.accum \o chunk
        s    == scan(text)
    IN  [accum |-> IF s.consumed > 0 \/ s.depth = 0 THEN <<>> ELSE text,
         found |-> w.found \o s.found]

(* What is left after the last whole object is kept; with no object begun   *)
(* the text is dropped, and so is a part that is too long.                  *)
coze_dispatch_json_stream(w, chunk) ==
    LET text == IF Len(w.accum) + Len(chunk) >= AccumMax THEN chunk ELSE w.accum \o chunk
        s    == scan(text)
    IN  IF Len(chunk) >= AccumMax THEN [w EXCEPT !.accum = <<>>]
        ELSE
        [accum |-> IF s.consumed > 0 THEN SubSeq(text, s.consumed + 1, Len(text))
                   ELSE IF s.depth = 0 THEN <<>> ELSE text,
         found |-> w.found \o s.found]

-----------------------------------------------------------------------------
(* Inputs                                                                   *)

(* Braces inside a string, an escaped quote, an escaped backslash, nesting. *)
Objects ==
    {<<"open", "close">>,
     <<"open", "quote", "close", "quote", "close">>,
     <<"open", "quote", "open", "quote", "x", "close">>,
     <<"open", "quote", "escape", "quote", "close", "quote", "close">>,
     <<"open", "quote", "escape", "escape", "quote", "close">>,
     <<"open", "open", "x", "close", "open", "close", "close">>}

(* Parts of a text: cut after i and after j characters.                     *)
Parts(text, i, j) == <<SubSeq(text, 1, i), SubSeq(text, i + 1, j), SubSeq(text, j + 1, Len(text))>>

Received(parts) ==
    LET w[k \in 0 .. Len(parts)] ==
            IF k = 0 THEN [accum |-> <<>>, found |-> <<>>]
            ELSE IF parts[k] = <<>> THEN w[k - 1]
            ELSE coze_dispatch_json_stream(w[k - 1], parts[k])
    IN  w[Len(parts)].found
=============================================================================
