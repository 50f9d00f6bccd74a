---------------------------- MODULE ModelProvider ----------------------------
(***************************************************************************)
(* One call of OpenAIProvider.generate_structured                          *)
(* (models/openai_provider.py): the request, what the service may answer,  *)
(* and how the text of the answer becomes an object.  The model behind the *)
(* service means to say something; the text that arrives may be cut short, *)
(* whether or not finish_reason admits it.                                 *)
(*                                                                         *)
(* A text is a sequence of tokens: `open` and `close` are braces, `sopen`  *)
(* and `sclose` square brackets, `quote` the mark around a string,         *)
(* `scalar` a number or a literal, `word` what is no JSON, `fence` a line  *)
(* of three back quotes.  White space, commas, and the names of an         *)
(* object's members with their colons are left out: each stands with the   *)
(* value it belongs to.  What a string holds is a text too, braces and     *)
(* all.                                                                    *)
(***************************************************************************)
EXTENDS Naturals, SequencesExt

CONSTANTS
    None,
    MaxTokens   \* bound: the length of a text

\* A text is long enough for an empty object.
ASSUME MaxTokensAssumption == MaxTokens \in Nat \ {0, 1}

VARIABLES
    pc,       \* how far the call is
    meant,    \* the text the model means to say
    reply,    \* the choice the service has answered with
    parsed,   \* the object found in it
    outcome   \* what the caller gets: a response, or an exception

callVars == <<pc, meant, reply, parsed, outcome>>

----------------------------------------------------------------------------
(* The json library.                                                       *)

Tokens == {"open", "close", "sopen", "sclose", "quote", "scalar", "word", "fence"}
Texts == SeqOf(Tokens, MaxTokens)

\* A string of n tokens: its marks, and neither a mark nor a line break between them.
Quoted(n) ==
    {<<"quote">> \o s \o <<"quote">> : s \in [1..(n - 2) -> Tokens \ {"quote", "fence"}]}
Braced(inner) == {<<"open">> \o m \o <<"close">> : m \in inner}
Bracketed(inner) == {<<"sopen">> \o m \o <<"sclose">> : m \in inner}

\* What an object or an array can hold: values one after the other, n tokens in all.
Items[n \in 0..MaxTokens] ==
    IF n = 0
    THEN {<<>>}
    ELSE UNION {{v \o m :
                     v \in IF k = 1
                           THEN {<<"scalar">>}
                           ELSE Quoted(k) \cup Braced(Items[k - 2]) \cup Bracketed(Items[k - 2]),
                     m \in Items[n - k]} : k \in 1..n}

Strings == UNION {Quoted(n) : n \in 2..MaxTokens}
Objects == UNION {Braced(Items[n]) : n \in 0..(MaxTokens - 2)}
Arrays == UNION {Bracketed(Items[n]) : n \in 0..(MaxTokens - 2)}
Values == {<<"scalar">>} \cup Strings \cup Objects \cup Arrays

\* Python's None is no value of JSON, and no call ends in it.
ASSUME NoneAssumption == None \notin Values /\ None # "response"

Prefix(text, n) == SubSeq(text, 1, n)

\* JSONDecoder.raw_decode: the value the text begins with, whatever follows it.
RawDecode(text) ==
    LET ends == {n \in 1..Len(text) : Prefix(text, n) \in Values}
    IN  IF ends = {} THEN None ELSE Prefix(text, CHOOSE n \in ends : TRUE)

Positions(token, text) == {i \in 1..Len(text) : text[i] = token}
From(text, i) == SubSeq(text, i, Len(text))

\* The first brace of the text and all that follows.
FromFirstBrace(text) == From(text, Min(Positions("open", text)))

----------------------------------------------------------------------------
(* What is promised of the text.                                           *)

\* A text that begins with another value than an object has no object; else it is the
\* one that begins at the first brace, if it is complete.
FirstObject(text) ==
    IF Positions("open", text) = {} \/ RawDecode(text) \in Values \ Objects
    THEN None
    ELSE RawDecode(FromFirstBrace(text))

----------------------------------------------------------------------------
(* Reading the text.                                                       *)

\* Mutants: one scans on to a later brace; one insists that nothing follows the object.
RawDecodeAnyObject(text) ==
    IF RawDecode(text) # None
    THEN RawDecode(text)
    ELSE LET found == {i \in Positions("open", text) : RawDecode(From(text, i)) # None}
         IN  IF found = {} THEN None ELSE RawDecode(From(text, Min(found)))
RawDecodeWhole(text) == IF text \in Values THEN text ELSE None

RawDecodeFirstJsonObject(text) ==
    CASE RawDecode(text) # None -> RawDecode(text)
      [] RawDecode(text) = None /\ Positions("open", text) # {} -> RawDecode(FromFirstBrace(text))
      [] OTHER -> None

\* The text, the inside of a fence around it, and what is between its outermost braces.
Candidates(text) ==
    LET first == Min(Positions("open", text))
        last == Max(Positions("close", text))
        fenced == Len(text) >= 3 /\ Head(text) = "fence" /\ Last(text) = "fence"
        braced == /\ Positions("open", text) # {}
                  /\ Positions("close", text) # {}
                  /\ first < last
    IN  <<text>>
            \o (IF fenced THEN <<Tail(Front(text))>> ELSE <<>>)
            \o (IF braced THEN <<SubSeq(text, first, last)>> ELSE <<>>)

\* _parse_json_like_content: json.loads of a candidate, else what it begins with.
ParseJsonLikeContent(text) ==
    LET tried == Candidates(text)
        Decoded(c) == IF c \in Values THEN c ELSE RawDecodeFirstJsonObject(c)
        good == {i \in DOMAIN tried : Decoded(tried[i]) # None}
    IN  IF good = {} THEN None ELSE Decoded(tried[Min(good)])

----------------------------------------------------------------------------
(* The call.                                                               *)

CallInit ==
    /\ pc = "idle"
    /\ meant = <<>>
    /\ reply = None
    /\ parsed = None
    /\ outcome = None

SendRequest ==
    /\ pc = "idle"
    /\ pc' = "sent"
    /\ meant' \in Texts
    /\ UNCHANGED <<reply, parsed, outcome>>

\* The status of a failed request by the exception it is mapped to.
MapHttpError(status) ==
    CASE status \in {401, 403} -> "authentication"
      [] status = 429 -> "rate limit"
      [] status \in {408, 409} \cup 500..599 -> "transient"
      [] OTHER -> "provider"

\* An error status, a time-out or no connection, a body that is no JSON; or what
\* nothing maps: the connection breaks in the middle, the body has no choices.
RequestFails ==
    /\ pc = "sent"
    /\ pc' = "done"
    /\ outcome' \in {MapHttpError(s) : s \in {400, 401, 409, 429, 500}} \cup {"unmapped"}
    /\ UNCHANGED <<meant, reply, parsed>>

Reply(refusal, finish, content, text) ==
    [refusal |-> refusal, finish |-> finish, content |-> content, text |-> text]

\* Text comes as a string or in parts; what is cut off may or may not be admitted.  A
\* finish_reason that the provider does not look for, or null, does not stop it.
ReplyArrives ==
    /\ pc = "sent"
    /\ pc' = "received"
    /\ \/ \E cut \in 0..Len(meant), finish \in {"stop", "length", "other", "null"} :
             reply' = Reply(FALSE, finish, "text", Prefix(meant, cut))
       \/ \E refusal \in BOOLEAN, finish \in {"stop", "content_filter"},
             content \in {"text", "object", "missing"} :
             reply' = Reply(refusal, finish, content, meant)
    /\ UNCHANGED <<meant, parsed, outcome>>

Rejected == reply.refusal \/ reply.finish \in {"length", "content_filter"}

\* _parse_message_content.
ParseMessageContent ==
    /\ pc = "received"
    /\ LET found == ParseJsonLikeContent(reply.text)
       IN  \/ /\ ~Rejected
              /\ reply.content = "object"
              /\ pc' = "validate"
              /\ UNCHANGED <<parsed, outcome>>
           \/ /\ ~Rejected
              /\ reply.content = "text" /\ found \in Objects
              /\ parsed' = found
              /\ pc' = "validate"
              /\ UNCHANGED outcome
           \/ /\ \/ Rejected
                 \/ reply.content = "missing"
                 \/ reply.content = "text" /\ found \notin Objects
              /\ outcome' = "structured output"
              /\ pc' = "done"
              /\ UNCHANGED parsed
    /\ UNCHANGED <<meant, reply>>

\* The object fits the response model, or does not.  A ModelResponse must have a
\* finish_reason: null raises an exception that nothing maps.
Validate ==
    /\ pc = "validate"
    /\ pc' = "done"
    /\ \/ outcome' = "structured output"
       \/ reply.finish # "null" /\ outcome' = "response"
       \/ reply.finish = "null" /\ outcome' = "unmapped"
    /\ UNCHANGED <<meant, reply, parsed>>

CallNext == SendRequest \/ RequestFails \/ ReplyArrives \/ ParseMessageContent \/ Validate

CallSpec == CallInit /\ [][CallNext]_callVars

----------------------------------------------------------------------------
(* Properties.                                                             *)

\* The text of a reply gives the object that begins at its first brace and nothing else,
\* with prose or fences around it or not: the three candidates and the two ways to read
\* each agree.  A text that begins with another JSON value, or whose first brace begins
\* no object, is refused, though a later one may.  An array with prose before it is not:
\* the object at its first brace is taken.
ParsesExactly ==
    /\ pc = "validate" /\ reply.content = "text" => parsed = FirstObject(reply.text)
    /\ pc = "done" /\ reply # None /\ outcome = "structured output" /\ parsed = None =>
           \/ Rejected
           \/ reply.content # "text"
           \/ FirstObject(reply.text) = None

\* A caller gets a response only from a reply that was not refused, filtered or declared
\* cut short, and what it gets is the object of what the model meant: when a text is cut
\* off without a word, no part of its object passes for the object.  Only a text that
\* begins with an array or a string can lose that beginning's end, and an object inside
\* it is then taken for the answer.
ResponseIsMeant ==
    outcome = "response" =>
        /\ ~reply.refusal
        /\ reply.finish \notin {"length", "content_filter"}
        /\ reply.content = "text" =>
               \/ parsed = FirstObject(meant)
               \/ Head(meant) \in {"sopen", "quote"}
==============================================================================
