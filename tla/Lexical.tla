------------------------------ MODULE Lexical ------------------------------
(***************************************************************************)
(* The strict lexical pre-parse of profile text (profile/_lexical.py): a   *)
(* traversal of the token stream with an explicit stack of frames, which   *)
(* stops at the first failure in source order.                             *)
(*                                                                         *)
(* A text is the sequence of its tokens, whether its bytes are UTF-8, and  *)
(* whether json.loads accepts it as a whole (the tokenizer skips spaces    *)
(* that JSON does not have).  A token that is none of the kinds below is a *)
(* character outside the grammar.                                          *)
(***************************************************************************)
EXTENDS Naturals, Sequences, SequencesExt

CONSTANTS
    Decoded,       \* the string each string token decodes to
    LoneTokens,    \* string tokens with a lone surrogate
    BrokenTokens,  \* tokens that open a string and are not one
    SafeNumbers, UnsafeNumbers,  \* number tokens, by the safe-integer rule
    Words,         \* true, false, null
    MaxDepth       \* _MAX_LEXICAL_DEPTH

VARIABLES
    text,     \* the text, never changes
    pos,      \* tokens consumed
    frames,   \* open containers: kind, keys seen, stage
    verdict   \* "reading" until it is "ok", "value" (traversed) or a code
lexicalVars == <<text, pos, frames, verdict>>

Tokens == text.tokens
StringTokens == DOMAIN Decoded \cup LoneTokens \cup BrokenTokens
Opening == {"{", "["}

More == pos < Len(Tokens)
Token == Tokens[pos + 1]
Frame(kind) == [kind |-> kind, seen |-> {}, stage |-> "head"]
TopFrame == Last(frames)
AtStage(stages) == verdict = "reading" /\ frames # <<>> /\ TopFrame.stage \in stages
Staged(stage) == [frames EXCEPT ![Len(frames)].stage = stage]

Stop(code) == verdict' = code /\ UNCHANGED <<text, pos, frames>>
Take(rest) == pos' = pos + 1 /\ frames' = rest /\ UNCHANGED <<text, verdict>>

(* _scalar_value and _decode_string: the code of a scalar token.           *)
ScalarCode(token) ==
    CASE token \in LoneTokens -> "profile-unicode"
      [] token \in UnsafeNumbers -> "profile-number"
      [] token \in DOMAIN Decoded \cup SafeNumbers \cup Words -> "ok"
      [] OTHER -> "profile-json"

(* _close: a completed child leaves its parent at the delimiter.           *)
Close(stack) ==
    IF Len(stack) = 1 THEN <<>>
    ELSE [Front(stack) EXCEPT ![Len(stack) - 1].stage = "comma"]

Push(stack) ==
    IF Len(frames) >= MaxDepth THEN Stop("resource-limit") ELSE Take(Append(stack, Frame(Token)))

(* parse_value: the root value; a scalar root ends the traversal.          *)
ReadRoot ==
    /\ verdict = "start"
    /\ IF ~text.utf8 \/ ~More THEN Stop("profile-json")
       ELSE IF Token \in Opening
            THEN /\ pos' = 1 /\ frames' = <<Frame(Token)>> /\ verdict' = "reading" /\ UNCHANGED text
            ELSE /\ pos' = 1 /\ UNCHANGED <<text, frames>>
                 /\ verdict' = IF ScalarCode(Token) = "ok" THEN "value" ELSE ScalarCode(Token)

(* _step_value: an unsafe number stops the traversal at its own stage.     *)
ReadValue ==
    /\ AtStage({"value"})
    /\ IF ~More THEN Stop("profile-json")
       ELSE IF Token \in Opening THEN Push(Staged("comma"))
       ELSE IF ScalarCode(Token) = "profile-number" THEN Take(Staged("number"))
       ELSE IF ScalarCode(Token) # "ok" THEN Stop(ScalarCode(Token))
       ELSE Take(Staged("comma"))
ReadNumber == AtStage({"number"}) /\ Stop("profile-number")

(* _step_object: keys decode, then scalars, then duplicates.               *)
KeyBySpelling(token) == token \* mutant: keys are compared undecoded
Key(token) == Decoded[token]
ReadKey ==
    /\ AtStage({"head", "key"}) /\ TopFrame.kind = "{"
    /\ IF TopFrame.stage = "head" /\ More /\ Token = "}" THEN Take(Close(frames))
       ELSE IF ~More \/ Token \notin StringTokens \ BrokenTokens THEN Stop("profile-json")
       ELSE IF Token \in LoneTokens THEN Stop("profile-unicode")
       ELSE IF Key(Token) \in TopFrame.seen THEN Stop("profile-json-duplicate-key")
       ELSE Take([Staged("colon") EXCEPT ![Len(frames)].seen = @ \cup {Key(Token)}])
ReadColon ==
    /\ AtStage({"colon"})
    /\ IF More /\ Token = ":" THEN Take(Staged("value")) ELSE Stop("profile-json")

(* _step_array                                                             *)
ReadHead ==
    /\ AtStage({"head"}) /\ TopFrame.kind = "["
    /\ IF More /\ Token = "]" THEN Take(Close(frames))
       ELSE frames' = Staged("value") /\ UNCHANGED <<text, pos, verdict>>

Closer(kind) == IF kind = "{" THEN "}" ELSE "]"
AfterComma(kind) == IF kind = "{" THEN "key" ELSE "value"
ReadDelimiter ==
    /\ AtStage({"comma"})
    /\ IF More /\ Token = "," THEN Take(Staged(AfterComma(TopFrame.kind)))
       ELSE IF More /\ Token = Closer(TopFrame.kind) THEN Take(Close(frames))
       ELSE Stop("profile-json")

EndTraversal == verdict = "reading" /\ frames = <<>> /\ Stop("value")

(* _finish_traversal: trailing tokens, then the whole-text grammar.        *)
FinishTraversal ==
    /\ verdict = "value"
    /\ Stop(IF ~More /\ text.json THEN "ok" ELSE "profile-json")

LexicalInit == pos = 0 /\ frames = <<>> /\ verdict = "start"
CheckLexical ==
    \/ ReadRoot \/ ReadValue \/ ReadNumber \/ ReadKey \/ ReadColon
    \/ ReadHead \/ ReadDelimiter \/ EndTraversal \/ FinishTraversal
LexicalDone == verdict \notin {"start", "reading", "value"}

-----------------------------------------------------------------------------
(* The recursive reading the traversal stands for: the code of the first   *)
(* failure in source order and the position after the value.               *)
RECURSIVE ValueAt(_, _), MembersAt(_, _, _, _)
At(p) == IF p <= Len(Tokens) THEN Tokens[p] ELSE "end"
Reading(code, next) == [code |-> code, next |-> next]
ValueAt(p, depth) ==
    IF At(p) \notin Opening THEN Reading(ScalarCode(At(p)), p + 1)
    ELSE IF depth = MaxDepth THEN Reading("resource-limit", p)
    ELSE IF At(p + 1) = Closer(At(p)) THEN Reading("ok", p + 2)
    ELSE MembersAt(At(p), p + 1, depth + 1, {})
MembersAt(kind, p, depth, keys) ==
    LET isObject == kind = "{"
        start == IF isObject THEN p + 2 ELSE p
        member == ValueAt(start, depth)
    IN  IF isObject /\ At(p) \in LoneTokens THEN Reading("profile-unicode", p)
        ELSE IF isObject /\ At(p) \notin DOMAIN Decoded THEN Reading("profile-json", p)
        ELSE IF isObject /\ Decoded[At(p)] \in keys THEN Reading("profile-json-duplicate-key", p)
        ELSE IF isObject /\ At(p + 1) # ":" THEN Reading("profile-json", p)
        ELSE IF member.code # "ok" THEN member
        ELSE IF At(member.next) = Closer(kind) THEN Reading("ok", member.next + 1)
        ELSE IF At(member.next) # "," THEN Reading("profile-json", p)
        ELSE MembersAt(kind, member.next + 1, depth, IF isObject THEN keys \cup {Decoded[At(p)]} ELSE keys)

(* The traversal refuses a text for the failure a recursive reader would   *)
(* meet first, and accepts what that reader accepts.                       *)
SourceOrder ==
    LexicalDone =>
        LET r == ValueAt(1, 0)
        IN  verdict = IF ~text.utf8 THEN "profile-json"
                      ELSE IF r.code # "ok" THEN r.code
                      ELSE IF r.next = Len(Tokens) + 1 /\ text.json THEN "ok"
                      ELSE "profile-json"
=============================================================================
