------------------------------- MODULE Console --------------------------------
(***************************************************************************)
(* The line editor of the console (cdc_task_rx and cdc_task in             *)
(* sme_cdc_uart.c): characters come one by one through a queue, cdc_task   *)
(* polls the queue and writes whatever a poll finds straight into the      *)
(* tokens of the command, and the end of the line runs the command.        *)
(***************************************************************************)
EXTENDS Naturals, Sequences

CONSTANTS
    MAX_TOKEN_NUM,  \* 7
    MAX_TOKEN_LEN,  \* 30
    QueueLength,    \* places of cdc_msg_in_queue (64)
    Letters,        \* characters without a meaning of their own
    MaxTyped        \* bound of the model: characters typed

ASSUME TokenAssumption  == MAX_TOKEN_NUM \in Nat \ {0, 1} /\ MAX_TOKEN_LEN \in Nat \ {0, 1, 2}
ASSUME QueueAssumption  == QueueLength \in Nat \ {0} /\ MaxTyped \in Nat
ASSUME LetterAssumption == Letters \cap {"space", "enter", "newline", "back", "nul"} = {}

VARIABLES
    token,           \* sme_cli_msg.token
    token_idx,       \* sme_cli_msg.token_idx
    current_column,
    current_char_ptr, \* token and column it points to
    current_token_ptr, \* the token it points to
    polling,         \* cdc_task is in the loop that empties the queue
    cdc_msg_in_queue,
    command,         \* sme_cli_msg as the parsers of the last command saw it
    words,           \* history: the line as a user expects it,
    plain,           \*   and whether it kept to what the editor can do
    typed,
    last,            \* history: what this poll has received last
    before           \* history: the tokens as the line before has left them

vars == <<token, token_idx, current_column, current_char_ptr, current_token_ptr, polling,
          cdc_msg_in_queue, command, words, plain, typed, last, before>>

editor == <<token, token_idx, current_column, current_char_ptr, current_token_ptr>>

Tokens  == 0 .. MAX_TOKEN_NUM - 1
Columns == 0 .. MAX_TOKEN_LEN - 1
Zeros   == [t \in Tokens |-> [c \in Columns |-> "nul"]]
Chars   == Letters \cup {"space", "enter", "newline", "back"}

-----------------------------------------------------------------------------
Init ==
    /\ token = Zeros
    /\ token_idx = 0
    /\ current_column = 0
    /\ current_char_ptr = <<0, 0>>
    /\ current_token_ptr = 0
    /\ polling = FALSE
    /\ cdc_msg_in_queue = <<>>
    /\ command = [token |-> Zeros, token_idx |-> 0]
    /\ words = <<(<<>>)>>
    /\ plain = TRUE
    /\ typed = 0
    /\ last = "none"
    /\ before = Zeros

\* cdc_task_rx: a full queue loses the character, which is echoed all the same.
Type(c) ==
    /\ typed < MaxTyped
    /\ typed' = typed + 1
    /\ cdc_msg_in_queue' = IF Len(cdc_msg_in_queue) < QueueLength
                           THEN Append(cdc_msg_in_queue, c) ELSE cdc_msg_in_queue
    /\ UNCHANGED <<editor, polling, command, words, plain, last, before>>

StartPoll_KeepPointer ==
    /\ ~polling /\ cdc_msg_in_queue # <<>>
    /\ polling' = TRUE
    /\ last' = "none"
    /\ UNCHANGED <<editor, cdc_msg_in_queue, command, words, plain, typed, before>>

\* The pointers are set anew from token_idx and current_column.
StartPoll ==
    /\ ~polling /\ cdc_msg_in_queue # <<>>
    /\ polling' = TRUE
    /\ current_token_ptr' = token_idx
    /\ current_char_ptr' = <<token_idx, current_column>>
    /\ last' = "none"
    /\ UNCHANGED <<token, token_idx, current_column, cdc_msg_in_queue, command, words, plain,
                   typed, before>>

EndPoll ==
    /\ polling /\ cdc_msg_in_queue = <<>>
    /\ polling' = FALSE
    /\ UNCHANGED <<editor, cdc_msg_in_queue, command, words, plain, typed, last, before>>

Put(tok, p, c) == [tok EXCEPT ![p[1]][p[2]] = c]

\* The zero behind the last character, where the pointer has moved to.
Terminate(tok) == token' = Put(tok, current_char_ptr', "nul")

NextToken == (token_idx + 1) % MAX_TOKEN_NUM

PointTo(t, c) == current_token_ptr' = t /\ current_char_ptr' = <<t, c>>

Space ==
    LET tok == Put(token, current_char_ptr, "space") IN
    IF tok[token_idx][0] = "space"
    THEN /\ UNCHANGED <<token_idx, current_column, current_char_ptr, current_token_ptr>>
         /\ Terminate(tok)
    ELSE /\ token_idx' = NextToken
         /\ current_column' = 0
         /\ PointTo(NextToken, 0)
         /\ Terminate(Put(token, current_char_ptr, "nul"))

\* What a token says, up to its first zero.
CString(t) ==
    LET n == CHOOSE k \in Columns \cup {MAX_TOKEN_LEN} :
                 /\ k = MAX_TOKEN_LEN \/ t[k] = "nul"
                 /\ \A j \in 0 .. k - 1 : t[j] # "nul"
    IN  [i \in 1 .. n |-> t[i - 1]]

Enter_NoReset ==
    LET tok == Put(token, current_char_ptr, "nul") IN
    /\ PointTo(NextToken, 0)
    /\ command' = [token |-> tok, token_idx |-> NextToken]
    /\ token_idx' = 0
    /\ UNCHANGED current_column
    /\ Terminate(tok)

\* The command runs. sme_cdc_cmd_parse ignores the count of tokens, and its parsers
\* read all of them, as they are. The next one is terminated behind the command,
\* and the pointers stay there until the next poll.
Enter ==
    LET tok == Put(token, current_char_ptr, "nul") IN
    /\ PointTo(NextToken, 0)
    /\ command' = [token |-> tok, token_idx |-> NextToken]
    /\ token_idx' = 0
    /\ current_column' = 0
    /\ Terminate(tok)

NewLine ==
    /\ UNCHANGED <<token_idx, current_column, current_char_ptr, current_token_ptr>>
    /\ Terminate(token)

\* The pointer stays where it was: the next poll will move it back.
Back ==
    /\ current_column' = IF current_column > 0 THEN current_column - 1 ELSE 0
    /\ UNCHANGED <<token_idx, current_char_ptr, current_token_ptr>>
    /\ Terminate(token)

Letter_NoWrap(c) ==
    /\ current_column' = current_column + 1
    /\ token_idx' = token_idx
    /\ current_token_ptr' = current_token_ptr
    /\ current_char_ptr' = <<current_token_ptr', current_column'>>
    /\ Terminate(Put(token, current_char_ptr, c))

\* A token that is full goes on in the next one.
Letter(c) ==
    LET full == current_column + 1 >= MAX_TOKEN_LEN - 1 IN
    /\ current_column' = IF full THEN 0 ELSE current_column + 1
    /\ token_idx' = IF full THEN NextToken ELSE token_idx
    /\ current_token_ptr' = IF full THEN NextToken ELSE current_token_ptr
    /\ current_char_ptr' = <<current_token_ptr', current_column'>>
    /\ Terminate(Put(token, current_char_ptr, c))

\* The line as a user expects it: a list of words, the last of them not ended.
Edited(w, c) ==
    LET word == w[Len(w)] IN
    CASE c = "space" -> IF word = <<>> THEN w ELSE Append(w, <<>>)
      [] c = "enter" -> <<(<<>>)>>
      [] c = "newline" -> w
      [] c = "back"  -> IF word = <<>> THEN w
                        ELSE [w EXCEPT ![Len(w)] = SubSeq(word, 1, Len(word) - 1)]
      [] OTHER       -> [w EXCEPT ![Len(w)] = Append(word, c)]

\* What the editor cannot do: go on in the poll of an end of line or of a
\* backspace, words that fill a token, and lines that fill all of them.
Beyond(c) ==
    \/ last = "enter" /\ c # "newline"
    \/ last = "back" /\ c \notin {"back", "newline"}
    \/ Len(words) >= MAX_TOKEN_NUM
    \/ c \in Letters /\ Len(words[Len(words)]) >= MAX_TOKEN_LEN - 2

Receive(c) ==
    /\ polling
    /\ cdc_msg_in_queue # <<>>
    /\ c = Head(cdc_msg_in_queue)
    /\ cdc_msg_in_queue' = Tail(cdc_msg_in_queue)
    /\ \/ c = "space" /\ Space
       \/ c = "enter" /\ Enter
       \/ c = "newline" /\ NewLine
       \/ c = "back" /\ Back
       \/ c \in Letters /\ Letter(c)
    /\ c # "enter" => UNCHANGED command
    /\ before' = IF c = "enter" THEN token' ELSE before
    /\ words' = Edited(words, c)
    /\ plain' = IF c = "enter" THEN TRUE ELSE plain /\ ~Beyond(c)
    /\ last' = IF c = "newline" THEN last ELSE c
    /\ UNCHANGED <<polling, typed>>

Next == StartPoll \/ EndPoll \/ \E c \in Chars : Type(c) \/ Receive(c)

Spec == Init /\ [][Next]_vars

-----------------------------------------------------------------------------
(* Properties.                                                             *)

\* Types; no character is written outside the tokens.
TypeOK ==
    /\ token \in [Tokens -> [Columns -> Chars \cup {"nul"}]]
    /\ token_idx \in Tokens
    /\ current_column \in Columns
    /\ current_char_ptr \in Tokens \X Columns
    /\ current_token_ptr \in Tokens
    /\ polling \in BOOLEAN
    /\ cdc_msg_in_queue \in Seq(Chars) /\ Len(cdc_msg_in_queue) <= QueueLength
    /\ plain \in BOOLEAN
    /\ typed \in 0 .. MaxTyped
    /\ command \in [token : [Tokens -> [Columns -> Chars \cup {"nul"}]], token_idx : Tokens]

\* The words of the line so far, however the polls divide it and whatever the
\* lines before have left, as long as nothing was asked that the editor cannot do.
TokensAreWords ==
    plain =>
        /\ token_idx = Len(words) - 1
        /\ \A i \in 1 .. Len(words) - 1 : CString(token[i - 1]) = words[i]
        /\ current_column = Len(words[Len(words)])
        /\ \A i \in 1 .. current_column : token[token_idx][i - 1] = words[Len(words)][i]

\* What the parsers of a command are given: the words of its line, with an empty
\* argument for a space at the end; behind them not nothing but, character by
\* character, what the line before has left, which may be an old argument.
CommandAsTyped ==
    [][Receive("enter") /\ plain /\ ~Beyond("enter") =>
           /\ command'.token_idx = Len(words)
           /\ \A i \in 1 .. Len(words) : CString(command'.token[i - 1]) = words[i]
           /\ \A t \in Tokens : t >= Len(words) => command'.token[t] = before[t]]_vars
===============================================================================
