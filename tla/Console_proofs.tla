---------------------------- MODULE Console_proofs ----------------------------
(***************************************************************************)
(* The editor never writes outside its tokens, and as long as nothing is   *)
(* asked that it cannot do, a command is given the words of its line, and  *)
(* behind them what the line before has left: for every number and length  *)
(* of tokens, every size of the queue and every division into polls.       *)
(***************************************************************************)
EXTENDS Console, SequenceTheorems, TLAPS

USE TokenAssumption, QueueAssumption

\* The part of TypeOK the editor is responsible for.
EditorOK ==
    /\ token \in [Tokens -> [Columns -> Chars \cup {"nul"}]]
    /\ token_idx \in Tokens
    /\ current_column \in Columns
    /\ current_char_ptr \in Tokens \X Columns
    /\ current_token_ptr \in Tokens

-----------------------------------------------------------------------------
(* The sizes.                                                              *)

LEMMA Sizes ==
    /\ 0 \in Tokens /\ 0 \in Columns
    /\ \A t \in Tokens : t \in Nat /\ t + 1 \in Nat \ {0}
    /\ \A c \in Columns : c \in Nat
BY DEF Tokens, Columns

LEMMA NextTokenInRange == token_idx \in Tokens => NextToken \in Tokens
<1> SUFFICES ASSUME token_idx \in Tokens PROVE NextToken \in Tokens
  OBVIOUS
<1>1. token_idx + 1 \in Int /\ MAX_TOKEN_NUM \in Int /\ MAX_TOKEN_NUM > 0
  BY Sizes
<1>2. NextToken \in 0 .. MAX_TOKEN_NUM - 1
  BY <1>1 DEF NextToken
<1>3. QED
  BY <1>2 DEF Tokens

\* A character of the console or a zero leaves the tokens what they are.
LEMMA PutInTokens ==
    ASSUME NEW tok \in [Tokens -> [Columns -> Chars \cup {"nul"}]],
           NEW p \in Tokens \X Columns, NEW c \in Chars \cup {"nul"}
    PROVE  Put(tok, p, c) \in [Tokens -> [Columns -> Chars \cup {"nul"}]]
BY DEF Put

\* What Terminate writes to, and what it leaves behind.
LEMMA TerminateInTokens ==
    ASSUME NEW tok \in [Tokens -> [Columns -> Chars \cup {"nul"}]],
           current_char_ptr' \in Tokens \X Columns, Terminate(tok)
    PROVE  token' \in [Tokens -> [Columns -> Chars \cup {"nul"}]]
BY PutInTokens DEF Terminate

LEMMA PointInTokens ==
    ASSUME NEW t \in Tokens, NEW c \in Columns, PointTo(t, c)
    PROVE  current_token_ptr' \in Tokens /\ current_char_ptr' \in Tokens \X Columns
BY DEF PointTo

-----------------------------------------------------------------------------
(* One lemma for each kind of character.                                   *)

LEMMA SpaceOK == EditorOK /\ Space => EditorOK'
<1> SUFFICES ASSUME EditorOK, Space PROVE EditorOK'
  OBVIOUS
<1> DEFINE tok == Put(token, current_char_ptr, "space")
<1>1. tok \in [Tokens -> [Columns -> Chars \cup {"nul"}]]
      /\ Put(token, current_char_ptr, "nul") \in [Tokens -> [Columns -> Chars \cup {"nul"}]]
  BY PutInTokens DEF EditorOK, Chars
<1>2. CASE tok[token_idx][0] = "space"
  <2>1. /\ UNCHANGED <<token_idx, current_column, current_char_ptr, current_token_ptr>>
        /\ Terminate(tok)
    BY <1>2 DEF Space
  <2>2. QED
    BY <1>1, <2>1, TerminateInTokens DEF EditorOK
<1>3. CASE tok[token_idx][0] # "space"
  <2>1. /\ token_idx' = NextToken /\ current_column' = 0 /\ PointTo(NextToken, 0)
        /\ Terminate(Put(token, current_char_ptr, "nul"))
    BY <1>3 DEF Space
  <2>2. NextToken \in Tokens /\ 0 \in Columns
    BY Sizes, NextTokenInRange DEF EditorOK
  <2>3. current_token_ptr' \in Tokens /\ current_char_ptr' \in Tokens \X Columns
    BY <2>1, <2>2, PointInTokens
  <2>4. QED
    BY <1>1, <2>1, <2>2, <2>3, TerminateInTokens DEF EditorOK
<1>4. QED
  BY <1>2, <1>3

LEMMA EnterOK == EditorOK /\ Enter => EditorOK'
<1> SUFFICES ASSUME EditorOK, Enter PROVE EditorOK'
  OBVIOUS
<1>1. Put(token, current_char_ptr, "nul") \in [Tokens -> [Columns -> Chars \cup {"nul"}]]
  BY PutInTokens DEF EditorOK
<1>2. /\ token_idx' = 0 /\ current_column' = 0 /\ PointTo(NextToken, 0)
      /\ Terminate(Put(token, current_char_ptr, "nul"))
  BY DEF Enter
<1>3. NextToken \in Tokens /\ 0 \in Columns /\ 0 \in Tokens
  BY Sizes, NextTokenInRange DEF EditorOK
<1>4. current_token_ptr' \in Tokens /\ current_char_ptr' \in Tokens \X Columns
  BY <1>2, <1>3, PointInTokens
<1>5. QED
  BY <1>1, <1>2, <1>3, <1>4, TerminateInTokens DEF EditorOK

LEMMA NewLineOK == EditorOK /\ NewLine => EditorOK'
BY TerminateInTokens DEF EditorOK, NewLine

LEMMA BackOK == EditorOK /\ Back => EditorOK'
<1> SUFFICES ASSUME EditorOK, Back PROVE EditorOK'
  OBVIOUS
<1>1. current_column' \in Columns
  BY DEF EditorOK, Back, Columns
<1>2. UNCHANGED <<token_idx, current_char_ptr, current_token_ptr>> /\ Terminate(token)
  BY DEF Back
<1>3. QED
  BY <1>1, <1>2, TerminateInTokens DEF EditorOK

LEMMA LetterOK ==
    ASSUME EditorOK, NEW c \in Letters, Letter(c)
    PROVE  EditorOK'
<1> DEFINE full == current_column + 1 >= MAX_TOKEN_LEN - 1
<1>1. Put(token, current_char_ptr, c) \in [Tokens -> [Columns -> Chars \cup {"nul"}]]
  BY PutInTokens DEF EditorOK, Chars
<1>2. NextToken \in Tokens
  BY NextTokenInRange DEF EditorOK
<1>3. current_column' \in Columns
  <2>1. CASE full
    BY <2>1, Sizes DEF Letter
  <2>2. CASE ~full
    <3>1. current_column' = current_column + 1
      BY <2>2 DEF Letter
    <3>2. current_column + 1 \in Columns
      BY <2>2 DEF EditorOK, Columns
    <3>3. QED
      BY <3>1, <3>2
  <2>3. QED
    BY <2>1, <2>2
<1>4. token_idx' \in Tokens /\ current_token_ptr' \in Tokens
  BY <1>2 DEF EditorOK, Letter
<1>5. current_char_ptr' \in Tokens \X Columns
  BY <1>3, <1>4 DEF Letter
<1>6. Terminate(Put(token, current_char_ptr, c))
  BY DEF Letter
<1>7. QED
  BY <1>1, <1>3, <1>4, <1>5, <1>6, TerminateInTokens DEF EditorOK

-----------------------------------------------------------------------------
LEMMA CommandTyped ==
    ASSUME NEW tok \in [Tokens -> [Columns -> Chars \cup {"nul"}]], NEW n \in Tokens
    PROVE  [token |-> tok, token_idx |-> n]
               \in [token : [Tokens -> [Columns -> Chars \cup {"nul"}]], token_idx : Tokens]
OBVIOUS

LEMMA InitOK == Init => TypeOK
<1> SUFFICES ASSUME Init PROVE TypeOK
  OBVIOUS
<1>1. Zeros \in [Tokens -> [Columns -> Chars \cup {"nul"}]] /\ token = Zeros
  BY DEF Init, Zeros
<1>2. cdc_msg_in_queue \in Seq(Chars) /\ Len(cdc_msg_in_queue) <= QueueLength
  <2>1. cdc_msg_in_queue = <<>>
    BY DEF Init
  <2>2. QED
    BY <2>1
<1>3. /\ token_idx \in Tokens /\ current_column \in Columns
      /\ current_char_ptr \in Tokens \X Columns /\ current_token_ptr \in Tokens
  BY Sizes DEF Init
<1>4. typed \in 0 .. MaxTyped
  BY DEF Init
<1>5. polling \in BOOLEAN /\ plain \in BOOLEAN
  BY DEF Init
<1>6. command \in [token : [Tokens -> [Columns -> Chars \cup {"nul"}]], token_idx : Tokens]
  <2>1. command = [token |-> Zeros, token_idx |-> 0] /\ 0 \in Tokens
    BY Sizes DEF Init
  <2>2. QED
    BY <1>1, <2>1, CommandTyped
<1>7. QED
  BY <1>1, <1>2, <1>3, <1>4, <1>5, <1>6 DEF TypeOK

LEMMA TypeOK_Type == ASSUME TypeOK, NEW c \in Chars, Type(c) PROVE TypeOK'
<1>1. cdc_msg_in_queue' \in Seq(Chars) /\ Len(cdc_msg_in_queue') <= QueueLength
  BY DEF TypeOK, Type
<1>2. typed' \in 0 .. MaxTyped
  BY DEF TypeOK, Type
<1>3. QED
  BY <1>1, <1>2 DEF TypeOK, Type, editor

LEMMA TypeOK_StartPoll == TypeOK /\ StartPoll => TypeOK'
BY DEF TypeOK, StartPoll

LEMMA TypeOK_EndPoll == TypeOK /\ EndPoll => TypeOK'
BY DEF TypeOK, EndPoll, editor

LEMMA TypeOK_Receive == ASSUME TypeOK, NEW c \in Chars, Receive(c) PROVE TypeOK'
<1>1. EditorOK
  BY DEF TypeOK, EditorOK
<1>2. Space \/ Enter \/ NewLine \/ Back \/ (c \in Letters /\ Letter(c))
  BY DEF Receive
<1>3. EditorOK'
  BY <1>1, <1>2, SpaceOK, EnterOK, NewLineOK, BackOK, LetterOK
<1>4. cdc_msg_in_queue' \in Seq(Chars) /\ Len(cdc_msg_in_queue') <= QueueLength
  <2>1. /\ cdc_msg_in_queue \in Seq(Chars) /\ Len(cdc_msg_in_queue) <= QueueLength
        /\ cdc_msg_in_queue # <<>> /\ cdc_msg_in_queue' = Tail(cdc_msg_in_queue)
    BY DEF TypeOK, Receive
  <2>2. Tail(cdc_msg_in_queue) \in Seq(Chars)
        /\ Len(Tail(cdc_msg_in_queue)) = Len(cdc_msg_in_queue) - 1
    BY <2>1
  <2>3. QED
    BY <2>1, <2>2
<1>5. plain' \in BOOLEAN
  BY DEF TypeOK, Receive
<1>6. UNCHANGED <<polling, typed>>
  BY DEF Receive
<1>7. command' \in [token : [Tokens -> [Columns -> Chars \cup {"nul"}]], token_idx : Tokens]
  <2>1. CASE c = "enter"
    <3>1. Enter
      BY <2>1, LetterAssumption DEF Receive
    <3>2. command' = [token |-> Put(token, current_char_ptr, "nul"), token_idx |-> NextToken]
      BY <3>1 DEF Enter
    <3>3. /\ Put(token, current_char_ptr, "nul") \in [Tokens -> [Columns -> Chars \cup {"nul"}]]
          /\ NextToken \in Tokens
      BY PutInTokens, NextTokenInRange DEF TypeOK
    <3>4. QED
      BY <3>2, <3>3, CommandTyped
  <2>2. CASE c # "enter"
    BY <2>2 DEF Receive, TypeOK
  <2>3. QED
    BY <2>1, <2>2
<1>8. QED
  BY <1>3, <1>4, <1>5, <1>6, <1>7 DEF TypeOK, EditorOK

\* Whatever is typed, in whatever polls it arrives: each character is written to
\* a place inside the tokens, and both pointers stay there.
THEOREM TypeCorrect == Spec => []TypeOK
<1>1. TypeOK /\ [Next]_vars => TypeOK'
  <2> SUFFICES ASSUME TypeOK, [Next]_vars PROVE TypeOK'
    OBVIOUS
  <2>1. CASE StartPoll
    BY <2>1, TypeOK_StartPoll
  <2>2. CASE EndPoll
    BY <2>2, TypeOK_EndPoll
  <2>3. CASE \E c \in Chars : Type(c) \/ Receive(c)
    BY <2>3, TypeOK_Type, TypeOK_Receive
  <2>4. CASE UNCHANGED vars
    BY <2>4 DEF vars, editor, TypeOK
  <2>5. QED
    BY <2>1, <2>2, <2>3, <2>4 DEF Next
<1>2. QED
  BY InitOK, <1>1, PTL DEF Spec

-----------------------------------------------------------------------------
(* The line.                                                               *)

Word == words[Len(words)]

\* Where the pointers are while a poll goes on: behind the word, but for the
\* end of a line and a backspace, which leave them behind.
Pointers ==
    polling /\ plain =>
        /\ last \notin {"enter", "back"} => current_char_ptr = <<token_idx, current_column>>
        /\ last \notin {"enter", "back"} => current_token_ptr = token_idx
        /\ last = "back" => \E c \in Columns : c >= current_column
                                               /\ current_char_ptr = <<token_idx, c>>
        /\ last = "enter" => words = <<(<<>>)>>

\* Behind the words of the line the tokens are what the line before has left.
Untyped ==
    plain => \A t \in Tokens : t >= Len(words) => token[t] = before[t]

\* The pointer that the end of a line has left behind is at a zero.
Ended ==
    polling /\ plain /\ last = "enter" => Put(token, current_char_ptr, "nul") = token

\* A step that writes no token behind the words of the line.
Spares == \A u \in Tokens : u >= Len(words') => token'[u] = token[u]

WordsOK == words \in Seq(Seq(Letters)) /\ Len(words) >= 1

IInv ==
    /\ TypeOK
    /\ WordsOK
    /\ Pointers
    /\ TokensAreWords
    /\ Untyped
    /\ Ended

LEMMA CStringIs ==
    ASSUME NEW t, NEW n \in Columns, t[n] = "nul", \A j \in 0 .. n - 1 : t[j] # "nul"
    PROVE  CString(t) = [i \in 1 .. n |-> t[i - 1]]
<1> DEFINE Ends(k) == /\ k = MAX_TOKEN_LEN \/ t[k] = "nul"
                      /\ \A j \in 0 .. k - 1 : t[j] # "nul"
           K == Columns \cup {MAX_TOKEN_LEN}
<1>1. n \in K /\ Ends(n)
  OBVIOUS
<1>2. ASSUME NEW k \in K, Ends(k) PROVE k = n
  <2>1. k \in Nat /\ n \in Nat /\ n < MAX_TOKEN_LEN
    BY DEF Columns
  <2>2. ~(k < n)
    BY <1>2, <2>1
  <2>3. ~(n < k)
    BY <1>2, <2>1
  <2>4. QED
    BY <2>1, <2>2, <2>3
<1>3. (CHOOSE k \in K : Ends(k)) = n
  <2> HIDE DEF K, Ends
  <2>1. QED
    BY <1>1, <1>2
<1>4. QED
  BY <1>3 DEF CString

\* A character is written to its place and nowhere else.
LEMMA PutElsewhere ==
    ASSUME NEW tok \in [Tokens -> [Columns -> Chars \cup {"nul"}]],
           NEW t \in Tokens, NEW c \in Columns, NEW x \in Chars \cup {"nul"}
    PROVE  /\ Put(tok, <<t, c>>, x)[t][c] = x
           /\ \A u \in Tokens : u # t => Put(tok, <<t, c>>, x)[u] = tok[u]
           /\ \A d \in Columns : d # c => Put(tok, <<t, c>>, x)[t][d] = tok[t][d]
BY DEF Put

LEMMA PutTwice ==
    ASSUME NEW tok \in [Tokens -> [Columns -> Chars \cup {"nul"}]],
           NEW t \in Tokens, NEW c \in Columns, NEW x \in Chars \cup {"nul"}
    PROVE  Put(Put(tok, <<t, c>>, x), <<t, c>>, x) = Put(tok, <<t, c>>, x)
BY DEF Put

LEMMA WordFacts ==
    ASSUME WordsOK
    PROVE  /\ Len(words) \in Nat /\ Len(words) \in 1 .. Len(words)
           /\ Word \in Seq(Letters) /\ Len(Word) \in Nat
           /\ \A i \in 1 .. Len(Word) : Word[i] \in Letters
<1>1. Len(words) \in Nat /\ Len(words) \in 1 .. Len(words)
  BY DEF WordsOK
<1>2. Word \in Seq(Letters)
  BY <1>1 DEF WordsOK, Word
<1>3. QED
  BY <1>1, <1>2

\* The history is a line of words whatever is received.
LEMMA EditedWords ==
    ASSUME WordsOK, NEW c \in Chars, words' = Edited(words, c)
    PROVE  /\ WordsOK'
           /\ c = "enter" => words' = <<(<<>>)>>
           /\ c = "newline" => words' = words
           /\ c = "space" /\ Len(Word) = 0 => words' = words
           /\ c = "space" /\ Len(Word) > 0 => words' = Append(words, <<>>)
           /\ c = "back" /\ Len(Word) = 0 => words' = words
           /\ c = "back" /\ Len(Word) > 0 =>
                  words' = [words EXCEPT ![Len(words)] = SubSeq(Word, 1, Len(Word) - 1)]
           /\ c \in Letters => words' = [words EXCEPT ![Len(words)] = Append(Word, c)]
<1>1. Word \in Seq(Letters) /\ (Word = <<>> <=> Len(Word) = 0) /\ Len(Word) \in Nat
      /\ Len(words) \in 1 .. Len(words)
  BY WordFacts
<1>2. <<>> \in Seq(Letters)
  OBVIOUS
<1>3. CASE c = "space"
  <2>1. words' = IF Word = <<>> THEN words ELSE Append(words, <<>>)
    BY <1>3 DEF Edited, Word
  <2>2. WordsOK'
    BY <1>2, <2>1 DEF WordsOK
  <2>3. QED
    BY <1>1, <1>3, <2>1, <2>2, LetterAssumption
<1>4. CASE c = "enter"
  <2>1. words' = <<(<<>>)>>
    BY <1>4 DEF Edited
  <2>2. WordsOK'
    BY <1>2, <2>1 DEF WordsOK
  <2>3. QED
    BY <1>4, <2>1, <2>2, LetterAssumption
<1>5. CASE c = "newline"
  <2>1. words' = words
    BY <1>5 DEF Edited
  <2>2. QED
    BY <1>5, <2>1, LetterAssumption DEF WordsOK
<1>6. CASE c = "back"
  <2>1. words' = IF Word = <<>> THEN words
                 ELSE [words EXCEPT ![Len(words)] = SubSeq(Word, 1, Len(Word) - 1)]
    BY <1>6 DEF Edited, Word
  <2>2. SubSeq(Word, 1, Len(Word) - 1) \in Seq(Letters)
    BY <1>1
  <2>3. WordsOK'
    BY <1>1, <2>1, <2>2 DEF WordsOK
  <2>4. QED
    BY <1>1, <1>6, <2>1, <2>3, LetterAssumption
<1>7. CASE c \in Letters
  <2>1. c \notin {"space", "enter", "newline", "back"}
    BY <1>7, LetterAssumption
  <2>2. words' = [words EXCEPT ![Len(words)] = Append(Word, c)]
    BY <2>1 DEF Edited, Word
  <2>3. Append(Word, c) \in Seq(Letters)
    BY <1>1, <1>7
  <2>4. WordsOK'
    BY <1>1, <2>2, <2>3 DEF WordsOK
  <2>5. QED
    BY <2>1, <2>2, <2>4
<1>8. QED
  BY <1>3, <1>4, <1>5, <1>6, <1>7 DEF Chars

\* What the invariant says while a poll goes on.
LEMMA LineFacts ==
    ASSUME IInv, plain
    PROVE  /\ token_idx = Len(words) - 1 /\ token_idx \in Tokens
           /\ current_column = Len(Word) /\ current_column \in Columns
           /\ \A i \in 1 .. Len(words) - 1 :
                  i - 1 \in Tokens /\ i - 1 # token_idx /\ CString(token[i - 1]) = words[i]
           /\ \A i \in 1 .. Len(Word) :
                  i - 1 \in Columns /\ i - 1 # current_column /\ token[token_idx][i - 1] = Word[i]
<1>1. /\ token_idx = Len(words) - 1 /\ token_idx \in Tokens
      /\ current_column = Len(Word) /\ current_column \in Columns
      /\ \A i \in 1 .. Len(words) - 1 : CString(token[i - 1]) = words[i]
      /\ \A i \in 1 .. current_column : token[token_idx][i - 1] = Word[i]
  BY DEF IInv, TypeOK, TokensAreWords, Word
<1>2. Len(words) \in Nat /\ Len(Word) \in Nat
  BY WordFacts DEF IInv
<1>3. \A i \in 1 .. Len(words) - 1 : i - 1 \in Tokens /\ i - 1 # token_idx
  BY <1>1, <1>2 DEF Tokens
<1>4. \A i \in 1 .. Len(Word) : i - 1 \in Columns /\ i - 1 # current_column
  BY <1>1, <1>2 DEF Columns
<1>5. QED
  BY <1>1, <1>3, <1>4

\* A word that ends in a zero is what its token says.
LEMMA WordIsCString ==
    ASSUME IInv, plain, NEW t, t[current_column] = "nul",
           \A i \in 1 .. Len(Word) : t[i - 1] = Word[i]
    PROVE  CString(t) = Word
<1>1. /\ current_column = Len(Word) /\ current_column \in Columns /\ Word \in Seq(Letters)
      /\ \A i \in 1 .. Len(Word) : Word[i] \in Letters
  BY LineFacts, WordFacts DEF IInv
<1>2. \A j \in 0 .. current_column - 1 : t[j] # "nul"
  <2> SUFFICES ASSUME NEW j \in 0 .. current_column - 1 PROVE t[j] # "nul"
    OBVIOUS
  <2>1. j + 1 \in 1 .. Len(Word) /\ (j + 1) - 1 = j
    BY <1>1 DEF Columns
  <2>2. t[j] = Word[j + 1] /\ Word[j + 1] \in Letters
    BY <1>1, <2>1
  <2>3. QED
    BY <2>2, LetterAssumption
<1>3. CString(t) = [i \in 1 .. current_column |-> t[i - 1]]
  BY <1>1, <1>2, CStringIs
<1>4. Word = [i \in 1 .. Len(Word) |-> Word[i]]
  BY <1>1
<1>5. QED
  BY <1>1, <1>3, <1>4

-----------------------------------------------------------------------------
(* One lemma for each kind of character: the tokens go on saying the line. *)

LEMMA ReceiveFacts ==
    ASSUME IInv, NEW c \in Chars, Receive(c)
    PROVE  /\ polling /\ polling' = polling /\ words' = Edited(words, c) /\ WordsOK
           /\ c = "space" => Space
           /\ c = "enter" => Enter
           /\ c = "newline" => NewLine
           /\ c = "back" => Back
           /\ c \in Letters => Letter(c)
           /\ c # "enter" /\ plain' => plain /\ ~Beyond(c)
           /\ last' = IF c = "newline" THEN last ELSE c
           /\ before' = IF c = "enter" THEN token' ELSE before
           /\ token \in [Tokens -> [Columns -> Chars \cup {"nul"}]]
<1>1. c \in Letters => c \notin {"space", "enter", "newline", "back"}
  BY LetterAssumption
<1>2. token \in [Tokens -> [Columns -> Chars \cup {"nul"}]] /\ WordsOK
  BY DEF IInv, TypeOK
<1>3. QED
  BY <1>1, <1>2 DEF Receive

LEMMA AllButLast ==
    ASSUME NEW S, NEW q \in Seq(S), Len(q) # 0
    PROVE  /\ Len(SubSeq(q, 1, Len(q) - 1)) = Len(q) - 1
           /\ \A i \in 1 .. Len(q) - 1 : SubSeq(q, 1, Len(q) - 1)[i] = q[i]
<1> DEFINE n == Len(q) - 1
<1>1. Len(q) \in Nat /\ n \in Nat /\ n \in Int /\ 1 \in Int
  OBVIOUS
<1>2. \A i \in 1 .. n : q[i] \in S
  BY <1>1
<1>3. /\ Len(SubSeq(q, 1, n)) = IF 1 <= n THEN n - 1 + 1 ELSE 0
      /\ \A i \in 1 .. n - 1 + 1 : SubSeq(q, 1, n)[i] = q[1 + i - 1]
  <2> HIDE DEF n
  <2>1. QED
    BY <1>1, <1>2, SubSeqProperties
<1>4. Len(SubSeq(q, 1, n)) = n
  <2> HIDE DEF n
  <2>1. (1 <= n => n - 1 + 1 = n) /\ (~(1 <= n) => n = 0)
    BY <1>1
  <2>2. QED
    BY <1>3, <2>1
<1>5. ASSUME NEW i \in 1 .. n PROVE SubSeq(q, 1, n)[i] = q[i]
  <2> HIDE DEF n
  <2>1. i \in 1 .. n - 1 + 1 /\ 1 + i - 1 = i
    BY <1>1
  <2>2. QED
    BY <1>3, <2>1
<1>6. QED
  BY <1>4, <1>5

LEMMA LetterLine ==
    ASSUME IInv, NEW c \in Letters, c \in Chars, Receive(c), plain'
    PROVE  TokensAreWords' /\ Pointers' /\ Spares
<1>1. c \notin {"space", "enter", "newline", "back"}
  BY LetterAssumption
<1>2. /\ polling /\ plain /\ ~Beyond(c) /\ Letter(c) /\ last' = c /\ WordsOK
      /\ token \in [Tokens -> [Columns -> Chars \cup {"nul"}]]
      /\ words' = [words EXCEPT ![Len(words)] = Append(Word, c)]
  BY <1>1, ReceiveFacts, EditedWords
<1>3. last \notin {"enter", "back"} /\ Len(Word) < MAX_TOKEN_LEN - 2
  BY <1>1, <1>2, WordFacts DEF Beyond, Word
<1>4. current_char_ptr = <<token_idx, current_column>> /\ current_token_ptr = token_idx
  BY <1>2, <1>3 DEF IInv, Pointers
<1>5. Len(Word) \in Nat /\ Word \in Seq(Letters) /\ Len(words) \in Nat /\ Len(words) >= 1
  BY <1>2, WordFacts DEF WordsOK
<1>6. current_column = Len(Word) /\ ~(current_column + 1 >= MAX_TOKEN_LEN - 1)
  BY <1>2, <1>3, <1>5, LineFacts
<1>7. /\ current_column' = current_column + 1 /\ token_idx' = token_idx
      /\ current_token_ptr' = token_idx
      /\ current_char_ptr' = <<token_idx, current_column + 1>>
  BY <1>2, <1>4, <1>6 DEF Letter
<1> DEFINE tok == Put(token, <<token_idx, current_column>>, c)
<1>8. token' = Put(tok, <<token_idx, current_column + 1>>, "nul")
  BY <1>2, <1>4, <1>7 DEF Letter, Terminate
<1>9. token_idx \in Tokens /\ current_column \in Columns /\ current_column + 1 \in Columns
      /\ current_column # current_column + 1
  BY <1>2, <1>5, <1>6, LineFacts DEF Columns
<1>10. tok \in [Tokens -> [Columns -> Chars \cup {"nul"}]]
  BY <1>2, <1>9, PutInTokens
<1>11. /\ tok[token_idx][current_column] = c
       /\ \A u \in Tokens : u # token_idx => tok[u] = token[u]
       /\ \A d \in Columns : d # current_column => tok[token_idx][d] = token[token_idx][d]
  BY <1>2, <1>9, PutElsewhere
<1> HIDE DEF tok
<1>12. /\ \A u \in Tokens : u # token_idx => token'[u] = tok[u]
       /\ \A d \in Columns : d # current_column + 1 => token'[token_idx][d] = tok[token_idx][d]
  BY <1>8, <1>9, <1>10, PutElsewhere
<1>13. /\ Len(words') = Len(words) /\ words'[Len(words')] = Append(Word, c)
       /\ Len(words'[Len(words')]) = Len(Word) + 1
       /\ \A i \in 1 .. Len(words) - 1 : words'[i] = words[i]
  BY <1>2, <1>5 DEF WordsOK
<1>14. \A i \in 1 .. Len(words') - 1 : CString(token'[i - 1]) = words'[i]
  <2> SUFFICES ASSUME NEW i \in 1 .. Len(words) - 1
               PROVE  CString(token'[i - 1]) = words[i]
    BY <1>13
  <2>1. i - 1 \in Tokens /\ i - 1 # token_idx /\ CString(token[i - 1]) = words[i]
    BY <1>2, LineFacts
  <2>2. token'[i - 1] = token[i - 1]
    BY <1>11, <1>12, <2>1
  <2>3. QED
    BY <2>1, <2>2
<1>15. \A i \in 1 .. current_column' : token'[token_idx'][i - 1] = words'[Len(words')][i]
  <2> SUFFICES ASSUME NEW i \in 1 .. current_column + 1
               PROVE  token'[token_idx][i - 1] = Append(Word, c)[i]
    BY <1>7, <1>13
  <2>1. CASE i = current_column + 1
    <3>1. i - 1 = current_column /\ Append(Word, c)[i] = c
      BY <1>5, <1>6, <2>1
    <3>2. QED
      BY <1>9, <1>11, <1>12, <3>1
  <2>2. CASE i # current_column + 1
    <3>1. i \in 1 .. Len(Word) /\ Append(Word, c)[i] = Word[i]
          /\ i - 1 # current_column + 1
      BY <1>5, <1>6, <2>2
    <3>2. i - 1 \in Columns /\ i - 1 # current_column /\ token[token_idx][i - 1] = Word[i]
      BY <1>2, <3>1, LineFacts
    <3>3. QED
      BY <1>11, <1>12, <3>1, <3>2
  <2>3. QED
    BY <2>1, <2>2
<1>16. token_idx' = Len(words') - 1 /\ current_column' = Len(words'[Len(words')])
  BY <1>2, <1>6, <1>7, <1>13, LineFacts
<1>17. TokensAreWords'
  BY <1>14, <1>15, <1>16 DEF TokensAreWords
<1>18. Pointers'
  BY <1>1, <1>2, <1>7 DEF Pointers
<1>19. Spares
  <2>1. token_idx = Len(words) - 1 /\ Len(words') = Len(words)
    BY <1>2, <1>13, LineFacts
  <2>2. \A u \in Tokens : u >= Len(words') => u # token_idx
    BY <1>5, <2>1 DEF Tokens
  <2>3. QED
    BY <1>11, <1>12, <2>2 DEF Spares
<1>20. QED
  BY <1>17, <1>18, <1>19

LEMMA BackLine ==
    ASSUME IInv, Receive("back"), plain'
    PROVE  TokensAreWords' /\ Pointers' /\ Spares
<1>1. "back" \in Chars
  BY DEF Chars
<1>2. /\ polling /\ plain /\ ~Beyond("back") /\ Back /\ last' = "back" /\ WordsOK
      /\ token \in [Tokens -> [Columns -> Chars \cup {"nul"}]]
      /\ Len(Word) = 0 => words' = words
      /\ Len(Word) > 0 => words' = [words EXCEPT ![Len(words)] = SubSeq(Word, 1, Len(Word) - 1)]
  BY <1>1, ReceiveFacts, EditedWords
<1>3. last # "enter"
  BY <1>2 DEF Beyond
<1>4. /\ token_idx \in Tokens /\ current_column \in Columns /\ current_column = Len(Word)
      /\ token_idx = Len(words) - 1
  BY <1>2, LineFacts
<1>5. PICK d \in Columns : d >= current_column /\ current_char_ptr = <<token_idx, d>>
  <2>1. current_column >= current_column
    BY <1>4 DEF Columns
  <2>2. QED
    BY <1>2, <1>3, <1>4, <2>1 DEF IInv, Pointers
<1>6. /\ UNCHANGED <<token_idx, current_char_ptr>>
      /\ token' = Put(token, <<token_idx, d>>, "nul")
      /\ current_column' = IF current_column > 0 THEN current_column - 1 ELSE 0
  BY <1>2, <1>5 DEF Back, Terminate
<1>7. /\ \A u \in Tokens : u # token_idx => token'[u] = token[u]
      /\ \A e \in Columns : e # d => token'[token_idx][e] = token[token_idx][e]
  BY <1>2, <1>4, <1>5, <1>6, PutElsewhere
<1>8. Len(Word) \in Nat /\ Word \in Seq(Letters) /\ Len(words) \in Nat /\ Len(words) >= 1
  BY <1>2, WordFacts DEF WordsOK
<1>9. /\ Len(words') = Len(words)
      /\ \A i \in 1 .. Len(words) - 1 : words'[i] = words[i]
      /\ Len(words'[Len(words')]) = current_column'
      /\ \A i \in 1 .. current_column' : words'[Len(words')][i] = Word[i]
  <2>1. CASE Len(Word) = 0
    <3>1. words' = words /\ current_column' = 0 /\ words'[Len(words')] = Word
      BY <1>2, <1>4, <1>6, <2>1 DEF Word
    <3>2. QED
      BY <2>1, <3>1
  <2>2. CASE Len(Word) # 0
    <3> DEFINE w == SubSeq(Word, 1, Len(Word) - 1)
    <3>1. Len(w) = Len(Word) - 1 /\ \A i \in 1 .. Len(Word) - 1 : w[i] = Word[i]
      BY <1>8, <2>2, AllButLast
    <3>2. words' = [words EXCEPT ![Len(words)] = w] /\ current_column' = Len(Word) - 1
      BY <1>2, <1>4, <1>6, <1>8, <2>2
    <3> HIDE DEF w
    <3>3. /\ Len(words') = Len(words) /\ words'[Len(words)] = w
          /\ \A i \in 1 .. Len(words) - 1 : words'[i] = words[i]
      BY <1>2, <1>8, <3>2 DEF WordsOK
    <3>4. QED
      BY <3>1, <3>2, <3>3, ZenonT(60)
  <2>3. QED
    BY <2>1, <2>2
<1>10. \A i \in 1 .. Len(words') - 1 : CString(token'[i - 1]) = words'[i]
  BY <1>2, <1>7, <1>9, LineFacts
<1>11. current_column' \in Nat /\ current_column' <= current_column
  BY <1>4, <1>6 DEF Columns
<1>12. \A i \in 1 .. current_column' : token'[token_idx'][i - 1] = words'[Len(words')][i]
  <2> SUFFICES ASSUME NEW i \in 1 .. current_column'
               PROVE  token'[token_idx][i - 1] = Word[i]
    BY <1>6, <1>9
  <2>1. i \in 1 .. Len(Word)
    BY <1>4, <1>8, <1>11
  <2>2. i - 1 \in Columns /\ token[token_idx][i - 1] = Word[i]
    BY <1>2, <2>1, LineFacts
  <2>3. i - 1 # d
    BY <1>4, <1>5, <1>11 DEF Columns
  <2>4. QED
    BY <1>7, <2>2, <2>3
<1>13. TokensAreWords'
  BY <1>4, <1>6, <1>9, <1>10, <1>12 DEF TokensAreWords
<1>14. d >= current_column'
  BY <1>4, <1>5, <1>11 DEF Columns
<1>15. Pointers'
  BY <1>2, <1>5, <1>6, <1>14 DEF Pointers
<1>16. Spares
  <2>1. \A u \in Tokens : u >= Len(words') => u # token_idx
    BY <1>4, <1>8, <1>9 DEF Tokens
  <2>2. QED
    BY <1>7, <2>1 DEF Spares
<1>17. QED
  BY <1>13, <1>15, <1>16

LEMMA NewLineLine ==
    ASSUME IInv, Receive("newline"), plain'
    PROVE  TokensAreWords' /\ Pointers' /\ Spares /\ Ended'
<1>1. "newline" \in Chars
  BY DEF Chars
<1>2. /\ polling /\ plain /\ NewLine /\ last' = last /\ WordsOK /\ words' = words
      /\ token \in [Tokens -> [Columns -> Chars \cup {"nul"}]]
  BY <1>1, ReceiveFacts, EditedWords
<1>3. /\ token_idx \in Tokens /\ current_column \in Columns /\ current_column = Len(Word)
      /\ token_idx = Len(words) - 1
  BY <1>2, LineFacts
<1>4. /\ UNCHANGED <<token_idx, current_column, current_char_ptr, current_token_ptr>>
      /\ token' = Put(token, current_char_ptr, "nul")
  BY <1>2 DEF NewLine, Terminate
<1>5. Pointers'
  BY <1>2, <1>4 DEF IInv, Pointers
<1>6. CASE last = "enter"
  <2>1. words' = <<(<<>>)>>
    BY <1>2, <1>6 DEF IInv, Pointers
  <2>2. Len(words') = 1 /\ words'[Len(words')] = <<>> /\ Len(words'[Len(words')]) = 0
    BY <2>1
  <2>3. token_idx' = 0 /\ current_column' = 0
    BY <1>2, <1>3, <1>4, <2>2 DEF Word
  <2>4. TokensAreWords'
    BY <2>2, <2>3 DEF TokensAreWords
  <2>5. token' = token
    BY <1>2, <1>4, <1>6 DEF IInv, Ended
  <2>6. Ended'
    BY <1>2, <1>4, <1>6, <2>5 DEF IInv, Ended, Put
  <2>7. QED
    BY <1>5, <2>4, <2>5, <2>6 DEF Spares
<1>7. CASE last # "enter"
  <2>1. PICK d \in Columns : d >= current_column /\ current_char_ptr = <<token_idx, d>>
    <3>1. current_column >= current_column
      BY <1>3 DEF Columns
    <3>2. QED
      BY <1>2, <1>3, <1>7, <3>1 DEF IInv, Pointers
  <2>2. /\ \A u \in Tokens : u # token_idx => token'[u] = token[u]
        /\ \A e \in Columns : e # d => token'[token_idx][e] = token[token_idx][e]
    BY <1>2, <1>3, <1>4, <2>1, PutElsewhere
  <2>3. \A i \in 1 .. Len(words) - 1 : CString(token'[i - 1]) = words[i]
    BY <1>2, <2>2, LineFacts
  <2>4. \A i \in 1 .. Len(Word) : token'[token_idx][i - 1] = Word[i]
    <3> SUFFICES ASSUME NEW i \in 1 .. Len(Word) PROVE token'[token_idx][i - 1] = Word[i]
      OBVIOUS
    <3>1. i - 1 \in Columns /\ token[token_idx][i - 1] = Word[i]
      BY <1>2, LineFacts
    <3>2. i - 1 # d
      BY <1>3, <2>1 DEF Columns
    <3>3. QED
      BY <2>2, <3>1, <3>2
  <2>5. TokensAreWords'
    BY <1>2, <1>3, <1>4, <2>3, <2>4 DEF TokensAreWords, Word
  <2>6. Spares
    <3>1. Len(words) \in Nat
      BY <1>2, WordFacts
    <3>2. \A u \in Tokens : u >= Len(words') => u # token_idx
      BY <1>2, <1>3, <3>1 DEF Tokens
    <3>3. QED
      BY <2>2, <3>2 DEF Spares
  <2>7. Ended'
    BY <1>2, <1>7 DEF Ended
  <2>8. QED
    BY <1>5, <2>5, <2>6, <2>7
<1>8. QED
  BY <1>6, <1>7

\* After the end of a line the first word is empty, and the pointers are behind.
LEMMA EnterLine ==
    ASSUME IInv, Receive("enter")
    PROVE  TokensAreWords' /\ Pointers' /\ Untyped' /\ Ended'
<1>1. "enter" \in Chars
  BY DEF Chars
<1>2. Enter /\ last' = "enter" /\ words' = <<(<<>>)>>
  BY <1>1, ReceiveFacts, EditedWords
<1>3. token_idx' = 0 /\ current_column' = 0
  BY <1>2 DEF Enter
<1>4. Len(words') = 1 /\ words'[Len(words')] = <<>> /\ Len(words'[Len(words')]) = 0
  BY <1>2
<1>5. TokensAreWords'
  BY <1>3, <1>4 DEF TokensAreWords
<1>6. Pointers'
  BY <1>2 DEF Pointers
<1>7. Untyped'
  BY <1>1, ReceiveFacts DEF Untyped
<1>8. Ended'
  <2>1. /\ token' = Put(Put(token, current_char_ptr, "nul"), <<NextToken, 0>>, "nul")
        /\ current_char_ptr' = <<NextToken, 0>>
    BY <1>2 DEF Enter, Terminate, PointTo
  <2>2. Put(token, current_char_ptr, "nul") \in [Tokens -> [Columns -> Chars \cup {"nul"}]]
    BY PutInTokens DEF IInv, TypeOK
  <2>3. NextToken \in Tokens /\ 0 \in Columns
    BY Sizes, NextTokenInRange DEF IInv, TypeOK
  <2>4. Put(token', <<NextToken, 0>>, "nul") = token'
    BY <2>1, <2>2, <2>3, PutTwice
  <2>5. QED
    BY <2>1, <2>4 DEF Ended, Put
<1>9. QED
  BY <1>5, <1>6, <1>7, <1>8

\* There is a token left for the next word, and for the line that ends here.
LEMMA TokenLeft ==
    ASSUME IInv, NEW c \in Chars, plain, ~Beyond(c)
    PROVE  /\ NextToken = Len(words) /\ NextToken \in Tokens
           /\ token_idx + 1 = Len(words)
<1>1. Len(words) \in Nat /\ Len(words) < MAX_TOKEN_NUM /\ token_idx = Len(words) - 1
      /\ Len(words) >= 1
  <2>1. Len(words) \in Nat /\ Len(words) >= 1 /\ token_idx = Len(words) - 1
    BY LineFacts, WordFacts DEF IInv, WordsOK
  <2>2. ~(Len(words) >= MAX_TOKEN_NUM)
    BY DEF Beyond
  <2>3. QED
    BY <2>1, <2>2
<1>2. token_idx + 1 = Len(words)
  BY <1>1
<1>3. Len(words) % MAX_TOKEN_NUM = Len(words)
  BY <1>1
<1>4. QED
  BY <1>1, <1>2, <1>3 DEF NextToken, Tokens

LEMMA SpaceLine ==
    ASSUME IInv, Receive("space"), plain'
    PROVE  TokensAreWords' /\ Pointers' /\ Spares
<1>1. "space" \in Chars
  BY DEF Chars
<1>2. /\ polling /\ plain /\ ~Beyond("space") /\ Space /\ last' = "space" /\ WordsOK
      /\ token \in [Tokens -> [Columns -> Chars \cup {"nul"}]]
      /\ Len(Word) = 0 => words' = words
      /\ Len(Word) > 0 => words' = Append(words, <<>>)
  BY <1>1, ReceiveFacts, EditedWords
<1>3. last \notin {"enter", "back"}
  BY <1>2 DEF Beyond
<1>4. /\ token_idx \in Tokens /\ current_column \in Columns /\ current_column = Len(Word)
      /\ token_idx = Len(words) - 1 /\ current_char_ptr = <<token_idx, current_column>>
      /\ current_token_ptr = token_idx
  BY <1>2, <1>3, LineFacts DEF IInv, Pointers
<1>5. Len(Word) \in Nat /\ Word \in Seq(Letters) /\ Len(words) \in Nat /\ Len(words) >= 1
      /\ words \in Seq(Seq(Letters))
  BY <1>2, WordFacts DEF WordsOK
<1> DEFINE tok == Put(token, <<token_idx, current_column>>, "space")
           ended == Put(token, <<token_idx, current_column>>, "nul")
<1>6. /\ tok[token_idx][current_column] = "space"
      /\ \A u \in Tokens : u # token_idx => tok[u] = token[u]
      /\ \A d \in Columns : d # current_column => tok[token_idx][d] = token[token_idx][d]
  BY <1>1, <1>2, <1>4, PutElsewhere
<1>7. /\ ended[token_idx][current_column] = "nul"
      /\ \A u \in Tokens : u # token_idx => ended[u] = token[u]
      /\ \A d \in Columns : d # current_column => ended[token_idx][d] = token[token_idx][d]
  BY <1>2, <1>4, PutElsewhere, SMTT(40)
<1>8. /\ tok \in [Tokens -> [Columns -> Chars \cup {"nul"}]]
      /\ ended \in [Tokens -> [Columns -> Chars \cup {"nul"}]]
  BY <1>1, <1>2, <1>4, PutInTokens
<1>9. /\ tok[token_idx][0] = "space" =>
             /\ UNCHANGED <<token_idx, current_column, current_char_ptr, current_token_ptr>>
             /\ token' = Put(tok, <<token_idx, current_column>>, "nul")
      /\ tok[token_idx][0] # "space" =>
             /\ token_idx' = NextToken /\ current_column' = 0 /\ PointTo(NextToken, 0)
             /\ token' = Put(ended, <<NextToken, 0>>, "nul")
  BY <1>2, <1>4 DEF Space, Terminate, PointTo
<1> HIDE DEF tok, ended
\* A space in front of the first character is taken back.
<1>10. CASE Len(Word) = 0
  <2>1. /\ UNCHANGED <<token_idx, current_column, current_char_ptr, current_token_ptr>>
        /\ token' = Put(tok, <<token_idx, current_column>>, "nul")
        /\ current_column = 0
    BY <1>4, <1>6, <1>9, <1>10
  <2>2. \A u \in Tokens : u # token_idx => token'[u] = token[u]
    <3>1. \A u \in Tokens : u # token_idx => Put(tok, <<token_idx, current_column>>, "nul")[u] = tok[u]
      BY <1>4, <1>8, PutElsewhere, SMTT(40)
    <3>2. QED
      BY <1>6, <2>1, <3>1
  <2>3. words' = words /\ \A i \in 1 .. Len(Word) : token'[token_idx][i - 1] = Word[i]
    BY <1>2, <1>10
  <2>4. \A i \in 1 .. Len(words) - 1 : CString(token'[i - 1]) = words[i]
    BY <1>2, <2>2, LineFacts
  <2>5. TokensAreWords'
    BY <1>4, <2>1, <2>3, <2>4 DEF TokensAreWords, Word
  <2>6. Pointers'
    BY <1>2, <1>4, <2>1 DEF Pointers
  <2>7. \A u \in Tokens : u >= Len(words') => u # token_idx
    BY <1>4, <1>5, <2>3 DEF Tokens
  <2>8. QED
    BY <2>2, <2>5, <2>6, <2>7 DEF Spares
\* Behind a word it ends the word.
<1>11. CASE Len(Word) # 0
  <2>1. tok[token_idx][0] # "space"
    <3>1. 1 \in 1 .. Len(Word) /\ 1 - 1 = 0
      BY <1>5, <1>11
    <3>2. 0 \in Columns /\ 0 # current_column /\ token[token_idx][0] = Word[1]
      BY <1>2, <3>1, LineFacts
    <3>3. Word[1] \in Letters
      BY <1>2, <3>1, WordFacts
    <3>4. QED
      BY <1>6, <3>2, <3>3, LetterAssumption
  <2>2. /\ token_idx' = NextToken /\ current_column' = 0
        /\ current_token_ptr' = NextToken /\ current_char_ptr' = <<NextToken, 0>>
        /\ token' = Put(ended, <<NextToken, 0>>, "nul")
    BY <1>9, <2>1 DEF PointTo
  <2>3. NextToken = Len(words) /\ NextToken \in Tokens /\ NextToken # token_idx
    BY <1>1, <1>2, <1>4, <1>5, TokenLeft
  <2>4. \A u \in Tokens : u # NextToken => token'[u] = ended[u]
    <3>1. \A u \in Tokens : u # NextToken => Put(ended, <<NextToken, 0>>, "nul")[u] = ended[u]
      BY <1>8, <2>3 DEF Put
    <3>2. QED
      BY <2>2, <3>1
  <2>5. /\ words' = Append(words, <<>>) /\ Len(words') = Len(words) + 1
        /\ words'[Len(words')] = <<>> /\ Len(words'[Len(words')]) = 0
        /\ \A i \in 1 .. Len(words) : words'[i] = words[i]
    <3>1. words' = Append(words, <<>>)
      BY <1>2, <1>5, <1>11
    <3>2. <<>> \in Seq(Letters) /\ Len(<<>>) = 0
      OBVIOUS
    <3>3. Len(words') = Len(words) + 1 /\ \A i \in 1 .. Len(words) : words'[i] = words[i]
      BY <1>5, <3>1, <3>2
    <3>4. words'[Len(words) + 1] = <<>>
      BY <1>5, <3>1, <3>2
    <3>5. QED
      BY <3>1, <3>2, <3>3, <3>4
  <2>6. CString(ended[token_idx]) = Word
    <3>1. \A i \in 1 .. Len(Word) : ended[token_idx][i - 1] = Word[i]
      BY <1>2, <1>7, LineFacts
    <3>2. QED
      BY <1>2, <1>7, <3>1, WordIsCString
  <2>7. ASSUME NEW i \in 1 .. Len(words') - 1 PROVE CString(token'[i - 1]) = words'[i]
    <3>1. i \in 1 .. Len(words) /\ words'[i] = words[i]
      BY <1>5, <2>5
    <3>2. CASE i = Len(words)
      <4>1. i - 1 = token_idx /\ words'[i] = Word
        BY <1>4, <1>5, <3>1, <3>2 DEF Word
      <4>2. QED
        BY <1>4, <2>3, <2>4, <2>6, <4>1
    <3>3. CASE i # Len(words)
      <4>1. i \in 1 .. Len(words) - 1
        BY <1>5, <3>1, <3>3
      <4>2. i - 1 \in Tokens /\ i - 1 # token_idx /\ CString(token[i - 1]) = words[i]
        BY <1>2, <4>1, LineFacts
      <4>3. i - 1 # NextToken
        BY <1>5, <2>3, <4>1
      <4>4. QED
        BY <1>7, <2>4, <3>1, <4>2, <4>3
    <3>4. QED
      BY <3>2, <3>3
  <2>8. token_idx' = Len(words') - 1 /\ current_column' = Len(words'[Len(words')])
    BY <1>5, <2>2, <2>3, <2>5
  <2>9. \A i \in 1 .. current_column' : token'[token_idx'][i - 1] = words'[Len(words')][i]
    BY <2>2
  <2>10. TokensAreWords'
    BY <2>7, <2>8, <2>9 DEF TokensAreWords
  <2>11. Pointers'
    BY <1>2, <2>2 DEF Pointers
  <2>12. \A u \in Tokens : u >= Len(words') => u # token_idx /\ u # NextToken
    BY <1>4, <1>5, <2>3, <2>5 DEF Tokens
  <2>13. QED
    BY <1>7, <2>4, <2>10, <2>11, <2>12 DEF Spares
<1>12. QED
  BY <1>10, <1>11

-----------------------------------------------------------------------------
(* The invariant.                                                          *)

\* A line only grows until it ends, so what is behind it stays.
LEMMA LineGrows ==
    ASSUME WordsOK, NEW c \in Chars, words' = Edited(words, c), c # "enter"
    PROVE  Len(words') \in Nat /\ Len(words') >= Len(words)
<1>1. Len(words) \in Nat /\ words \in Seq(Seq(Letters)) /\ <<>> \in Seq(Letters)
  BY WordFacts DEF WordsOK
<1>2. \A w : Len([words EXCEPT ![Len(words)] = w]) = Len(words)
  BY <1>1
<1>3. Len(Append(words, <<>>)) = Len(words) + 1
  BY <1>1
<1>4. \/ words' = words \/ words' = Append(words, <<>>)
      \/ \E w : words' = [words EXCEPT ![Len(words)] = w]
  BY DEF Edited
<1>5. QED
  BY <1>1, <1>2, <1>3, <1>4

LEMMA LeftLine ==
    ASSUME IInv, NEW c \in Chars, Receive(c), plain'
    PROVE  Untyped' /\ Ended'
<1>1. CASE c = "enter"
  BY <1>1, EnterLine
<1>2. CASE c # "enter"
  <2>1. Spares
    BY <1>2, LetterLine, SpaceLine, BackLine, NewLineLine DEF Chars
  <2>2. before' = before /\ plain /\ words' = Edited(words, c) /\ WordsOK
    BY <1>2, ReceiveFacts
  <2>3. Len(words') \in Nat /\ Len(words') >= Len(words) /\ Len(words) \in Nat
    BY <1>2, <2>2, LineGrows, WordFacts
  <2>4. \A t \in Tokens : t >= Len(words') => t >= Len(words)
    BY <2>3 DEF Tokens
  <2>5. Untyped'
    BY <2>1, <2>2, <2>4 DEF IInv, Untyped, Spares
  <2>6. Ended'
    <3>1. CASE c = "newline"
      BY <3>1, NewLineLine
    <3>2. CASE c # "newline"
      BY <1>2, <3>2, ReceiveFacts DEF Ended
    <3>3. QED
      BY <3>1, <3>2
  <2>7. QED
    BY <2>5, <2>6
<1>3. QED
  BY <1>1, <1>2

LEMMA ReceiveLine == ASSUME IInv, NEW c \in Chars, Receive(c) PROVE IInv'
<1>1. TypeOK' /\ WordsOK'
  <2>1. TypeOK'
    BY TypeOK_Receive DEF IInv
  <2>2. WordsOK /\ words' = Edited(words, c)
    BY ReceiveFacts
  <2>3. QED
    BY <2>1, <2>2, EditedWords
<1>2. CASE plain'
  <2>1. TokensAreWords' /\ Pointers'
    BY <1>2, LetterLine, SpaceLine, BackLine, NewLineLine, EnterLine DEF Chars
  <2>2. Untyped' /\ Ended'
    BY <1>2, LeftLine
  <2>3. QED
    BY <1>1, <2>1, <2>2 DEF IInv
<1>3. CASE ~plain'
  BY <1>1, <1>3 DEF IInv, TokensAreWords, Pointers, Untyped, Ended
<1>4. QED
  BY <1>2, <1>3

LEMMA InitLine == Init => IInv
<1> SUFFICES ASSUME Init PROVE IInv
  OBVIOUS
<1>1. words = <<(<<>>)>> /\ <<>> \in Seq(Letters)
  BY DEF Init
<1>2. WordsOK
  BY <1>1 DEF WordsOK
<1>3. Len(words) = 1 /\ Len(words[Len(words)]) = 0 /\ token_idx = 0 /\ current_column = 0
  BY <1>1 DEF Init
<1>4. TokensAreWords
  BY <1>3 DEF TokensAreWords
<1>5. Pointers
  BY DEF Init, Pointers
<1>6. Untyped /\ Ended
  BY DEF Init, Untyped, Ended
<1>7. QED
  BY <1>2, <1>4, <1>5, <1>6, InitOK DEF IInv

LEMMA StepInv == IInv /\ [Next]_vars => IInv'
<1> SUFFICES ASSUME IInv, [Next]_vars PROVE IInv'
  OBVIOUS
<1>1. CASE StartPoll
  <2>1. TypeOK'
    BY <1>1, TypeOK_StartPoll DEF IInv
  <2>2. Pointers'
    BY <1>1 DEF StartPoll, Pointers
  <2>3. WordsOK' /\ TokensAreWords' /\ Untyped' /\ Ended'
    BY <1>1 DEF IInv, StartPoll, WordsOK, TokensAreWords, Untyped, Ended
  <2>4. QED
    BY <2>1, <2>2, <2>3 DEF IInv
<1>2. CASE EndPoll
  <2>1. TypeOK'
    BY <1>2, TypeOK_EndPoll DEF IInv
  <2>2. Pointers'
    BY <1>2 DEF EndPoll, Pointers
  <2>3. WordsOK' /\ TokensAreWords' /\ Untyped' /\ Ended'
    BY <1>2 DEF IInv, EndPoll, editor, WordsOK, TokensAreWords, Untyped, Ended
  <2>4. QED
    BY <2>1, <2>2, <2>3 DEF IInv
<1>3. ASSUME NEW c \in Chars, Type(c) PROVE IInv'
  <2>1. TypeOK'
    BY <1>3, TypeOK_Type DEF IInv
  <2>2. WordsOK' /\ Pointers' /\ TokensAreWords' /\ Untyped' /\ Ended'
    BY <1>3 DEF IInv, Type, editor, WordsOK, Pointers, TokensAreWords, Untyped, Ended, Put
  <2>3. QED
    BY <2>1, <2>2 DEF IInv
<1>4. ASSUME NEW c \in Chars, Receive(c) PROVE IInv'
  BY <1>4, ReceiveLine
<1>5. CASE UNCHANGED vars
  <2>1. TypeOK'
    BY <1>5 DEF IInv, vars, editor, TypeOK
  <2>2. WordsOK' /\ Pointers' /\ TokensAreWords' /\ Untyped' /\ Ended'
    BY <1>5 DEF IInv, vars, editor, WordsOK, Pointers, TokensAreWords, Untyped, Ended, Put
  <2>3. QED
    BY <2>1, <2>2 DEF IInv
<1>6. QED
  BY <1>1, <1>2, <1>3, <1>4, <1>5 DEF Next

\* Types, words, pointers and what earlier lines have left hold at every step: the
\* invariant behind both theorems.
THEOREM Invariance == Spec => []IInv
BY InitLine, StepInv, PTL DEF Spec

\* However a line is divided into polls and corrected, and whatever earlier lines
\* have left in the tokens: the tokens say its words.
THEOREM LineKept == Spec => []TokensAreWords
<1>1. IInv => TokensAreWords
  BY DEF IInv
<1>2. QED
  BY <1>1, Invariance, PTL

LEMMA EnterRuns ==
    ASSUME IInv, Receive("enter"), plain, ~Beyond("enter")
    PROVE  /\ command'.token_idx = Len(words)
           /\ \A i \in 1 .. Len(words) : CString(command'.token[i - 1]) = words[i]
           /\ \A t \in Tokens : t >= Len(words) => command'.token[t] = before[t]
<1>1. "enter" \in Chars
  BY DEF Chars
<1>2. /\ polling /\ Enter /\ WordsOK
      /\ token \in [Tokens -> [Columns -> Chars \cup {"nul"}]]
  BY <1>1, ReceiveFacts
<1>3. current_char_ptr = <<token_idx, current_column>>
  BY <1>2 DEF IInv, Pointers, Beyond
<1>4. /\ token_idx \in Tokens /\ current_column \in Columns /\ current_column = Len(Word)
      /\ token_idx = Len(words) - 1
  BY LineFacts
<1>5. words \in Seq(Seq(Letters)) /\ Len(words) \in Nat /\ Len(words) >= 1
  BY <1>2 DEF WordsOK
<1> DEFINE tok == Put(token, <<token_idx, current_column>>, "nul")
<1>6. /\ tok[token_idx][current_column] = "nul"
      /\ \A u \in Tokens : u # token_idx => tok[u] = token[u]
      /\ \A d \in Columns : d # current_column => tok[token_idx][d] = token[token_idx][d]
  BY <1>2, <1>4, PutElsewhere
<1>7. NextToken = Len(words)
  BY <1>1, TokenLeft
<1>8. command'.token = tok /\ command'.token_idx = Len(words)
  BY <1>2, <1>3, <1>7 DEF Enter
<1> HIDE DEF tok
<1>9. ASSUME NEW i \in 1 .. Len(words) PROVE CString(tok[i - 1]) = words[i]
  <2>1. CASE i = Len(words)
    <3>1. \A j \in 1 .. Len(Word) : tok[token_idx][j - 1] = Word[j]
      BY <1>6, LineFacts
    <3>2. CString(tok[token_idx]) = Word
      BY <1>6, <3>1, WordIsCString
    <3>3. i - 1 = token_idx /\ words[i] = Word
      BY <1>4, <2>1 DEF Word
    <3>4. QED
      BY <3>2, <3>3
  <2>2. CASE i # Len(words)
    <3>1. i \in 1 .. Len(words) - 1
      BY <1>5, <2>2
    <3>2. QED
      BY <1>6, <3>1, LineFacts
  <2>3. QED
    BY <2>1, <2>2
<1>10. ASSUME NEW t \in Tokens, t >= Len(words) PROVE tok[t] = before[t]
  <2>1. t # token_idx
    BY <1>4, <1>5, <1>10 DEF Tokens
  <2>2. tok[t] = token[t]
    BY <1>6, <2>1
  <2>3. QED
    BY <1>10, <2>2 DEF IInv, Untyped
<1>11. QED
  BY <1>8, <1>9, <1>10

\* The parsers called at the end of a line (sme_cdc_cmd_parse) find its words in
\* the first tokens, and in those behind them what the line before has left.
THEOREM CommandRun == Spec => CommandAsTyped
<1>1. IInv => [Receive("enter") /\ plain /\ ~Beyond("enter") =>
                   /\ command'.token_idx = Len(words)
                   /\ \A i \in 1 .. Len(words) : CString(command'.token[i - 1]) = words[i]
                   /\ \A t \in Tokens : t >= Len(words) => command'.token[t] = before[t]]_vars
  BY EnterRuns
<1>2. QED
  BY <1>1, Invariance, PTL DEF CommandAsTyped
===============================================================================
