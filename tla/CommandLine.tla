---------------------------- MODULE CommandLine ----------------------------
(***************************************************************************)
(* replay/command-line.ts: how the command of the wrapped server is stored *)
(* in a record and read back at replay.  A text is a sequence of           *)
(* characters; a character is a member of the classes the code tells apart. *)
(***************************************************************************)
EXTENDS Integers, Sequences

Blank == "blank"              \* \s
SingleQuote == "single"
DoubleQuote == "double"
Backslash == "backslash"
Safe == {"a", "b", "-"}       \* letters, digits and the punctuation that needs no quotes
Odd == {"$"}                  \* any other
Characters == Safe \cup Odd \cup {Blank, SingleQuote, DoubleQuote, Backslash}

\* Closes the quotes, writes an escaped quote, and opens them again.
EscapedQuote == <<SingleQuote, Backslash, SingleQuote, SingleQuote>>

Escape(char) == IF char = SingleQuote THEN EscapedQuote ELSE <<char>>

\* What stands between the single quotes for the first i characters.
Escaped(token) ==
    LET escaped[i \in 0..Len(token)] == IF i = 0 THEN <<>> ELSE escaped[i - 1] \o Escape(token[i])
    IN  escaped

\* Mutant of QuoteToken: an empty token stays as it is.
QuoteToken_Bare(token) ==
    IF \A i \in DOMAIN token : token[i] \in Safe THEN token
    ELSE <<SingleQuote>>
         \o Escaped(token)[Len(token)] \o <<SingleQuote>>

QuoteToken(token) ==
    IF token # <<>> /\ \A i \in DOMAIN token : token[i] \in Safe THEN token
    ELSE <<SingleQuote>> \o Escaped(token)[Len(token)] \o <<SingleQuote>>

\* The command and its arguments, joined by blanks.
Joined(words) ==
    LET joined[i \in 0..Len(words)] ==
            IF i = 0 THEN <<>>
            ELSE joined[i - 1] \o (IF i = 1 THEN <<>> ELSE <<Blank>>) \o QuoteToken(words[i])
    IN  joined

QuoteCommandLine(words) == Joined(words)[Len(words)]

-----------------------------------------------------------------------------
\* parseCommandLine: the loop over the characters.

NoQuote == "none"

\* The variables of the loop.  `place` is "between" words, in a "word", or right
\* after a backslash that takes the next character as it is ("escape").
State(tokens, current, place, quote) ==
    [tokens |-> tokens, current |-> current, place |-> place, quote |-> quote]

Start == State(<<>>, <<>>, "between", NoQuote)

\* The i-th character.  A backslash escapes, but not within single quotes and not
\* at the end of the text.
Consume(state, text, i) ==
    LET char == text[i]
        tokens == state.tokens
        current == state.current
        quote == state.quote
        escapes == char = Backslash /\ i < Len(text)
        added == State(tokens, Append(current, char), "word", quote)
    IN  IF state.place = "escape" THEN added
        ELSE IF quote # NoQuote
        THEN IF char = quote THEN State(tokens, current, "word", NoQuote)
             ELSE IF escapes /\ quote = DoubleQuote THEN State(tokens, current, "escape", quote)
             ELSE added
        ELSE IF escapes THEN State(tokens, current, "escape", quote)
        ELSE IF char \in {SingleQuote, DoubleQuote} THEN State(tokens, current, "word", char)
        ELSE IF char # Blank THEN added
        ELSE IF state.place = "word" THEN State(Append(tokens, current), <<>>, "between", quote)
        ELSE state

\* The state of the loop after i characters.
Consumed(text) ==
    LET state[i \in 0..Len(text)] == IF i = 0 THEN Start ELSE Consume(state[i - 1], text, i)
    IN  state

\* The words, or the error the code throws.
ParseCommandLine(text) ==
    LET end == Consumed(text)[Len(text)]
        words == IF end.place = "word" THEN Append(end.tokens, end.current) ELSE end.tokens
    IN  IF end.quote # NoQuote THEN [error |-> "unbalanced quote"]
        ELSE IF words = <<>> THEN [error |-> "empty command line"]
        ELSE [words |-> words]
=============================================================================
