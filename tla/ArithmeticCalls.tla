--------------------------- MODULE ArithmeticCalls ---------------------------
(***************************************************************************)
(* One call of an operation on amounts, or of a retry delay function, with *)
(* each of its arguments.                                                  *)
(***************************************************************************)
EXTENDS Money, Backoff

CONSTANTS
    Characters,  \* what the texts of amounts are made of
    MaxLength,   \* bound: their length
    Sample,      \* amounts to calculate with, by their distance from 0 or a limit
    Bases,       \* the configured base and maximum, which nothing validates
    Maxima,
    Attempts     \* the attempts counted; 0 or less too

ASSUME ArithmeticCallsAssumption ==
    /\ MaxLength \in Nat
    /\ Sample \subseteq 0 .. MaxInt
    /\ Bases \cup Maxima \subseteq Durations
    /\ Attempts \subseteq Int

VARIABLES
    call,    \* the operation and its arguments
    result,  \* what it returns, or Unanswered
    text,    \* what String writes of an amount, and what Parse reads
    hidden   \* the seconds the consumer asks SQS to hide the message for

callVars == <<call, result, text, hidden>>

Near   == UNION {{n, -n, MaxInt - n, MinInt + n} : n \in Sample}
Moneys == [amount : Near, currency : Currencies]

Waits == [op : {"worker", "publisher", "consumer"},
          base : Bases, maximum : Maxima, attempts : Attempts]

Unanswered == [error |-> "pending", amount |-> 0]

Calling ==
    /\ result = Unanswered
    /\ hidden = 0
    /\ \/ /\ call = [op |-> "Parse"]
          /\ text \in SeqOf(Characters, MaxLength)
       \/ /\ \/ \E m, n \in Moneys, op \in {"Add", "Sub", "Negate", "Compare"} :
                    call = [op |-> op, m |-> m, n |-> n]
             \/ \E a \in Amounts : call = [op |-> "String", amount |-> a]
             \/ call \in Waits
             \/ call = [op |-> "none"]
          /\ text = << >>

-----------------------------------------------------------------------------

Asked(op) == call.op = op /\ result = Unanswered

Answer(r) == result' = r /\ UNCHANGED <<call, text, hidden>>

ParseText == Asked("Parse") /\ Answer(Parse(text))
AddMoney  == Asked("Add") /\ Answer(Add(call.m, call.n))
SubMoney  == Asked("Sub") /\ Answer(Sub(call.m, call.n))
NegateIt  == Asked("Negate") /\ Answer(Negate(call.m))
CompareIt == Asked("Compare") /\ Answer(Compare(call.m, call.n))

\* An amount is written, as a balance is for a reply, and read again.
WriteAndRead ==
    /\ Asked("String")
    /\ text' = String(call.amount)
    /\ result' = Parse(text')
    /\ UNCHANGED <<call, hidden>>

WorkerWaits ==
    /\ Asked("worker")
    /\ Answer(Ok(ReferenceRetryDelay(call.base, call.maximum, call.attempts)))

PublisherWaits ==
    /\ Asked("publisher")
    /\ Answer(Ok(PublisherRetryDelay(call.base, call.maximum, call.attempts)))

\* retryMessage: the message is hidden for whole seconds.
ConsumerHides ==
    /\ Asked("consumer")
    /\ result' = Ok(ConsumerRetryDelay(call.base, call.maximum, call.attempts))
    /\ hidden' = VisibilitySeconds(result'.amount)
    /\ UNCHANGED <<call, text>>

Call ==
    \/ ParseText \/ AddMoney \/ SubMoney \/ NegateIt \/ CompareIt \/ WriteAndRead
    \/ WorkerWaits \/ PublisherWaits \/ ConsumerHides

CallSpec == Calling /\ [][Call]_callVars

-----------------------------------------------------------------------------
(* Properties: what is answered is what unlimited integers give.           *)

Answered(ops) == call.op \in ops /\ result # Unanswered

\* What the last digit of a text counts for, in hundredths.
LastCounts(t) == <<100, 10, 1>>[Len(Fraction(t)) + 1]

\* A text is accepted as the amount that all its digits denote as one integer
\* of hundredths, or refused for its form, or refused for being too large: no
\* text that overflows 64 bits on the way becomes another amount.
ParseIsExact ==
    LET t     == TrimSpace(text)
        exact == Number(Whole(t) \o Fraction(t)) * LastCounts(t)
    IN  Answered({"Parse"}) =>
            IF result.error = "invalid"
            THEN ~\E i \in 1 .. Len(t) + 1 :
                     /\ i > 1 /\ Len(t) - i <= 2
                     /\ \A j \in DOMAIN t : IF j = i THEN t[j] = Point ELSE t[j] \in Digits
            ELSE result = IF exact > MaxInt THEN Fails("overflow")
                          ELSE [error |-> "none", amount |-> exact]

\* A result is the one of unlimited integers, and a call is refused only when
\* that is no amount, or to subtract the least amount.
ArithmeticIsExact ==
    LET m == call.m.amount
        n == call.n.amount
        exact == CASE call.op = "Add" -> m + n
                   [] call.op = "Sub" -> m - n
                   [] call.op = "Negate" -> -m
                   [] OTHER -> IF m = n THEN 0 ELSE IF m < n THEN -1 ELSE 1
    IN  Answered({"Add", "Sub", "Negate", "Compare"}) =>
            CASE result.error = "none" -> result.amount = exact
              [] result.error = "overflow" ->
                    exact \notin Amounts \/ (call.op = "Sub" /\ n = MinInt)
              [] OTHER -> call.op # "Negate" /\ call.m.currency # call.n.currency

\* What a balance is written as reads back as that balance; a negative one is
\* refused by Parse, and reads back without its sign.
WrittenReadsBack ==
    Answered({"String"}) =>
        IF call.amount >= 0
        THEN result = Ok(call.amount)
        ELSE /\ result = Fails("invalid")
             /\ call.amount # MinInt => Parse(Tail(text)) = Ok(-call.amount)

\* Amounts are read, calculated and written as what they are.
AmountsAreExact == ParseIsExact /\ ArithmeticIsExact /\ WrittenReadsBack

\* How often the README and the tests say the base is doubled.
Doublings ==
    LET counted == call.attempts - IF call.op = "publisher" THEN 0 ELSE 1
    IN  IF counted < 0 THEN 0 ELSE counted

Doubled(base, times) ==
    LET double[n \in 0 .. times] == IF n = 0 THEN base ELSE 2 * double[n - 1]
    IN  double[times]

\* Whatever is configured, a delay is the base doubled once per attempt, up to
\* the maximum, in integers without a limit: no argument makes it overflow into
\* a short or a negative wait.  The worker and the publisher stop to double
\* after MostDoublings, the consumer does not.
DelayIsCapped ==
    LET base    == IF call.base > 0 THEN call.base ELSE Second
        limit   == IF call.maximum > base THEN call.maximum ELSE base
        times   == IF call.op # "consumer" /\ Doublings > MostDoublings
                   THEN MostDoublings ELSE Doublings
        doubled == Doubled(base, times)
    IN  Answered({"worker", "publisher", "consumer"}) =>
            result = Ok(IF doubled < limit THEN doubled ELSE limit)

\* The visibility timeout that SQS gets is never 0, which would show the message
\* again at once, and is less than a second off the delay.
VisibilityNeverZero ==
    Answered({"consumer"}) =>
        /\ hidden >= 1
        /\ hidden * Second - result.amount < Second
        /\ result.amount - hidden * Second < Second

\* Nothing that is configured or counted shortens a wait.
DelaysAreExact == DelayIsCapped /\ VisibilityNeverZero
=============================================================================
