------------------------------ MODULE MCSchedule ------------------------------
(* Instances of Schedule for TLC.                                          *)
EXTENDS Schedule, TLC

Minutes(n) == Value("m", n)
FirstCron == Value("cron", 1)

\* An expression with gaps of two and three minutes.
MCCronTicks == <<{-5, -2, 0, 3, 5, 8, 10, 13, 15, 18}>>

Node(kind) ==
    [kind |-> kind, rule |-> None, interval |-> None, expression |-> None, zone |-> TRUE]
Rule(field, amount, expression) ==
    [field |-> field, amount |-> amount, expression |-> expression]
Scheduled(rule) == [Node("schedule") EXCEPT !.rule = rule]

\* Rules of minutes, of seconds and of a default, a cron expression without a
\* time zone that is one, the older forms, triggers that wait, none and several.
MCTriggers ==
    {<<Scheduled(Rule("minutes", 3, None))>>,
     <<Scheduled(Rule("seconds", 30, None))>>,
     <<Scheduled(Rule("minutes", None, None))>>,
     <<Scheduled(Rule("cronExpression", None, FirstCron))>>,
     <<[Scheduled(Rule("cronExpression", None, FirstCron)) EXCEPT !.zone = FALSE]>>,
     <<[Scheduled(Rule("minutes", 0, None)) EXCEPT
          !.interval = [amount |-> 2, unit |-> "minutes"]]>>,
     <<[Node("schedule") EXCEPT !.expression = FirstCron], Node("set")>>,
     <<Node("webhook")>>,
     <<Node("schedule"), Node("webhook")>>,
     <<Node("schedule")>>,
     <<>>}

\* What the forms may send: a duration, an expression, a quiet window, and one
\* that is rounded to nothing.
MCChoices ==
    {[type |-> "interval", value |-> Minutes(2), quiet |-> None, zone |-> TRUE],
     [type |-> "cron", value |-> FirstCron, quiet |-> None, zone |-> TRUE],
     [type |-> "event_driven", value |-> NoValue, quiet |-> 3, zone |-> TRUE],
     [type |-> "event_driven", value |-> NoValue, quiet |-> 0, zone |-> TRUE]}

\* A workflow without a contract, or with one of the interval that restarts.
MCOld ==
    {None,
     [type |-> "interval", value |-> Minutes(3), mode |-> "since_last_success",
      anchor |-> None, zone |-> TRUE, lateness |-> 2, quiet |-> None, grace |-> 0,
      started |-> 0]}

MCFallbackValue == Minutes(4)
=============================================================================
