----------------------------- MODULE MCSchedule ----------------------------
(* Expressions and zones for the times of the cron timers. *)
EXTENDS Schedule

Ent(b, f, t, s) == [base |-> b, from |-> f, to |-> t, step |-> s]
Star(s) == Ent("any", 0, 0, s)
One(v) == Ent("one", v, v, 1)
From(v, s) == Ent("one", v, v, s)
Rng(a, b) == Ent("range", a, b, 1)
Cron(mi, h, d, mo, w) == [every |-> <<>>, minute |-> mi, hour |-> h, day |-> d, month |-> mo, weekday |-> w]
Stars == Cron({}, {}, {}, {}, {})
MCCrons ==
    {[Stars EXCEPT !.every = <<3, 8>>], [Stars EXCEPT !.every = <<5, 2>>],
     [Stars EXCEPT !.every = <<16, 8>>],   \* does not fit the word
     Stars,
     Cron({One(1)}, {One(0)}, {}, {}, {One(1)}),
     Cron({One(0)}, {One(2), One(3)}, {One(2)}, {}, {One(2)}),
     Cron({One(1)}, {Star(3)}, {Star(2)}, {One(2)}, {}),
     Cron({One(0)}, {From(1, 2)}, {}, {}, {Rng(1, 2)}),
     Cron({One(1)}, {One(2)}, {}, {}, {}),
     Cron({One(0)}, {One(3)}, {One(3)}, {One(1)}, {}),
     Cron({One(0)}, {}, {One(4)}, {}, {})}

(* No change of the clock, one forward and one back in the day, and one    *)
(* over midnight; east of Greenwich and west of it.                        *)
Shift(b, a, at) == [before |-> b, after |-> a, at |-> at]
MCZones ==
    {Shift(0, 0, 0), Shift(0, 2, 26), Shift(2, 4, 26), Shift(4, 2, 26), Shift(4, 2, 22),
     Shift(-4, -2, 38), Shift(-2, -4, 38), Shift(-4, -2, 36)}
FallWest == {Shift(-2, -4, 38)}
MCMoments == 8..40
MCDaily == 0..7
=============================================================================
