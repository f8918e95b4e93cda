------------------------------- MODULE MCCron -------------------------------
(* A calendar in little: two minutes a day, a month of three days and one  *)
(* of two, so that the third of the second month never comes.              *)
EXTENDS Cron

Day(t) == t \div 2
Date(t) == LET d == Day(t) % 5 IN IF d < 3 THEN <<d + 1, 1>> ELSE <<d - 2, 2>>
SmallCalendar(t) == <<t % 2, 0, Date(t)[1], Date(t)[2], Day(t) % 2>>

Range(lo, hi) == [min |-> lo, max |-> hi]
SmallRanges == <<Range(0, 1), Range(0, 0), Range(1, 3), Range(1, 2), Range(0, 1)>>

Star == [star |-> TRUE, lo |-> 0, hi |-> 0, stepped |-> FALSE, step |-> 0]
Only(n) == [Star EXCEPT !.star = FALSE, !.lo = n, !.hi = n]
Span(l, h) == [Star EXCEPT !.star = FALSE, !.lo = l, !.hi = h]
Every(a, s) == [a EXCEPT !.stepped = TRUE, !.step = s]

Minutes == {<<Star>>, <<Only(0)>>, <<Only(2)>>, <<Every(Star, 2)>>, <<Every(Star, 0)>>}
Days == {<<Star>>, <<Only(3)>>, <<Only(1), Only(2)>>, <<Every(Span(1, 3), 2)>>, <<Span(3, 1)>>, <<>>}
Months == {<<Star>>, <<Only(2)>>}
Weekdays == {<<Star>>, <<Only(1)>>}

SmallExprs ==
  {<<<<Star>>, <<Star>>>>} \cup
  {<<m, <<Star>>, d, n, w>> : m \in Minutes, d \in Days, n \in Months, w \in Weekdays}
=============================================================================
