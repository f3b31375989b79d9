----------------------------- MODULE MCPanzerTime -----------------------------
(***************************************************************************)
(* Small instances of PanzerTime: files of numbers and files with a string,*)
(* standalone or in an array of structures, with a string slice of one     *)
(* unit, of a value in two chunks, or of a list whose elements need twice  *)
(* as many slots as there are elements.  Numbers are read back at times.   *)
(***************************************************************************)
EXTENDS PanzerReads

CONSTANTS time, sig, label

AllSignals == {time, sig, label}
Labels == {label}

AllForms == {[form |-> "plain", units |-> 1], [form |-> "chunked", units |-> 2],
             [form |-> "spanned", units |-> 2]}

NumberFile(placement) ==
  [inAoS |-> placement, signals |-> {time, sig}, steps |-> 2, ops |-> 5]
TextFile(placement) ==
  [inAoS |-> placement, signals |-> {time, label}, steps |-> 1,
   ops |-> IF placement THEN 3 ELSE 4]

NumberFiles == {NumberFile(TRUE), NumberFile(FALSE)}
TextFiles == {TextFile(TRUE), TextFile(FALSE)}
AllFiles == NumberFiles \cup TextFiles

MCInvalid == -1000

\* Uneven times, from below zero; requests on them, between them and outside.
MCTimeValues == <<-3, -1, 0, 2, 3, 6, 7, 11, 12, 14>>
MCRequests == {-4, -1, 0, 1, 4, 5, 9, 13, 15}

\* Windows on the times, between two of them, before them and behind them.
Spans == {<<-2, 6>>, <<4, 5>>, <<-9, -5>>, <<20, 23>>}
MCWindows ==
  {[tmin |-> s[1], tmax |-> s[2], dtime |-> << >>] : s \in Spans}
    \cup {[tmin |-> -2, tmax |-> 6, dtime |-> <<3>>],
          [tmin |-> 0, tmax |-> 0, dtime |-> <<-5, 0, 5>>]}

===============================================================================
