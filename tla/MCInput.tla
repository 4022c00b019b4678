------------------------------ MODULE MCInput ------------------------------
(* Input with a keyboard, a tablet, and two programs that read events: paint, and one  *)
(* that asks for one event at a time, or for none.                                     *)
EXTENDS Paint

KeyboardAndTablet == <<"keyboard", "tablet">>
Made == [d \in {"keyboard", "tablet"} |-> IF d = "tablet" THEN 5 ELSE 1]
NoEventValue == [from |-> "none", nth |-> 0]

X(v) == [code |-> "ABS_X", value |-> v]
Y(v) == [code |-> "ABS_Y", value |-> v]
Button(code, v) == [code |-> code, value |-> v]

\* A click on a colour and a line, and the eraser let go right after an x.
Scripts == {
    <<Button("BTN_LEFT", 1), X(4), Y(19), X(28), Y(16)>>,
    <<Button("BTN_RIGHT", 1), X(10), Y(10), X(3), Button("BTN_RIGHT", 0)>>}
=============================================================================
