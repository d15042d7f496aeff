--------------------------- MODULE MCTerminalOutput ---------------------------
EXTENDS TerminalOutput, TLC

CONSTANTS desk, phone

MCPanes == {desk, phone}
MCPhones == {phone}

Both(f) == desk :> f[1] @@ phone :> f[2]
Budget(bytes, sessions, boxes, dials, moves) ==
  [bytes |-> bytes, sessions |-> sessions, boxes |-> Both(boxes), dials |-> Both(dials),
   moves |-> Both(moves)]
MCBudgets == {
  Budget(1, 1, <<3, 2>>, <<2, 0>>, <<2, 0>>),
  Budget(1, 1, <<3, 2>>, <<0, 2>>, <<0, 1>>),
  Budget(2, 1, <<3, 2>>, <<0, 2>>, <<0, 0>>),
  Budget(1, 1, <<3, 2>>, <<1, 1>>, <<0, 2>>),
  Budget(1, 1, <<2, 3>>, <<1, 1>>, <<0, 2>>),
  Budget(2, 1, <<3, 2>>, <<2, 0>>, <<0, 0>>),
  Budget(1, 2, <<3, 2>>, <<2, 0>>, <<0, 0>>),
  Budget(0, 2, <<3, 2>>, <<0, 3>>, <<0, 0>>)}
=============================================================================
