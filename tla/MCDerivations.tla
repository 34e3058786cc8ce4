------------------------------ MODULE MCDerivations ------------------------------
EXTENDS Derivations

Square(least, most) == <<<<least, least>>, <<most, least>>, <<most, most>>, <<least, most>>>>

\* An area with a hole, and the area that fills it.
MCAreas ==
    <<[id |-> "A", dwellings |-> 12, rings |-> <<Square(0, 8), Square(2, 6)>>],
      [id |-> "B", dwellings |-> 0, rings |-> <<Square(2, 6)>>]>>

MCTruePoint == [D1 |-> <<1, 4>>, D2 |-> <<7, 3>>, D3 |-> <<4, 5>>]
MCTrueArea == [D1 |-> "A", D2 |-> "A", D3 |-> "B"]

MCTypes == [Driveway |-> {"BLOCKING", "DRIVEWAY"}, Sign |-> {"SIGN"}]

Call(address, started) ==
    [address |-> address, started |-> started, closed |-> None, district |-> "7",
     tow |-> "N", vehicle |-> None, labels |-> {"BLOCKING"}, held |-> TRUE,
     at |-> IF address = None THEN <<None, None>> ELSE MCTruePoint[address]]

MCRecords ==
    <<{Call("D1", 3),
       [Call("D1", 12) EXCEPT !.tow = "Y", !.vehicle = "v", !.closed = 13],
       [Call(None, 9) EXCEPT !.tow = "Y", !.labels = {"BLOCKING", "SIGN"}],
       [Call("D2", None) EXCEPT !.closed = 12]},
      {[Call("D1", 9) EXCEPT !.at = <<-30, -30>>, !.vehicle = "v"],
       [Call("D2", 3) EXCEPT !.tow = "Y", !.labels = {"DRIVEWAY"}],
       [Call("D1", 5) EXCEPT !.labels = {"OTHER"}]},
      {[Call("D2", 6) EXCEPT !.tow = "Y", !.district = "8", !.at = <<7, None>>],
       [Call("D3", 10) EXCEPT !.tow = None],
       [Call("D3", 12) EXCEPT !.held = FALSE]},
      {[Call("D1", 10) EXCEPT !.labels = {"BLOCKING", "SIGN"}],
       Call("D2", 12)}>>

================================================================================
