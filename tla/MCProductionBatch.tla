-------------------------- MODULE MCProductionBatch --------------------------
(***************************************************************************)
(* An instance of ProductionBatch for TLC.                                 *)
(***************************************************************************)
EXTENDS ProductionBatch

Value(form, number) == [form |-> form, number |-> number]

V1 == [name |-> "v1", year |-> Absent]
V2023 == [name |-> "v2023", year |-> 2023]

Blank == [column \in Columns \cup {"extra"} |-> IF column = "extra" THEN FALSE ELSE Absent]

Line(factor, unit, gas, value) ==
  [Blank EXCEPT !.type = "emission_factor", !.year = 2024, !.version = V1,
     !.factor = factor, !.name = "n", !.value = value, !.unit = unit, !.category = "c",
     !.gas = gas, !.sector = "energy", !.provenance = "p"]

One == Value("plain", 1)
Two == Value("plain", 2)

X == Line("x", "kg", "CO2", One)
XAgain == [X EXCEPT !.value = Two]
XPerTonne == [X EXCEPT !.unit = "t"]
XOfMethane == [X EXCEPT !.gas = "CH4"]
Y == [Line("y", "kg", "CO2", One) EXCEPT !.version = V2023]

\* Lines that are passed over, values only some parsers take, and lines nothing is made of.
Passed == {Blank, [Y EXCEPT !.type = "note"]}
Bad == {[Y EXCEPT !.value = Value(form, 3)] : form \in {"comma", "huge", "nan", "snan"}}
         \cup {[Y EXCEPT !.extra = TRUE],
               [Y EXCEPT !.name = Absent, !.factor = Absent, !.unit = Absent]}

File(lines) == [encoding |-> "utf-8", header |-> "normalized", lines |-> lines]

SomeFiles ==
  {File(lines) : lines \in
     {<<X>>, <<XAgain>>, <<XPerTonne>>, <<XOfMethane>>, <<Y>>, <<X, XPerTonne>>,
      <<X, XOfMethane>>, <<X, Y, XAgain>>}}
    \cup {File(<<X, line>>) : line \in Passed \cup Bad}
    \cup {[File(<<>>) EXCEPT !.header = "none"], [File(<<X>>) EXCEPT !.header = "other"],
          [File(<<X>>) EXCEPT !.encoding = "other"]}

SomeFilesOf == [f \in Families |-> SomeFiles]

NoLabel == [f \in Families |-> Absent]
==============================================================================
