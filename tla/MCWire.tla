------------------------------- MODULE MCWire -------------------------------
(* Small instances of Wire: the shipped layout and candidates near it.     *)
EXTENDS Wire

Moved(assembly, name, byte) ==
  LET fields == assembly.fields
      moved(k) == IF fields[k].name = name
                  THEN [fields[k] EXCEPT !.byte_offset = byte] ELSE fields[k]
  IN [assembly EXCEPT !.fields = [k \in DOMAIN fields |-> moved(k)]]

MCSpecs ==
  [shipped |-> SpecV1,
   big_endian |-> [SpecV1 EXCEPT !.input.byte_order = "big", !.output.byte_order = "big"],
   longer_output |-> [SpecV1 EXCEPT !.output.size_bytes = 64],
   longer_input |-> [SpecV1 EXCEPT !.input.size_bytes = 256],
   other_instance |-> [SpecV1 EXCEPT !.input.instance = 101],
   unknown_segment |-> [SpecV1 EXCEPT !.connection_path = <<<<"port", 1>>>> \o ConnectionPath],
   \* A header more or less makes up for the size.
   headerless |-> [SpecV1 EXCEPT !.output.size_bytes = 64, !.output_run_idle_header = FALSE],
   input_header |-> [SpecV1 EXCEPT !.input_run_idle_header = TRUE],
   \* The last three are not accepted by the loader.
   overlapping |-> [SpecV1 EXCEPT !.output = Moved(OutputAssembly, "MotionControl_MoveId", 5)],
   too_short |-> [SpecV1 EXCEPT !.output.size_bytes = 59],
   cut_bit |-> [SpecV1 EXCEPT !.output = Moved(OutputAssembly, "MotionControl_Setpoint", 60)]]

SameMap(names) ==
  {[scanner |-> name, server |-> name, strict |-> TRUE] : name \in names}
OtherMaps(scanner, server) ==
  {[scanner |-> scanner, server |-> server, strict |-> flag] : flag \in BOOLEAN}

MCSetups ==
  SameMap({"shipped", "big_endian", "overlapping", "too_short", "cut_bit"})
    \cup OtherMaps("shipped", "longer_output") \cup OtherMaps("longer_output", "shipped")
    \cup OtherMaps("longer_input", "shipped")
    \cup {setup \in OtherMaps("shipped", "longer_input")
                     \cup OtherMaps("shipped", "other_instance")
                     \cup OtherMaps("shipped", "headerless")
                     \cup OtherMaps("headerless", "shipped")
                     \cup OtherMaps("longer_input", "input_header")
                     \cup OtherMaps("unknown_segment", "shipped") : setup.strict}

Float(k) == <<k, 0, 128, 63>>
Floats(from) == [k \in 1 .. 6 |-> Float(from + k)]
Alternate(n, odd) == [k \in 1 .. n |-> (k % 2 = 1) = odd]

MCGroupValues ==
  [robot_control |-> {Alternate(6, TRUE), Alternate(6, FALSE)},
   motion_control |-> {<<65535>> \o Alternate(5, TRUE), <<256>> \o Alternate(5, FALSE),
                       <<65536>> \o Alternate(5, TRUE)},
   motion_command |-> {MotionCommandValues(-1, Floats(0)), MotionCommandValues(258, <<>>),
                       MotionCommandValues(1, <<Float(9)>>)},
   dynamic_config |-> {<<1, -2>>, <<3, 4, 5, 65536>>, <<1, 2, 3, 4, 5>>}]

\* Two assignments, one the complement of the other as far as bits go.
MCInputValues ==
  {[status |-> Alternate(9, odd) \o <<65535>>,
    motion_status |-> Alternate(5, ~odd) \o <<65535, 0, 65534, 1, 500>>,
    safety_status |-> Alternate(10, odd),
    position |-> <<1, -1, 0, 2>> \o Floats(10) \o Floats(20),
    timestamp |-> <<-1, 1000000, 256>>,
    dynamic_data_0 |-> DynamicDataValues(1, Floats(30)),
    dynamic_data_1 |-> DynamicDataValues(-1, <<>>),
    dynamic_data_2 |-> DynamicDataValues(65536, Floats(40)),
    dynamic_data_3 |-> DynamicDataValues(2, Floats(50))] : odd \in BOOLEAN}

=============================================================================
