----------------------------- MODULE AssemblyV1 -----------------------------
(***************************************************************************)
(* The I/O map of the Meca500, version 1: the layout it ships              *)
(* (io_map/spec/assembly_v1.json) and the groups of fields that the facade *)
(* and the robot read and write at once (io_map/v1.py). The value of a     *)
(* group is the sequence of the values of its fields, in the order the     *)
(* source lists them in. The fields no group reads are left out of the     *)
(* layout: deprecated bits, frames, host time and brakes.                  *)
(***************************************************************************)
EXTENDS Assembly, TLC

JOINT_COUNT == 6
POSE_COUNT == 6
MOTION_ARGUMENT_COUNT == 6
DYNAMIC_DATA_SLOTS == 4
DYNAMIC_DATA_VALUES == 6

Flag(name, byte, bit) ==
  [name |-> name, type |-> "bool", byte_offset |-> byte, bit_offset |-> bit, count |-> 1]

Number(name, type, byte) ==
  [name |-> name, type |-> type, byte_offset |-> byte, bit_offset |-> 0, count |-> 1]

\* Fields in a row, one bit or four bytes after the other.
Flags(names, byte, bit) == [k \in DOMAIN names |-> Flag(names[k], byte, bit + k - 1)]
Numbers(names, type, byte) ==
  [k \in DOMAIN names |-> Number(names[k], type, byte + 4 * (k - 1))]

Numbered(prefix, first, count) ==
  [k \in 1 .. count |-> prefix \o ToString(first + k - 1)]

----------------------------------------------------------------------------
(* The names of the fields of each group.                                  *)

Joints == [k \in 1 .. JOINT_COUNT |-> "JointSet_Joint" \o ToString(k) \o "Pos"]
Pose == <<"EndEffectorPose_PosX", "EndEffectorPose_PosY", "EndEffectorPose_PosZ",
          "EndEffectorPose_AngA", "EndEffectorPose_AngB", "EndEffectorPose_AngG">>
Configuration == <<"Configuration_Shoulder", "Configuration_Elbow",
                   "Configuration_Wrist", "Configuration_Turn">>
Timestamp == <<"Timestamp_Second", "Timestamp_Microsecond", "DynamicDataCycles">>
StopBits(mask) ==
  <<mask \o "_EStop", mask \o "_PStop2", mask \o "_Reboot", mask \o "_ConnectionDropped">>
Stops == StopBits("StopMask") \o StopBits("StopResettableMask")
StatusBits ==
  <<"RobotStatus_Busy", "RobotStatus_Activated", "RobotStatus_Homed",
    "RobotStatus_SimActivated", "RobotStatus_BrakesEngaged", "RobotStatus_RecoveryMode">>
QueueBits ==
  <<"MotionStatus_Paused", "MotionStatus_EOB", "MotionStatus_EOM", "MotionStatus_Cleared">>
DynamicType(slot) == "DynamicType" \o ToString(slot)
DynamicValues(slot) ==
  Numbered("DynamicData" \o ToString(slot) \o "_value", 0, DYNAMIC_DATA_VALUES)
ControlBits ==
  <<"RobotControl_Deactivate", "RobotControl_Activate", "RobotControl_Home",
    "RobotControl_ResetError", "RobotControl_EnableSimulation",
    "RobotControl_EnableRecoveryMode">>
MotionBits ==
  <<"MotionControl_Setpoint", "MotionControl_Pause", "MotionControl_ClearMove",
    "MotionControl_ResumeMotion", "MotionControl_UseVariables">>
MotionArguments == Numbered("MotionCommand_Arg", 1, MOTION_ARGUMENT_COUNT)
DynamicConfig == Numbered("DynamicTypeCfg", 0, DYNAMIC_DATA_SLOTS)

DynamicGroup(slot) == <<DynamicType(slot)>> \o DynamicValues(slot)

InputGroups ==
  [status |-> StatusBits \o <<"RobotStatus_CollisionStatus", "RobotStatus_WorkZoneStatus",
                "RobotStatus_MonitoringMode", "RobotStatus_Error">>,
   motion_status |-> QueueBits \o <<"MotionStatus_ExcessiveTorque",
                "MotionStatus_ReachedCheckpointId", "MotionStatus_DiscardedCheckpointId",
                "MotionStatus_MoveID", "MotionStatus_FIFOSpace",
                "MotionStatus_OfflineProgramId">>,
   safety_status |-> Stops \o <<"SafetyStatus_State_ResetReady",
                "SafetyStatus_State_VMotorOn">>,
   position |-> Configuration \o Joints \o Pose,
   timestamp |-> Timestamp,
   dynamic_data_0 |-> DynamicGroup(0), dynamic_data_1 |-> DynamicGroup(1),
   dynamic_data_2 |-> DynamicGroup(2), dynamic_data_3 |-> DynamicGroup(3)]

OutputGroups ==
  [robot_control |-> ControlBits,
   motion_control |-> <<"MotionControl_MoveId">> \o MotionBits,
   motion_command |-> <<"MotionCommand">> \o MotionArguments,
   dynamic_config |-> DynamicConfig]

----------------------------------------------------------------------------
(* The layout of assembly_v1.json.                                         *)

StopFields(mask, byte) ==
  <<Flag(mask \o "_EStop", byte, 0), Flag(mask \o "_PStop2", byte, 2),
    Flag(mask \o "_Reboot", byte, 7), Flag(mask \o "_ConnectionDropped", byte + 1, 2)>>

DynamicFields(slot) ==
  <<Number(DynamicType(slot), "int32", 140 + 28 * slot)>>
    \o Numbers(DynamicValues(slot), "float32", 144 + 28 * slot)

InputAssembly ==
  [byte_order |-> "little", size_bytes |-> 252, instance |-> 100, fields |->
     Flags(StatusBits, 0, 0)
     \o <<Flag("RobotStatus_CollisionStatus", 0, 7),
          Flag("RobotStatus_WorkZoneStatus", 1, 0),
          Flag("RobotStatus_MonitoringMode", 1, 1),
          Number("RobotStatus_Error", "uint16", 2),
          Number("MotionStatus_ReachedCheckpointId", "uint16", 4),
          Number("MotionStatus_DiscardedCheckpointId", "uint16", 6),
          Number("MotionStatus_MoveID", "uint16", 8),
          Number("MotionStatus_FIFOSpace", "uint16", 10)>>
     \o Flags(QueueBits, 12, 0)
     \o <<Flag("MotionStatus_ExcessiveTorque", 12, 5),
          Number("MotionStatus_OfflineProgramId", "uint16", 14)>>
     \o Numbers(Joints \o Pose, "float32", 16)
     \o [k \in DOMAIN Configuration |-> Number(Configuration[k], "int8", 63 + k)]
     \o Numbers(Timestamp, "int32", 116)
     \o StopFields("StopMask", 128) \o StopFields("StopResettableMask", 132)
     \o <<Flag("SafetyStatus_State_ResetReady", 137, 0),
          Flag("SafetyStatus_State_VMotorOn", 137, 1)>>
     \o FlattenSeq([k \in 1 .. DYNAMIC_DATA_SLOTS |-> DynamicFields(k - 1)])]

OutputAssembly ==
  [byte_order |-> "little", size_bytes |-> 60, instance |-> 150, fields |->
     Flags(ControlBits, 0, 0)
     \o <<Number("MotionControl_MoveId", "uint16", 4)>>
     \o Flags(MotionBits, 6, 0)
     \o <<Number("MotionCommand", "int32", 8)>>
     \o Numbers(MotionArguments, "float32", 12)
     \o Numbers(DynamicConfig, "int32", 44)]

\* connection_path, segment by segment: a class, then two connection points.
ConnectionPath ==
  <<<<"class", 4>>, <<"connection point", 150>>, <<"connection point", 100>>>>

SpecV1 ==
  [input |-> InputAssembly, output |-> OutputAssembly, connection_path |-> ConnectionPath,
   output_run_idle_header |-> TRUE, input_run_idle_header |-> FALSE]

\* A specification, as ConnectionProfile and the codec of each assembly keep it.
Layout ==
  [byte_order : STRING, size_bytes : Nat, instance : Nat, fields :
     Seq([name : STRING, type : STRING, byte_offset : Int, bit_offset : Int, count : Int])]

Specification ==
  [input : Layout, output : Layout, connection_path : Seq(STRING \X Nat),
   output_run_idle_header : BOOLEAN, input_run_idle_header : BOOLEAN]

\* parse_spec: both assemblies are legal. Nothing relates them to the path, nor
\* to the fields that the groups need.
Loads(spec) == Accepted(spec.input) /\ Accepted(spec.output)
Load(spec) == [spec EXCEPT !.input = Codec(@), !.output = Codec(@)]

----------------------------------------------------------------------------
(* Encoding and decoding a group.                                          *)

FloatZero == <<0, 0, 0, 0>>

\* What an image of zeros says of a field of this type.
Zero(type) ==
  IF type = "bool" THEN FALSE ELSE IF Formats[type].float THEN FloatZero ELSE 0

\* _fit: an empty vector stands for zeros.
Fit(values, count) == IF values = <<>> THEN [k \in 1 .. count |-> FloatZero] ELSE values

\* The values of two groups with a vector.
MotionCommandValues(command_id, arguments) ==
  <<command_id>> \o Fit(arguments, MOTION_ARGUMENT_COUNT)
DynamicDataValues(type_id, values) == <<type_id>> \o Fit(values, DYNAMIC_DATA_VALUES)

Elements(values) == [k \in DOMAIN values |-> <<values[k]>>]

\* Any encode_ method: the fields of the group are written into the image that
\* is passed in, the others are left as they are. A list of dynamic data types
\* may be shorter than the group.
Encode(assembly, names, values, raw) ==
  Pack(assembly, SubSeq(names, 1, Len(values)), Elements(values), raw)

\* Its values fit; otherwise it raises, and there is no new image.
Encodable(assembly, names, values, raw) ==
  /\ \/ Len(values) = Len(names)
     \/ Len(values) < Len(names) /\ names = DynamicConfig
  /\ Packable(assembly, SubSeq(names, 1, Len(values)), Elements(values), raw)

\* The layout has a field of one element for each name, and the values are
\* elements of those fields, which their ranges may not hold.
HasFields(assembly, names) ==
  /\ Len(names) \in Nat /\ DOMAIN names = 1 .. Len(names)
  /\ \A k \in DOMAIN names :
       names[k] \in DOMAIN assembly.fields /\ Field(assembly, names[k]).count = 1

Suit(assembly, names, values) ==
  /\ Len(values) \in Nat /\ values = [k \in 1 .. Len(values) |-> values[k]]
  /\ \A k \in DOMAIN values \cap DOMAIN names :
       values[k] \in ElementsOf(Field(assembly, names[k]).type)

\* from_raw: anything unexpected is UNDEFINED.
FromRaw(value) == IF value \in {-1, 0, 1} THEN value ELSE 0

\* Any decode_ method. Only decode_position converts what it reads.
Decode(assembly, names, raw) ==
  LET values == ReadMany(assembly, raw, names)
  IN [k \in DOMAIN names |->
        IF names[k] \in {Configuration[i] : i \in DOMAIN Configuration}
        THEN FromRaw(values[k][1]) ELSE values[k][1]]

=============================================================================
