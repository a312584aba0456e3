--------------------------- MODULE OrkConversion ---------------------------
(***************************************************************************)
(* drivers/sensor/openrocket/conversion.py, run when the program is built: *)
(* it turns an export of the OpenRocket simulator into the array of        *)
(* or_data_t the simulated sensors replay.  A column is its variable and   *)
(* its unit, a value is the variable it is of; the magnetic field is       *)
(* computed from others.                                                   *)
(***************************************************************************)
EXTENDS Integers, Sequences, TLC

CONSTANTS
  Exports        (* the files: the header, a sequence of [name, unit], and  *)
                 (* the lines, each "data" or the name of an event          *)

VARIABLES header, lines, config, stage, packet, events

vars == <<header, lines, config, stage, packet, events>>

Flags == {"imu", "barometer", "gnss", "magnetometer"}

(* struct_order: what is taken from the export, in the order of the C      *)
(* struct, and the unit it is wanted in.                                   *)
StructOrder == <<"Time", "Vertical acceleration", "Lateral acceleration", "Roll rate", "Pitch rate", "Yaw rate",
                 "Air temperature", "Air pressure", "Latitude", "Longitude", "Total velocity", "Altitude",
                 "Lateral direction">>
Magnetometer == <<"Magnetometer X", "Magnetometer Y", "Magnetometer Z">>
Orientation == {"Vertical orientation", "Lateral orientation"}
Recognized == {"IGNITION", "LAUNCH", "LIFTOFF", "LAUNCHROD", "BURNOUT", "EJECTION_CHARGE", "APOGEE",
               "RECOVERY_DEVICE_DEPLOYMENT", "GROUND_HIT", "SIMULATION_END"}

Desired(name) ==
  CASE name = "Time" -> "s"
    [] name \in {"Vertical acceleration", "Lateral acceleration"} -> "m/s2"
    [] name \in {"Roll rate", "Pitch rate", "Yaw rate"} -> "rad/s"
    [] name = "Air temperature" -> "C"
    [] name = "Air pressure" -> "kPa"
    [] name = "Total velocity" -> "m/s"
    [] name = "Altitude" -> "m"
    [] OTHER -> "deg"

(* convert_unit: the base of a unit in scaling_conversions, and the        *)
(* temperatures, which have conversions of their own.  A base unit is not  *)
(* a key of its own table.                                                 *)
Scaling ==
  "s" :> {"min"} @@ "m/s" :> {"km/h", "ft/s", "mph", "kt"} @@ "m/s2" :> {"ft/s2", "G"}
    @@ "deg" :> {"rad", "arcmin"} @@ "deg/s" :> {"rad/s", "r/s", "rpm"}
    @@ "mbar" :> {"bar", "atm", "mmHg", "inHg", "psi", "Pa", "kPa"}
Temperatures == {"C", "F", "K"}

Converts(from, to) ==
  \/ from = to
  \/ from \in Temperatures /\ to \in Temperatures
  \/ \E base \in DOMAIN Scaling : from \in {base} \cup Scaling[base] /\ to \in Scaling[base]

(* get_wanted_vars: what the sensors asked for need of the export. *)
Wanted(flags) ==
  {"Time"}
  \cup (IF "imu" \in flags THEN {"Vertical acceleration", "Lateral acceleration", "Roll rate", "Pitch rate", "Yaw rate"} ELSE {})
  \cup (IF "barometer" \in flags THEN {"Air temperature", "Air pressure"} ELSE {})
  \cup (IF "gnss" \in flags THEN {"Latitude", "Longitude", "Total velocity", "Altitude", "Lateral direction"} ELSE {})
  \cup (IF "magnetometer" \in flags THEN Orientation \cup {"Latitude", "Longitude", "Altitude"} ELSE {})

Init ==
  /\ \E file \in Exports : header = file.header /\ lines = file.lines
  /\ config \in SUBSET Flags
  /\ stage = "events" /\ packet = <<>> /\ events = <<>>

Column(name) == CHOOSE i \in DOMAIN header : header[i].name = name
Names == {header[i].name : i \in DOMAIN header}

-----------------------------------------------------------------------------
(* find_ork_events: the events the C program has a name for. *)
FindEvents ==
  /\ stage = "events" /\ stage' = "validate"
  /\ events' = SelectSeq(lines, LAMBDA line : line \in Recognized)
  /\ UNCHANGED <<header, lines, config, packet>>

(* validate_vars: what is missing is complained of, and the program ends. *)
ValidateVars ==
  /\ stage = "validate"
  /\ stage' = IF Wanted(config) \subseteq Names THEN "collect" ELSE "complained"
  /\ UNCHANGED <<header, lines, config, packet, events>>

(* collect_data: every mapped variable in the order of the struct, then    *)
(* what is calculated; a conversion that cannot be made raises.            *)
FieldsAsExported(flags) ==
  SelectSeq([i \in DOMAIN header |-> header[i].name], LAMBDA name : name \in Wanted(flags))
    \o (IF "magnetometer" \in flags THEN Magnetometer ELSE <<>>)
Fields(flags) ==
  SelectSeq(StructOrder, LAMBDA name : name \in Wanted(flags))
    \o (IF "magnetometer" \in flags THEN Magnetometer ELSE <<>>)

CollectData ==
  /\ stage = "collect"
  /\ IF \A name \in Wanted(config) \ Orientation : Converts(header[Column(name)].unit, Desired(name))
     THEN stage' = "written" /\ packet' = Fields(config)
     ELSE stage' = "raised" /\ UNCHANGED packet
  /\ UNCHANGED <<header, lines, config, events>>

Next == FindEvents \/ ValidateVars \/ CollectData

-----------------------------------------------------------------------------
(* or_data_t of openrocket_sensors.h as the same configuration compiles it. *)
Members(flags) ==
  <<"Time">>
  \o (IF "imu" \in flags THEN <<"Vertical acceleration", "Lateral acceleration", "Roll rate", "Pitch rate", "Yaw rate">> ELSE <<>>)
  \o (IF "barometer" \in flags THEN <<"Air temperature", "Air pressure">> ELSE <<>>)
  \o (IF "gnss" \in flags THEN <<"Latitude", "Longitude", "Total velocity", "Altitude", "Lateral direction">> ELSE <<>>)
  \o (IF "magnetometer" \in flags THEN Magnetometer ELSE <<>>)

(* The fields of a packet stand in the order of the members they           *)
(* initialise, whatever the order of the columns of the export.  It needs  *)
(* the GNSS wherever there is a magnetometer: without it the position the  *)
(* field is computed from is written as well, in the magnetometer's place. *)
FieldsMeetMembers ==
  stage = "written" /\ ("magnetometer" \in config => "gnss" \in config) => packet = Members(config)
=============================================================================
