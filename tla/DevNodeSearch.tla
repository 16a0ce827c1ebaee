--------------------------- MODULE DevNodeSearch ----------------------------
(***************************************************************************)
(* V4L2::get_subdev_node_4_sensor with get_devnode_from_sysfs: the media   *)
(* device's entities are enumerated, the device node of each is looked up  *)
(* in sysfs, and the node of the first entity named like the sensor is     *)
(* taken.                                                                  *)
(*                                                                         *)
(* The node that sysfs names for entity i is called i here.  cur_devnode   *)
(* is one buffer for the whole search: a lookup that fails, or finds that  *)
(* the node has the wrong major and minor number, leaves it as it was, and *)
(* its return value is ignored.                                            *)
(***************************************************************************)
EXTENDS Integers, Sequences, FiniteSetsExt

CONSTANT MaxEntities   \* bound on the entities of the media device

ASSUME MaxEntitiesAssumption == MaxEntities \in Nat

VARIABLES
  entities,           \* the media device: what each entity is and how its lookup ends
  pc,
  id,                 \* the entity enumerated last, 0 before the first
  cur_devnode,        \* the buffer the lookup fills
  sd_devnode_4_dtof   \* the result: the node V4l2_initilize opens

vars == <<entities, pc, id, cur_devnode, sd_devnode_4_dtof>>

\* "error": readlink or stat fails, or the link is odd.  "mismatch": the node
\* exists, but udev gave its name to another device.
Lookups == {"match", "mismatch", "error"}

Entities == [sensor : BOOLEAN, lookup : Lookups]

Garbage == 0   \* what an uninitialised buffer holds

Locations == {"open", "enum", "lookup", "compare", "found", "failed"}

TypeOK ==
  /\ entities \in Seq(Entities)
  /\ pc \in Locations
  /\ id \in 0 .. Len(entities)
  /\ cur_devnode \in 0 .. Len(entities)
  /\ sd_devnode_4_dtof \in 0 .. Len(entities)

Init ==
  /\ entities \in UNION {[1 .. n -> Entities] : n \in 0 .. MaxEntities}
  /\ pc = "open"
  /\ id = 0
  /\ cur_devnode = Garbage
  /\ sd_devnode_4_dtof = Garbage

\* The media device is opened, or not.
OpenMedia ==
  /\ pc = "open"
  /\ pc' \in {"enum", "failed"}
  /\ UNCHANGED <<entities, id, cur_devnode, sd_devnode_4_dtof>>

\* Fault: the search runs past the last entity.
NextEntity_PastEnd ==
  /\ pc = "enum"
  /\ id' = id + 1
  /\ pc' = "lookup"
  /\ UNCHANGED <<entities, cur_devnode, sd_devnode_4_dtof>>

\* MEDIA_IOC_ENUM_ENTITIES with MEDIA_ENT_ID_FLAG_NEXT.
NextEntity ==
  /\ pc = "enum"
  /\ id < Len(entities)
  /\ id' = id + 1
  /\ pc' = "lookup"
  /\ UNCHANGED <<entities, cur_devnode, sd_devnode_4_dtof>>

\* The ioctl fails: after the last entity, or earlier.
EnumFails ==
  /\ pc = "enum"
  /\ pc' = "failed"
  /\ UNCHANGED <<entities, id, cur_devnode, sd_devnode_4_dtof>>

\* Fault: the node is copied whether or not the numbers match.
GetDevnode_Unchecked ==
  /\ pc = "lookup"
  /\ cur_devnode' = IF entities[id].lookup = "error" THEN cur_devnode ELSE id
  /\ pc' = "compare"
  /\ UNCHANGED <<entities, id, sd_devnode_4_dtof>>

\* get_devnode_from_sysfs
GetDevnode ==
  /\ pc = "lookup"
  /\ cur_devnode' = IF entities[id].lookup = "match" THEN id ELSE cur_devnode
  /\ pc' = "compare"
  /\ UNCHANGED <<entities, id, sd_devnode_4_dtof>>

\* Fault: the search goes on after a hit, until the ioctl fails.
CompareName_NoBreak ==
  /\ pc = "compare"
  /\ sd_devnode_4_dtof' = IF entities[id].sensor THEN cur_devnode ELSE sd_devnode_4_dtof
  /\ pc' = "enum"
  /\ UNCHANGED <<entities, id, cur_devnode>>

\* strcmp(sensor_sd_name, entity_desc.name)
CompareName ==
  /\ pc = "compare"
  /\ IF entities[id].sensor
       THEN sd_devnode_4_dtof' = cur_devnode /\ pc' = "found"
       ELSE pc' = "enum" /\ UNCHANGED sd_devnode_4_dtof
  /\ UNCHANGED <<entities, id, cur_devnode>>

Next == OpenMedia \/ NextEntity \/ EnumFails \/ GetDevnode \/ CompareName

Spec == Init /\ [][Next]_vars

-----------------------------------------------------------------------------
(* Properties. *)

SensorEntities == {i \in DOMAIN entities : entities[i].sensor}

\* The search stops at the first entity that is the sensor, and fails only if none
\* of those it was told of is: on a media device that can be read to its end,
\* only if there is none.
FirstSensorFound ==
  /\ pc = "failed" => SensorEntities \cap 1 .. id = {}
  /\ pc = "found" => id = Min(SensorEntities)

\* The node that is opened is that of the last entity, up to the sensor, whose
\* lookup ended in a match: the sensor's own if its lookup did, otherwise a
\* stale one, and garbage if none did.
NodeOfLastMatch ==
  pc = "found" =>
    sd_devnode_4_dtof = Max({Garbage} \cup {i \in 1 .. id : entities[i].lookup = "match"})

\* "Make sure the major/minor match." (v4l2.cpp:150): the node that is opened
\* is the node of the sensor's entity.
NodeIsTheSensors == pc = "found" => sd_devnode_4_dtof = id
=============================================================================
