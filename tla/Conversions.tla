----------------------------- MODULE Conversions -----------------------------
(***************************************************************************)
(* pkg/clients/edgex-foundry/util.go: the definition of a device service   *)
(* or a device profile as it is carried between a CR and EdgeX.  A         *)
(* definition is the set of its parts that are still what its author       *)
(* wrote; a conversion keeps the parts it copies, and a part it leaves out *)
(* or writes in another form is lost.                                      *)
(***************************************************************************)
EXTENDS Naturals

ServiceParts == {"Description", "Labels", "BaseAddress"}

ResourceProperties ==
  {"ReadWrite", "Minimum", "Maximum", "DefaultValue", "Mask", "Shift", "Scale",
   "Offset", "Base", "Assertion", "MediaType", "Units", "ValueType"}

(* An attribute is a text, a number or something else, such as a Boolean.  *)
DeviceResource ==
  {"Resource.Description", "Resource.Name", "Resource.Tag", "Resource.IsHidden",
   "Attributes.text", "Attributes.number", "Attributes.other"} \cup ResourceProperties

ResourceOperation == {"Operation.DeviceResource", "Operation.Mappings", "Operation.DefaultValue"}

DeviceCommand ==
  {"Command.Name", "Command.IsHidden", "Command.ReadWrite"} \cup ResourceOperation

ProfileParts ==
  {"Description", "Manufacturer", "Model", "Labels"} \cup DeviceResource \cup DeviceCommand

Definition == SUBSET (ServiceParts \cup ProfileParts)

----------------------------------------------------------------------------
(* From a CR to EdgeX *)

toEdgexDeviceService(d) == d \cap {"Description", "Labels", "BaseAddress"}

toEdgeXProfileProperty(d) ==
  d \cap {"ReadWrite", "Minimum", "Maximum", "DefaultValue", "Mask", "Shift", "Scale",
          "Offset", "Base", "Assertion", "MediaType", "Units", "ValueType"}

(* IsHidden is not copied; the attributes of a CR are texts and stay so.   *)
toEdgeXDeviceResource(d) ==
  toEdgeXProfileProperty(d) \cup
  (d \cap {"Resource.Description", "Resource.Name", "Resource.Tag",
           "Attributes.text", "Attributes.number", "Attributes.other"})

toEdgeXResourceOperations(d) ==
  d \cap {"Operation.DeviceResource", "Operation.Mappings", "Operation.DefaultValue"}

toEdgeXDeviceCommand(d) ==
  toEdgeXResourceOperations(d) \cup
  (d \cap {"Command.Name", "Command.ReadWrite", "Command.IsHidden"})

toEdgeXDeviceProfile(d) ==
  (d \cap {"Description", "Manufacturer", "Model", "Labels"})
  \cup toEdgeXDeviceResource(d) \cup toEdgeXDeviceCommand(d)

----------------------------------------------------------------------------
(* From EdgeX to a CR *)

withoutAddress(d) == d \cap {"Description", "Labels"}  \* faulty form of the next

toKubeDeviceService(d) == d \cap {"Description", "Labels", "BaseAddress"}

toKubeProfileProperty(d) ==
  d \cap {"ValueType", "ReadWrite", "Minimum", "Maximum", "DefaultValue", "Mask", "Shift",
          "Scale", "Offset", "Base", "Assertion", "MediaType", "Units"}

(* A number, decoded from JSON as a float64, becomes the text of its       *)
(* decimal expansion; what is no text and no number goes.                  *)
toKubeDeviceResource(d) ==
  toKubeProfileProperty(d) \cup
  (d \cap {"Resource.Description", "Resource.Name", "Resource.Tag", "Resource.IsHidden",
           "Attributes.text"})

toKubeResourceOperations(d) ==
  d \cap {"Operation.DeviceResource", "Operation.Mappings", "Operation.DefaultValue"}

toKubeDeviceCommand(d) ==
  toKubeResourceOperations(d) \cup
  (d \cap {"Command.Name", "Command.ReadWrite", "Command.IsHidden"})

toKubeDeviceProfile(d) ==
  (d \cap {"Description", "Manufacturer", "Model", "Labels"})
  \cup toKubeDeviceResource(d) \cup toKubeDeviceCommand(d)
=============================================================================
