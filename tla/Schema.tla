------------------------------- MODULE Schema -------------------------------
(***************************************************************************)
(* The messages of the k3c API, pkg/remote/apis/k3c/v1alpha1/api.pb.go: a  *)
(* message is the list of its fields (its schema), its value a function    *)
(* from their names.  A byte is an integer below 256; a string is a        *)
(* sequence of bytes; a pointer is a sequence of at most one value, nil    *)
(* being <<>>.                                                             *)
(*                                                                         *)
(* The machine words are narrower than Go's: uint64 has WordBits bits and  *)
(* uint32 Int32Bits.  What depends on a width keeps its shape: the last    *)
(* group of a varint of 64 = 9 * 7 + 1 bits holds one bit.                 *)
(***************************************************************************)
EXTENDS Integers, Sequences, FiniteSets, SequencesExt

CONSTANTS
    WordBits,   \* the width of int, int64 and uint64 (64 in Go)
    Int32Bits   \* the width of int32 and uint32 (32 in Go)

\* A width of the shape of Go's, and one that holds every tag of the schemas.
ASSUME WidthAssumption ==
    /\ WordBits \in Nat /\ WordBits >= 15 /\ WordBits % 7 = 1
    /\ Int32Bits \in 8 .. WordBits - 1

\* What a power of two is, as far as a proof has to know it.
ASSUME PowerAssumption ==
    /\ 2 ^ (Int32Bits - 1) \in Nat \ {0}
    /\ 2 ^ Int32Bits = 2 * 2 ^ (Int32Bits - 1)

-----------------------------------------------------------------------------
(* Schemas.                                                                *)

F(n, kind) == [num |-> n, kind |-> kind, of |-> <<>>]
M(n, schema) == [num |-> n, kind |-> "message", of |-> schema]
Ms(n, schema) == [num |-> n, kind |-> "messages", of |-> schema]

\* The kinds of fields.  "extern" and "externs" are messages of other
\* packages (Kubernetes, CRI), whose own code reads and writes their bytes.
VarintKinds == {"bool", "int64", "uint64", "uint32", "enum"}
RepeatedKinds == {"strings", "messages", "externs"}

Volume == [id |-> F(1, "string")]
ListVolumesRequest == <<>>
ListVolumesResponse == [volumes |-> Ms(1, Volume)]
CreateVolumeRequest == [name |-> F(1, "string")]
CreateVolumeResponse == [volume |-> M(1, Volume)]
RemoveVolumeRequest == [name |-> F(1, "string"), force |-> F(2, "bool")]
RemoveVolumeResponse == <<>>

EventsRequest == <<>>
Event == [id |-> F(1, "string"), name |-> F(2, "string")]
LogContainerRequest == [name |-> F(1, "string"), opts |-> F(2, "extern")]
LogEntry == [stderr |-> F(1, "bool"), message |-> F(2, "bytes")]

GetContainerRequest == [name |-> F(1, "string")]
GetContainerResponse ==
    [pod |-> F(1, "extern"), container |-> F(2, "extern"), container_id |-> F(3, "string")]
RemoveContainerRequest == [container_id |-> F(1, "string")]
RemoveContainerResponse == <<>>
StopContainerRequest == [container_id |-> F(1, "string"), timeout |-> F(2, "int64")]
StopContainerResponse == <<>>
StartContainerRequest == [container_id |-> F(1, "string")]
StartContainerResponse == <<>>
ListPodsRequest == <<>>
ListPodsResponse == [pods |-> F(1, "externs")]

SharedSecurityOptions ==
    [privileged |-> F(1, "bool"), selinux_options |-> F(2, "extern"),
     net_mode |-> F(3, "enum"), pid_mode |-> F(4, "enum"), ipc_mode |-> F(5, "enum"),
     user |-> F(6, "string"), group |-> F(7, "string"), groups |-> F(8, "strings"),
     readonly_root |-> F(9, "bool"), seccomp_profile |-> F(10, "string")]
PodOptions ==
    [hostname |-> F(1, "string"), runtime |-> F(2, "string"), labels |-> F(3, "map"),
     annotations |-> F(4, "map"), dns_config |-> F(5, "extern"),
     port_mappings |-> F(6, "externs"), cgroup_parent |-> F(7, "string"),
     sysctls |-> F(8, "map"), security_context |-> M(10, SharedSecurityOptions)]
CreatePodRequest == [name |-> F(1, "string"), opts |-> M(2, PodOptions)]
CreatePodResponse == [PodID |-> F(1, "string")]
ContainerOptions ==
    [labels |-> F(1, "map"), name |-> F(2, "string"), attempt |-> F(3, "uint32"),
     command |-> F(4, "strings"), args |-> F(5, "strings"), working_dir |-> F(6, "string"),
     envs |-> F(7, "externs"), mounts |-> F(8, "externs"), devices |-> F(9, "externs"),
     stdin |-> F(10, "bool"), stdin_once |-> F(11, "bool"), tty |-> F(12, "bool"),
     millis_cpu |-> F(13, "int64"), linux_resources |-> F(14, "extern"),
     add_capabilities |-> F(15, "strings"), drop_capabilities |-> F(16, "strings"),
     apparmor_profile |-> F(17, "strings"), no_new_privs |-> F(18, "bool"),
     masked_paths |-> F(19, "strings"), readonly_paths |-> F(20, "strings"),
     security_context |-> M(22, SharedSecurityOptions)]
CreateContainerRequest ==
    [pod_id |-> F(1, "string"), image |-> F(2, "string"), opts |-> M(3, ContainerOptions)]
CreateContainerResponse == [container_id |-> F(1, "string")]

ExecOptions == [tty |-> F(1, "bool"), stdin |-> F(2, "bool")]
ExecRequest == [name |-> F(1, "string"), cmd |-> F(2, "strings"), opts |-> M(3, ExecOptions)]
AttachOptions == [no_stdin |-> F(1, "bool")]
AttachRequest == [name |-> F(1, "string"), opts |-> M(2, AttachOptions)]
StreamResponse == [url |-> F(1, "string"), tty |-> F(2, "bool"), stdin |-> F(3, "bool")]

ListImagesRequest == <<>>
Image ==
    [id |-> F(1, "string"), tags |-> F(2, "strings"), digests |-> F(3, "strings"),
     size |-> F(4, "uint64")]
ListImagesResponse == [images |-> Ms(1, Image)]
PullImageRequest == [image |-> F(1, "string"), auth_config |-> F(2, "extern")]
PullImageResponse == [image |-> F(1, "string")]
PushImageRequest == [image |-> F(1, "string"), auth_config |-> F(2, "extern")]
PushImageResponse == <<>>
GetImageRequest == [image |-> F(1, "string")]
GetImageResponse == [image |-> M(1, Image)]
TagImageRequest == [image |-> F(1, "string"), tags |-> F(2, "strings")]
TagImageResponse == <<>>
RemoveImageRequest == [image |-> F(1, "string")]
RemoveImageResponse == <<>>

InfoRequest == [image |-> F(1, "string")]
Info ==
    [ref |-> F(1, "string"), status |-> F(2, "string"), offset |-> F(3, "int64"),
     total |-> F(4, "int64"), started_at |-> F(5, "int64"), updated_at |-> F(6, "int64")]
InfoResponse == [info |-> Ms(1, Info)]

\* new(T): every field has its zero value.
ZeroOf(kind) ==
    CASE kind = "bool" -> FALSE
      [] kind \in VarintKinds \ {"bool"} -> 0
      [] OTHER -> <<>>
Zero(schema) == [f \in DOMAIN schema |-> ZeroOf(schema[f].kind)]

\* &T{...}: the fields of r are set, the others have their zero values.
Literal(schema, r) ==
    [f \in DOMAIN schema |-> IF f \in DOMAIN r THEN r[f] ELSE ZeroOf(schema[f].kind)]

\* The signed number of a word of w bits.
Signed(v, w) == LET x == v % 2 ^ w IN IF x >= 2 ^ (w - 1) THEN x - 2 ^ w ELSE x
=============================================================================
