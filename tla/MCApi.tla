------------------------------- MODULE MCApi -------------------------------
EXTENDS Api

WireFormat == INSTANCE Wire
MCEncode(schema, x, down) == WireFormat!Marshal(schema, x, down)
MCDecodeField(schema, x, d, i) == WireFormat!UnmarshalField(schema, x, d, i)

MaxFields == 2      \* how many fields of a message have a value other than zero

Long == [k \in 1 .. 128 |-> Word1]      \* its length takes two bytes

\* For every kind of field, the values it is set to.
MCValues ==
    [bool |-> {TRUE},
     int64 |-> {1, 127, 128, -1, -(2 ^ (WordBits - 1)), 2 ^ (WordBits - 1) - 1},
     uint64 |-> {1, 128, 2 ^ WordBits - 1},
     uint32 |-> {1, 2 ^ Int32Bits - 1},
     enum |-> {1, 2, -1},
     string |-> {<<Word1>>, Long},
     bytes |-> {<<0>>, Long},
     strings |-> {<<<<Word1>>>>, <<<<>>, <<Word2>>>>},
     map |-> {<<Word1>> :> <<>>, (<<Word1>> :> <<Word2>>) @@ (<<>> :> <<Word1>>)},
     extern |-> {<<<<>>>>, <<Extern(Word1)>>},
     externs |-> {<<Extern(Word1)>>, <<<<>>, Extern(Word2)>>}]

\* The messages of a schema with at most n fields set; in a nested message of
\* many fields at most one.
RECURSIVE Messages(_, _)
FieldValues(field) ==
    LET inner == Messages(field.of, IF Cardinality(DOMAIN field.of) > 4 THEN 1 ELSE MaxFields)
    IN
    CASE field.kind = "message" -> {<<x>> : x \in inner}
      [] field.kind = "messages" ->
           {<<x>> : x \in inner} \cup {<<x, Zero(field.of)>> : x \in inner}
      [] OTHER -> MCValues[field.kind]
Messages(schema, n) ==
    {Zero(schema)} \cup
      IF n = 0 THEN {}
      ELSE UNION {{[x EXCEPT ![f] = v] : x \in Messages(schema, n - 1), v \in FieldValues(schema[f])}
                     : f \in DOMAIN schema}

MCRequests == [r \in Methods |-> Messages(ServiceDesc[r].req, MaxFields)]
MCAnswers ==
    [r \in Methods |->
        {x \in Messages(ServiceDesc[r].resp, MaxFields) :
            /\ r = "GetContainer" => x.container_id # <<>>
            /\ r = "GetImage" => x.image # <<>> /\ x.image[1].id # <<>>}]

\* Field 30 in each wire type; the group holds a field 1.
MCUnknown ==
    {<<240, 1, 128, 1>>, <<241, 1>> \o [k \in 1 .. 8 |-> 255], <<242, 1, 2, 8, 8>>,
     <<243, 1, 8, 5, 244, 1>>, <<245, 1>> \o [k \in 1 .. 4 |-> 255]}

\* The values of the flags: for each, texts that meet its parser's cases.
FlagValues ==
    [name |-> {<<Word1>>}, hostname |-> {<<Word2>>}, entrypoint |-> {<<Word1>>},
     user |-> {<<Word1>>, <<Root, Colon, 49>>, <<48, Colon, Word1>>, <<49, Colon, 50>>, <<49>>},
     other |-> {<<Word1>>}, cpus |-> {<<48>>, <<50>>, <<Word1>>},
     net |-> {<<HostWord>>, <<Word1>>}, pid |-> {<<HostWord>>, <<Word1>>},
     ipc |-> {<<HostWord>>, <<Word1>>}, init |-> {TRUE}, tty |-> {TRUE},
     interactive |-> {TRUE}, privileged |-> {TRUE}, readOnly |-> {TRUE},
     groupAdd |-> {<<<<49>>>>, <<<<50>>, <<48>>>>, <<<<Word1>>>>, <<<<Root>>>>,
                   <<<<Word1>>, <<Root>>>>},
     publish |-> {<<<<49>>>>, <<<<50, Colon, 49, UdpSuffix>>, <<49, TcpSuffix>>>>,
                  <<<<Colon, 49>>>>, <<<<51, Colon, 50>>>>},
     volume |-> {<<<<Word1>>, <<Slash>>>>, <<<<Word1, Colon, Slash, Colon, Ro>>>>,
                 <<<<Slash, Colon, Word1, Colon, Word2>>>>, <<<<Slash, Word1, Colon, Ro>>>>,
                 <<<<Slash, Colon, Word2>>, <<Slash, Colon, Word1, Colon, Rw>>>>,
                 <<<<Colon, Slash>>, <<VolumeDir, Colon, Slash>>>>,
                 <<<<Word1, Colon, Slash>>, <<VolumeDir, Slash, Word2, Slash, Word1, Colon, Word2>>,
                   <<VolumeDir, Slash, Word1, Slash, Colon, Word1>>,
                   <<Slash, Word2, Slash, Word1, Colon, Word1>>>>,
                 <<<<Word1, Space, Colon, Slash>>>>},
     env |-> {<<<<Word1, Equals, Word2>>>>, <<<<Word1>>, <<Word2, Equals, Word1, Equals, Word1>>>>},
     envFile |-> {<<<<<<Word1>>, <<Hash, Word1>>, <<>>>>>>,
                  <<<<<<Space, Word1, Equals, Word2>>>>, <<<<Word1, Equals>>>>>>,
                  <<<<<<Word1, Space, Word2, Equals>>>>>>},
     label |-> {<<<<Word1, Equals, Word2>>, <<Word1, Equals, Word1>>>>, <<<<Word2>>>>},
     labelFile |-> {<<<<<<Word1, Equals, Word1>>>>>>},
     memory |-> {<<50>>, <<49, Kilo>>, <<Word1>>}, sysctl |-> {<<Word1>> :> <<Word2>>},
     capAdd |-> {<<<<Word1>>>>}, capDrop |-> {<<<<Word1>>, <<Word2>>>>},
     args |-> {<<<<Word1>>, <<>>, <<Word2>>>>}, stdinOnce |-> {TRUE}]

\* The commands with at most two flags.
MCCommands ==
    LET set(c) == UNION {{[c EXCEPT ![f] = v] : v \in FlagValues[f]} : f \in DOMAIN FlagValues}
    IN  {DefaultFlags} \cup set(DefaultFlags) \cup UNION {set(c) : c \in set(DefaultFlags)}
=============================================================================
