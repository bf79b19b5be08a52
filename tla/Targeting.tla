----------------------------- MODULE Targeting ------------------------------
(***************************************************************************)
(* The targets of a client (targeting/targeting.go), looked up with the    *)
(* GeoIP2 databases (targeting/geoip2/geoip2.go).                          *)
(*                                                                         *)
(* A client has one address, one country and so on, so a target is named   *)
(* by its kind; "net" is the /24 or /48 of the address.  known says what   *)
(* the databases know of an address: a location (the city database has an  *)
(* entry), and which parts of it are not empty.  geo says whether there is *)
(* a provider, whether the ASN and city databases were there when the zone *)
(* was loaded, and whether the city database is open.                      *)
(***************************************************************************)
EXTENDS Sequences

TargetOptions == {"@", "continent", "country", "regiongroup", "region", "asn", "ip"}

\* Only when TargetRegion or a higher bit is set.
UpperBitLate(opts) == opts \cap {"region", "asn", "ip"} # {}

\* Targeting >= TargetRegionGroup: one of the upper bits is set.
UpperBit(opts) == opts \cap {"regiongroup", "region", "asn", "ip"} # {}

\* The zone is loaded: HasLocation() opens the city database if it can; another
\* zone may have opened it before.
LoadZone(opts, hasClosest, db, before) ==
    [provider |-> db.provider, asn |-> db.asn, cityDB |-> db.city,
     city |-> db.provider /\ db.city /\ (before \/ UpperBit(opts) \/ hasClosest)]

NeedsLocation(opts, hasClosest) == hasClosest \/ opts \cap {"region", "regiongroup"} # {}

\* GetLocation uses the city database without looking whether it is open.
LocationPanics(opts, hasClosest, geo) ==
    geo.provider /\ NeedsLocation(opts, hasClosest) /\ ~ geo.city

\* A location that is not found also hides country and continent.
getGeoTargets(opts, hasClosest, geo, known) ==
    LET shown == IF NeedsLocation(opts, hasClosest) /\ "location" \notin known
                 THEN {} ELSE opts \cap known
        part(t) == IF t \in shown THEN <<t>> ELSE <<>>
    IN  (IF "asn" \in opts /\ geo.asn THEN <<"asn">> ELSE <<>>)
        \o part("region") \o part("regiongroup") \o part("country") \o part("continent")

\* ip4[3] = 0, in the caller's address.
Zeroed(opts, ip) == IF "ip" \in opts /\ ip = "v4" THEN "v4net" ELSE ip

addressTargets(opts, ip) ==
    IF "ip" \notin opts THEN <<>>
    ELSE IF ip = "v4net" THEN <<"net">> ELSE <<"ip", "net">>

\* The lookup is made with the address as it was.
LookupBefore(opts, ip) == ip

\* The address that is looked up.
LookupAddress(opts, ip) == Zeroed(opts, ip)

GetTargets(opts, hasClosest, geo, client, ip) ==
    addressTargets(opts, ip)
    \o (IF geo.provider
        THEN getGeoTargets(opts, hasClosest, geo, client.known[LookupAddress(opts, ip)])
        ELSE <<>>)
    \o (IF "@" \in opts THEN <<"@">> ELSE <<>>)

\* Whether a location comes with the targets.
HasLocation(opts, hasClosest, geo, client, ip) ==
    /\ geo.provider
    /\ NeedsLocation(opts, hasClosest)
    /\ "location" \in client.known[LookupAddress(opts, ip)]

=============================================================================
