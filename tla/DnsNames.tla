------------------------------- MODULE DnsNames -------------------------------
(***************************************************************************)
(* Domain names: the base domain as the settings and DnsZoneName read it,  *)
(* the names and zones FqdnBuilder makes from it with the default          *)
(* template, and the zones of Designate that the adapter takes for the     *)
(* program's.  Characters are those of ProjectIdLabel, and ".".            *)
(***************************************************************************)
EXTENDS ProjectIdLabel

Dot == <<".">>
EndDot(s) == IF s # <<>> /\ Last(s) = "." THEN s ELSE s \o Dot

\* _normalize_name, and the validator of dns.base_domain for a value that is not blank.
Normalized(s) == EndDot(LowerAll(Strip(s, {" "})))

\* The labels between the dots, those at the end of the name aside.
AddTo(labels, c) == IF c = "." THEN Append(labels, <<>>)
                    ELSE [labels EXCEPT ![Len(labels)] = Append(@, c)]
LabelsOf(s) ==
    FoldLeft(AddTo, <<<<>>>>, SubSeq(s, 1, Max({0} \cup {i \in DOMAIN s : s[i] # "."})))

\* DnsZoneName, or NoName where it or the settings refuse the text.
NoName == <<>>
ZoneName(s) ==
    IF \A i \in DOMAIN LabelsOf(Normalized(s)) : ValidLabel(LabelsOf(Normalized(s))[i])
    THEN Normalized(s) ELSE NoName

-----------------------------------------------------------------------------
(* FqdnBuilder *)

Strategies == {"single_zone", "per_project_zone"}

\* Variant with a bug: the records of a project go to the base zone.
ZoneFor_Base(strategy, base, p) == base
ZoneFor(strategy, base, p) ==
    IF strategy = "per_project_zone" THEN ZoneName(p \o Dot \o base) ELSE base

\* build raises if a label or the name is not valid.
Built(base, l, p) ==
    LET fqdn == Normalized(l \o Dot \o p \o Dot \o base)
    IN  IF ValidLabel(l) /\ ValidLabel(p) THEN ZoneName(fqdn) ELSE NoName

-----------------------------------------------------------------------------
(* _managed_zones *)

\* Variant with a bug: any name with that ending.
Managed_Ending(strategy, base, z) ==
    IF strategy = "single_zone" THEN Normalized(z) = base ELSE IsSuffix(base, Normalized(z))
Managed(strategy, base, z) ==
    IF strategy = "single_zone" THEN Normalized(z) = base
                                ELSE IsSuffix(Dot \o base, Normalized(z))
=============================================================================
