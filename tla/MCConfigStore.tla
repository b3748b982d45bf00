----------------------------- MODULE MCConfigStore -----------------------------
(* An update: the page has saved the file an older release installed, and the new *)
(* release has a key the older one did not have.                                *)
EXTENDS ConfigStore

Is(section, key, value) == [at |-> <<section, key>>, value |-> value]

\* The release before: without web.enabled and ping.count, the hotspot last.
MCFiles ==
    {<<Is("", "interface", "eth0"), Is("ping", "packet_size", "56"),
       Is("wifi_hotspot", "enabled", "false")>>}
MCTemplate ==
    <<Is("", "interface", "eth0"), Is("ping", "packet_size", "56"),
      Is("wifi_hotspot", "enabled", "true"), Is("web", "enabled", "true"),
      Is("ping", "count", "2")>>

MCEdits ==
    {<<Is("", "interface", "eth1"), Is("web", "host", "all"), Is("ping", "packet_size", "9")>>,
     <<Is("ping", "count", "x")>>, <<Torn>>}

Posted(section, key, value) == [k \in {<<section, key>>} |-> value]
MCPosts ==
    {Posted("web", "enabled", "true"), Posted("ping", "count", "4"),
     Posted("ping", "count", "x"), Posted("wifi_hotspot", "password", "short")}

===============================================================================
