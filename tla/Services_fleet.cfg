SPECIFICATION FleetSpec
CONSTANT Component={"enrollment","presence","update","checks","compliance","accounts"}
CONSTANTS
 None=None
 Token={t1,t2}
 Host={h1,h2}
 Name={n1}
 Site={s1}
 Identity={1,2}
 AgentUses=1
 CollectorUses=1
 Agent={a1}
 Link={l1,l2}
 WriterBuffer=1
 WireRoom=1
 SweepLimit=1
 Torn=Torn
 MaxVersion=3
 Check={c1}
 Credential={k1}
 CheckAgent={g1}
 LocalAgent={g1}
 Probe={p1,p2}
 Ip={i1,i2}
 RetireAfter=2
 Scanner={s1,s2}
 HostCount=2
 DeviceLimit=1
 Serial={d1,d2}
 DeviceName={x}
 Device={d1}
 MerakiAppliance={x,y}
 Loop={b1,b2}
 Pid={p1,p2}
 MaxClock=2
 Second=2
 StopRing=1
 ChannelCount=3
 MailChannel={2,3}
 TimeLimit=4
 Uplink={u1,u2}
 LinkLimit=2
 MaxDays=2
 DefaultDays=1
 PruneBatch=1
 AlarmRow={r1,r2}
 User={u1,u2,u3}
 Place={s1}
 Resident={h1}
 Source={z1}
 FlowRecord={f1,f2,f3}
 FlushSize=2
 NetDevice={a1,a2}
 Stranger={x}
 Unnamed=Unnamed
 Internet=Internet
 Contained={{x,a1}}
 ReportLimit=2
INVARIANTS ServicesTypeOK CredentialsWithinBudget RunnableAtPath
PROPERTIES EnrollmentImplementsBudget OfflineOncePerSilence SilenceIsAnnounced UpdateArrives CentralChecksRun LostCredentialShows PostureFollows LostOnlyWhenOvertaken
CHECK_DEADLOCK FALSE
