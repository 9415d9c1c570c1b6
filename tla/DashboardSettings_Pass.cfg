SPECIFICATION SettingsSpec
CONSTANTS
  url = url
  domain = domain
  secret = secret
  good = good
  odd = odd
  bad = bad
  Keys = {url, domain, secret}
  Secrets = {secret}
  ExternalUrl = url
  ServiceDomain = domain
  Values = {good, odd, bad}
  Valid <- MCValid
  Usable <- MCUsable
  Default <- MCDefault
  Empty = odd
  HostOf <- MCHostOf
  Environments <- MCEnvironments
  HandFiles <- MCHandFiles
  Bodies <- MCBodies
  Mask = Mask
  Garbage = Garbage
  Threads = {t1, t2}
  Unset = Unset
  MaxFileEdits = 1
INVARIANTS SettingsTypeOK SavedFileLoads CacheIsFresh
