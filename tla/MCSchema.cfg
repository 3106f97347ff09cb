CONSTANTS
  en = en
  fi = fi
  first = first
  last = last
  None = None
  Versions <- MCVersions
  Locale <- MCLocale
  GroupProperty <- MCGroupProperty
SPECIFICATION Spec
INVARIANTS TypeOK UpgradeSound GroupsCurrent
